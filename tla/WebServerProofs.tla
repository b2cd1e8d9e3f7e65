-------------------------- MODULE WebServerProofs --------------------------
(***************************************************************************)
(* Proofs about WebServer, for any number of connections and threads and   *)
(* any timeouts, and about ScopeRunner, which guards its handlers.         *)
(***************************************************************************)
EXTENDS WebServer, ScopeRunner, FiniteSetTheorems, TLAPS

(***************************************************************************)
(* The inductive invariant, in parts                                       *)
(***************************************************************************)

\* A connection's state agrees with itself: the scope lock is held in an
\* operation's handler or in the application's callback, always in the latter;
\* the entry in the set goes before the object; an accept is aborted only by
\* closing the acceptor.
Sound(r) ==
    /\ r.busy => r.stage \in OpStages \cup {"handler"}
    /\ r.stage = "handler" => r.busy
    /\ r.listed => r.stage \notin {"none", "erased"}
    /\ r.ready = "aborted" => acceptor = "closed"
    /\ r.stage = "none" => r = NoConnection

\* Nothing exists before the pool has executed the start lambda.
NothingBeforeStart ==
    /\ ~running => stopping = "no" /\ lambda = "none"
    /\ ~running \/ lambda = "posted" =>
          acceptor # "open" /\ \A c \in Conns : conn[c] = NoConnection

\* The runner is stopped exactly between its stop() and the end of stop().
RunnerStopped ==
    /\ stopping = "workers" => ~admits /\ \A c \in Conns : ~conn[c].busy
    /\ ~admits => stopping = "workers" \/ ~running

\* While clients are accepted it is always one object that waits for the next.
OneAccepts == acceptor = "open" /\ admits =>
    \E a \in Conns : \A c \in Conns : conn[c].stage = "accepting" <=> c = a

IInv == /\ TypeOK /\ NothingBeforeStart /\ RunnerStopped /\ OneAccepts
        /\ \A c \in Conns : Sound(conn[c])

\* A server that has not been started satisfies the invariant.
LEMMA InitIInv == Init => IInv
<1> SUFFICES ASSUME Init PROVE IInv
  OBVIOUS
<1>1. NoConnection \in Connection /\ ~NoConnection.busy /\ Sound(NoConnection)
  BY DEF Connection, NoConnection, Sound
<1>2. TypeOK /\ \A c \in Conns : conn[c] = NoConnection
  BY <1>1 DEF Init, TypeOK
<1>3. QED
  BY <1>1, <1>2 DEF Init, IInv, NothingBeforeStart, RunnerStopped, OneAccepts

\* A step of one existing connection preserves the invariant if its new state
\* is sound, takes no scope lock once the runner is stopped, and begins or ends
\* an accept only when no more clients are accepted.
LEMMA GoesIInv ==
    ASSUME IInv, NEW c \in Conns, NEW r \in Connection, Goes(c, r),
           conn[c].stage # "none", Sound(r),
           r.busy => conn[c].busy \/ admits,
           acceptor = "open" /\ admits =>
              (r.stage = "accepting" <=> conn[c].stage = "accepting")
    PROVE  IInv'
<1>1. running /\ lambda # "posted"
  BY DEF IInv, NothingBeforeStart, NoConnection
<1>2. /\ conn' = [conn EXCEPT ![c] = r]
      /\ UNCHANGED <<secure, running, lambda, acceptor, stopping, admits>>
  BY DEF Goes
<1>3. /\ TypeOK' /\ conn'[c] = r
      /\ \A d \in Conns : d # c => conn'[d] = conn[d]
  BY <1>2 DEF IInv, TypeOK
<1>4. \A d \in Conns : Sound(conn[d])'
  BY <1>2, <1>3 DEF IInv, Sound
<1>5. NothingBeforeStart'
  BY <1>1, <1>2 DEF IInv, NothingBeforeStart
<1>6. RunnerStopped'
  BY <1>2, <1>3 DEF IInv, RunnerStopped
<1>7. OneAccepts'
  BY <1>2, <1>3 DEF IInv, OneAccepts
<1>8. QED
  BY <1>3, <1>4, <1>5, <1>6, <1>7 DEF IInv

\* What the session's operators make of a connection's state is one.
LEMMA SessionOperators ==
    ASSUME NEW r \in Connection, NEW seconds \in Nat, NEW stage \in OpStages
    PROVE  /\ set_timeout(r, seconds) \in Connection
           /\ cancel_timeout(r) \in Connection
           /\ close(r) \in Connection
           /\ Await(r, stage) \in Connection
           /\ Drop(r) \in Connection
<1>1. (seconds > 0) \in BOOLEAN
  OBVIOUS
<1>2. set_timeout(r, seconds) \in Connection
  BY <1>1 DEF set_timeout, Connection
<1>3. cancel_timeout(r) \in Connection
  BY DEF cancel_timeout, Connection
<1>4. close(r) \in Connection
  BY DEF close, Connection
<1>5. Await(r, stage) \in Connection
  BY DEF Await, Connection
<1>6. Drop(r) \in Connection
  BY DEF Drop, Connection
<1>7. QED
  BY <1>2, <1>3, <1>4, <1>5, <1>6

\* An operation's handler that starts another operation, other than an accept,
\* or drops the session preserves the invariant, and so does one that calls
\* the application.
LEMMA HandlerIInv ==
    ASSUME IInv, NEW c \in Conns, conn[c].stage \notin {"none", "erased", "accepting"}
    PROVE  /\ \A seconds \in Nat, stage \in PeerStages :
                 Goes(c, Await(set_timeout(conn[c], seconds), stage)) => IInv'
           /\ Goes(c, Drop(conn[c])) => IInv'
           /\ conn[c].busy /\ Goes(c, write(conn[c])) => IInv'
<1> conn[c] \in Connection /\ Sound(conn[c])
  BY DEF IInv, TypeOK
<1>1. ASSUME NEW seconds \in Nat, NEW stage \in PeerStages,
             Goes(c, Await(set_timeout(conn[c], seconds), stage))
      PROVE  IInv'
  <2> DEFINE r == Await(set_timeout(conn[c], seconds), stage)
  <2>1. stage \in OpStages /\ stage # "accepting"
    BY DEF PeerStages
  <2>2. r \in Connection
    BY <2>1, SessionOperators
  <2>3. Sound(r) /\ ~r.busy /\ r.stage # "accepting"
    BY <2>1 DEF Sound, Await, set_timeout, Connection, OpStages
  <2>4. QED
    BY <1>1, <2>2, <2>3, GoesIInv
<1>2. ASSUME Goes(c, Drop(conn[c])) PROVE IInv'
  <2> DEFINE r == Drop(conn[c])
  <2>1. r \in Connection
    BY SessionOperators DEF OpStages
  <2>2. Sound(r) /\ ~r.busy /\ r.stage # "accepting"
    BY DEF Sound, Drop, Connection
  <2>3. QED
    BY <1>2, <2>1, <2>2, GoesIInv
<1>3. ASSUME conn[c].busy, Goes(c, write(conn[c])) PROVE IInv'
  <2> DEFINE r == write(conn[c])
  <2>1. r \in Connection
    <3>1. set_timeout(conn[c], TimeoutContent) \in Connection
      BY ServerAssumption, SessionOperators DEF OpStages
    <3>2. QED
      BY <3>1 DEF write, Connection
  <2>2. Sound(r) /\ r.stage # "accepting"
    BY <1>3 DEF Sound, write, set_timeout, Connection
  <2>3. QED
    BY <1>3, <2>1, <2>2, GoesIInv
<1>4. QED
  BY <1>1, <1>2, <1>3

\* The steps of start() and stop() preserve the invariant.
LEMMA ServerIInv ==
    ASSUME IInv, start \/ StartLambda \/ CallStop \/ Stop PROVE IInv'
<1>1. NoConnection \in Connection /\ ~NoConnection.busy /\ Sound(NoConnection)
  BY DEF Connection, NoConnection, Sound
<1>2. CASE start
  BY <1>2 DEF start, IInv, TypeOK, Sound, NothingBeforeStart, RunnerStopped, OneAccepts,
              NoConnection
<1>3. CASE StartLambda
  <2>1. \A c \in Conns : conn[c] = NoConnection
    BY <1>3 DEF StartLambda, IInv, NothingBeforeStart
  <2>2. CASE acceptor' = "open"
    <3>1. PICK a \in Conns : conn' = [conn EXCEPT ![a] = create_connection]
      BY <1>3, <2>2 DEF StartLambda
    <3>2. create_connection \in Connection /\ ~create_connection.busy
          /\ create_connection.stage = "accepting"
          /\ create_connection.ready = "no"
      BY DEF create_connection, Connection, NoConnection, OpStages
    <3>3. TypeOK'
      BY <1>3, <3>1, <3>2 DEF StartLambda, IInv, TypeOK
    <3>4. \A c \in Conns : conn'[c] = IF c = a THEN create_connection ELSE NoConnection
      BY <2>1, <3>1 DEF IInv, TypeOK
    <3>5. \A c \in Conns : Sound(conn[c])'
      BY <3>2, <3>4 DEF Sound, NoConnection
    <3>6. OneAccepts'
      BY <3>2, <3>4 DEF OneAccepts, NoConnection
    <3>7. QED
      BY <1>1, <1>3, <3>2, <3>3, <3>4, <3>5, <3>6
         DEF StartLambda, IInv, NothingBeforeStart, RunnerStopped
  <2>3. CASE acceptor' # "open"
    BY <1>1, <1>3, <2>1, <2>3
       DEF StartLambda, IInv, TypeOK, Sound, NoConnection, NothingBeforeStart,
           RunnerStopped, OneAccepts
  <2>4. QED
    BY <2>2, <2>3
<1>4. CASE CallStop
  BY <1>4 DEF CallStop, IInv, TypeOK, Sound, NothingBeforeStart, RunnerStopped, OneAccepts
<1>5. CASE StopAcceptor
  BY <1>5 DEF StopAcceptor, IInv, TypeOK, Sound, NothingBeforeStart, RunnerStopped, OneAccepts
<1>6. CASE StopConnections
  <2>1. /\ running /\ stopping = "connections" /\ stopping' = "runner"
        /\ UNCHANGED <<secure, running, lambda, acceptor, admits>>
    BY <1>6 DEF StopConnections, IInv, NothingBeforeStart
  <2> DEFINE new(c) == IF conn[c].listed
                       THEN [close(conn[c]) EXCEPT !.listed = FALSE] ELSE conn[c]
  <2>2. \A c \in Conns : conn[c] \in Connection /\ Sound(conn[c])
    BY DEF IInv, TypeOK
  <2>3. ASSUME NEW c \in Conns
        PROVE  /\ new(c) \in Connection /\ Sound(new(c))
               /\ new(c).busy = conn[c].busy /\ new(c).stage = conn[c].stage
               /\ conn[c] = NoConnection => new(c) = NoConnection
    <3>1. CASE conn[c].listed
      <4> DEFINE k == [conn[c] EXCEPT !.open = FALSE, !.listed = FALSE]
      <4>1. new(c) = k
        BY <3>1, <2>2 DEF close, Connection
      <4>2. k \in Connection /\ Sound(k)
        <5>1. k \in Connection /\ ~k.listed
          BY <2>2 DEF Connection
        <5>2. /\ k.busy = conn[c].busy /\ k.stage = conn[c].stage /\ k.ready = conn[c].ready
              /\ conn[c].stage # "none"
          BY <3>1, <2>2 DEF Connection, Sound
        <5>3. QED
          BY <2>2, <5>1, <5>2 DEF Sound
      <4>3. k.busy = conn[c].busy /\ k.stage = conn[c].stage /\ conn[c] # NoConnection
        BY <3>1, <2>2 DEF Connection, NoConnection
      <4>4. QED
        BY <4>1, <4>2, <4>3
    <3>2. CASE ~conn[c].listed
      BY <3>2, <2>2
    <3>3. QED
      BY <3>1, <3>2
  <2>4. conn' = [c \in Conns |-> new(c)]
    BY <1>6 DEF StopConnections
  <2> HIDE DEF new
  <2>5. TypeOK'
    BY <2>1, <2>3, <2>4 DEF IInv, TypeOK
  <2>6. ASSUME NEW c \in Conns PROVE Sound(conn[c])'
    <3>1. conn'[c] = new(c)
      BY <2>4
    <3>2. QED
      BY <2>1, <2>3, <3>1 DEF Sound
  <2>7. NothingBeforeStart'
    BY <2>1, <2>3, <2>4 DEF IInv, NothingBeforeStart
  <2>8. RunnerStopped'
    BY <2>1 DEF IInv, RunnerStopped
  <2>9. OneAccepts'
    BY <2>1, <2>3, <2>4 DEF IInv, OneAccepts
  <2>10. QED
    BY <2>5, <2>6, <2>7, <2>8, <2>9 DEF IInv
<1>7. CASE StopRunner
  BY <1>7 DEF StopRunner, IInv, TypeOK, Sound, NothingBeforeStart, RunnerStopped, OneAccepts
<1>8. CASE StopWorkers
  BY <1>1, <1>8
     DEF StopWorkers, IInv, TypeOK, Sound, NothingBeforeStart, RunnerStopped, OneAccepts,
         NoConnection
<1>9. QED
  BY <1>2, <1>3, <1>4, <1>5, <1>6, <1>7, <1>8 DEF Stop

\* accept() hands over from one accepting object to the next.
LEMMA AcceptedIInv == ASSUME IInv, NEW c \in Conns, Accepted(c) PROVE IInv'
<1> DEFINE k == conn[c]
           after == CASE k.ready # "ok" -> Drop(k)
                      [] k.ready = "ok" /\ secure
                             -> Await(set_timeout(k, TimeoutRequest), "handshake")
                      [] OTHER -> read(k)
<1>1. /\ k \in Connection /\ Sound(k) /\ k.busy /\ k.stage = "accepting"
      /\ UNCHANGED <<secure, running, lambda, acceptor, stopping, admits>>
  BY DEF Accepted, IInv, TypeOK
<1>2. /\ after \in Connection /\ Sound(after)
      /\ ~after.busy /\ after.stage \notin {"accepting", "none"}
  <2>1. CASE k.ready # "ok"
    <3>1. after = Drop(k)
      BY <2>1
    <3>2. QED
      <4>1. Drop(k) \in Connection
        BY <1>1 DEF Drop, Connection
      <4>2. /\ ~Drop(k).busy /\ Drop(k).stage \notin {"accepting", "none", "handler"}
            /\ Drop(k).stage # "erased" /\ Drop(k).ready # "aborted"
        BY <1>1 DEF Drop, Connection
      <4>3. QED
        BY <3>1, <4>1, <4>2 DEF Sound
  <2>2. ASSUME NEW stage \in {"handshake", "header"}
        PROVE  LET r == Await(set_timeout(k, TimeoutRequest), stage)
               IN r \in Connection /\ Sound(r) /\ ~r.busy /\ r.stage = stage
    <3> DEFINE r == Await(set_timeout(k, TimeoutRequest), stage)
    <3>1. r \in Connection
      BY <1>1, ServerAssumption, SessionOperators DEF OpStages
    <3>2. Sound(r) /\ ~r.busy /\ r.stage = stage
      BY <1>1 DEF Await, set_timeout, Connection, Sound
    <3>3. QED
      BY <3>1, <3>2
  <2>3. CASE k.ready = "ok" /\ secure
    <3>1. after = Await(set_timeout(k, TimeoutRequest), "handshake")
      BY <2>3
    <3>2. QED
      BY <2>2, <3>1
  <2>4. CASE k.ready = "ok" /\ ~secure
    <3>1. after = Await(set_timeout(k, TimeoutRequest), "header")
      BY <2>4 DEF read
    <3>2. QED
      BY <2>2, <3>1
  <2>5. QED
    BY <2>1, <2>3, <2>4
<1>3. CASE k.ready = "aborted"
  <2>1. Goes(c, after) /\ acceptor = "closed"
    BY <1>1, <1>3 DEF Accepted, Goes, Sound
  <2> HIDE DEF after
  <2>2. QED
    BY <1>1, <1>2, <2>1, GoesIInv
<1>4. CASE k.ready # "aborted"
  <2>1. PICK d \in Conns : /\ conn[d].stage = "none"
                           /\ conn' = [conn EXCEPT ![d] = create_connection, ![c] = after]
    BY <1>4 DEF Accepted
  <2> HIDE DEF after
  <2>2. create_connection \in Connection /\ ~create_connection.busy
        /\ create_connection.stage = "accepting"
        /\ create_connection.ready = "no"
    BY DEF create_connection, Connection, NoConnection, OpStages
  <2>3. d # c
    BY <1>1, <2>1
  <2>4. /\ TypeOK' /\ conn'[c] = after /\ conn'[d] = create_connection
        /\ \A e \in Conns : e # c /\ e # d => conn'[e] = conn[e]
    BY <1>1, <1>2, <2>1, <2>2, <2>3 DEF IInv, TypeOK
  <2>5. \A e \in Conns : Sound(conn[e])'
    BY <1>1, <1>2, <2>2, <2>4 DEF IInv, Sound
  <2>6. running /\ lambda # "posted"
    BY <1>1 DEF IInv, NothingBeforeStart, NoConnection
  <2>7. NothingBeforeStart'
    BY <1>1, <2>6 DEF IInv, NothingBeforeStart
  <2>8. RunnerStopped'
    BY <1>1, <1>2, <2>2, <2>4 DEF IInv, RunnerStopped
  <2>9. OneAccepts'
    BY <1>1, <1>2, <2>2, <2>4 DEF IInv, OneAccepts
  <2>10. QED
    BY <2>4, <2>5, <2>7, <2>8, <2>9 DEF IInv
<1>5. QED
  BY <1>3, <1>4

\* The bodies of all handlers preserve the invariant.
LEMMA BodyIInv == ASSUME IInv, NEW c \in Conns, Body(c) PROVE IInv'
<1> DEFINE k == conn[c]
           handled == k.stage \notin {"none", "erased", "accepting"} /\ k.busy
<1>1. k \in Connection /\ Sound(k)
  BY DEF IInv, TypeOK
<1>2. TimeoutRequest \in Nat /\ TimeoutContent \in Nat
  BY ServerAssumption
<1>3. ASSUME handled, NEW seconds \in Nat, NEW stage \in PeerStages,
             Goes(c, Await(set_timeout(k, seconds), stage))
      PROVE  IInv'
  BY <1>3, HandlerIInv
<1>4. ASSUME handled, Goes(c, Drop(k)) PROVE IInv'
  BY <1>4, HandlerIInv
<1>5. ASSUME handled, find_resource(c) PROVE IInv'
  BY <1>5, HandlerIInv DEF find_resource
<1>6. ASSUME handled, ReadChunk(c) PROVE IInv'
  BY <1>2, <1>3, <1>5, <1>6 DEF ReadChunk, Refuse, send, PeerStages, OpStages
<1>7. CASE OperationFailed(c)
  BY <1>4, <1>7 DEF OperationFailed, PeerStages, OpStages
<1>8. CASE TooLarge(c)
  BY <1>2, <1>3, <1>8 DEF TooLarge, Refuse, send, PeerStages, OpStages
<1>9. CASE Handshaken(c)
  BY <1>2, <1>3, <1>9 DEF Handshaken, read, PeerStages, OpStages
<1>10. CASE HeaderRead(c)
  BY <1>2, <1>3, <1>4, <1>5, <1>10 DEF HeaderRead, PeerStages, OpStages
<1>11. CASE ContentRead(c)
  BY <1>5, <1>11 DEF ContentRead
<1>12. CASE ChunkHead(c)
  BY <1>2, <1>3, <1>4, <1>6, <1>12 DEF ChunkHead, PeerStages, OpStages
<1>13. CASE ChunkBody(c)
  BY <1>6, <1>13 DEF ChunkBody
<1>14. CASE CallbackReturns(c)
  <2>1. handled
    BY <1>1, <1>14 DEF CallbackReturns, Sound
  <2> DEFINE r == [k EXCEPT !.stage = "held", !.ready = "no", !.busy = FALSE]
  <2>2. ASSUME Goes(c, r) PROVE IInv'
    <3>1. r \in Connection /\ Sound(r) /\ ~r.busy /\ r.stage # "accepting"
      BY <1>1, <2>1 DEF Connection, Sound
    <3>2. QED
      BY <2>1, <2>2, <3>1, GoesIInv
  <2>3. QED
    BY <1>2, <1>3, <1>14, <2>1, <2>2 DEF CallbackReturns, send, PeerStages, OpStages
<1>15. CASE Sent(c)
  BY <1>2, <1>3, <1>4, <1>15 DEF Sent, read, PeerStages, OpStages
<1>16. QED
  BY <1>7, <1>8, <1>9, <1>10, <1>11, <1>12, <1>13, <1>14, <1>15, AcceptedIInv DEF Body

\* The steps of a connection's peer, timer, deleter and handlers preserve it.
LEMMA ConnectionIInv ==
    ASSUME IInv, NEW c \in Conns,
           \/ PeerAnswers(c) \/ Fails(c) \/ TimerExpires(c) \/ TimerHandler(c)
           \/ Erase(c) \/ Delete(c) \/ Enter(c) \/ Body(c) \/ ReleaseResponse(c)
    PROVE  IInv'
<1> DEFINE k == conn[c]
<1>1. k \in Connection /\ Sound(k)
  BY DEF IInv, TypeOK
<1>2. TimeoutRequest \in Nat /\ TimeoutContent \in Nat
  BY ServerAssumption
<1>3. CASE PeerAnswers(c)
  <2>1. PICK result \in {"ok", "error", "full"} : Goes(c, [k EXCEPT !.ready = result])
    BY <1>3 DEF PeerAnswers
  <2> DEFINE r == [k EXCEPT !.ready = result]
  <2>2. r \in Connection /\ r.busy = k.busy /\ r.stage = k.stage
    BY <1>1 DEF Connection
  <2>3. Sound(r) /\ k.stage # "none"
    BY <1>1, <1>3 DEF PeerAnswers, OpStages, Connection, Sound
  <2>4. QED
    BY <2>1, <2>2, <2>3, GoesIInv
<1>4. CASE Fails(c)
  <2>1. PICK result \in {"error", "aborted"} :
           /\ Goes(c, [k EXCEPT !.ready = result])
           /\ result = "aborted" => acceptor = "closed"
    BY <1>4 DEF Fails
  <2> DEFINE r == [k EXCEPT !.ready = result]
  <2>2. r \in Connection /\ r.busy = k.busy /\ r.stage = k.stage
    BY <1>1 DEF Connection
  <2>3. Sound(r) /\ k.stage # "none"
    BY <1>1, <1>4, <2>1 DEF Fails, OpStages, Connection, Sound
  <2>4. QED
    BY <2>1, <2>2, <2>3, GoesIInv
<1>5. CASE TimerExpires(c)
  <2> DEFINE r == [k EXCEPT !.timer = FALSE, !.expired = TRUE]
  <2>1. r \in Connection /\ r.busy = k.busy /\ r.stage = k.stage
    BY <1>1 DEF Connection
  <2>2. k.stage # "none"
    BY <1>1, <1>5 DEF TimerExpires, Sound, NoConnection
  <2>3. Sound(r)
    BY <1>1, <2>2 DEF Connection, Sound
  <2>4. QED
    BY <1>5, <2>1, <2>2, <2>3, GoesIInv DEF TimerExpires
<1>6. CASE TimerHandler(c)
  <2> DEFINE r == [close(k) EXCEPT !.expired = FALSE]
  <2>1. r \in Connection /\ r.busy = k.busy /\ r.stage = k.stage
    BY <1>1 DEF Connection, close
  <2>2. k.stage # "none"
    BY <1>1, <1>6 DEF TimerHandler, Sound, NoConnection
  <2>3. Sound(r)
    BY <1>1, <2>2 DEF Connection, Sound, close
  <2>4. QED
    BY <1>6, <2>1, <2>2, <2>3, GoesIInv DEF TimerHandler
<1>7. CASE Erase(c)
  <2> DEFINE r == [k EXCEPT !.stage = "erased", !.listed = FALSE]
  <2>1. r \in Connection /\ r.busy = k.busy
    BY <1>1 DEF Connection
  <2>2. Sound(r) /\ k.stage \notin {"none", "accepting"} /\ r.stage # "accepting"
    BY <1>1, <1>7 DEF Erase, Connection, Sound, OpStages
  <2>3. QED
    BY <1>7, <2>1, <2>2, GoesIInv DEF Erase
<1>8. CASE Delete(c)
  <2>1. k.listed = FALSE
    BY <1>1, <1>8 DEF Delete, Sound, Connection
  <2>2. Goes(c, NoConnection)
    <3>1. \A r \in Connection : [r EXCEPT !.listed = r.listed] = r
      BY DEF Connection
    <3>2. NoConnection \in Connection /\ NoConnection.listed = FALSE
      BY DEF NoConnection, Connection
    <3>3. QED
      BY <1>8, <2>1, <3>1, <3>2 DEF Delete
  <2>3. NoConnection \in Connection /\ Sound(NoConnection) /\ ~NoConnection.busy
        /\ NoConnection.stage = "none"
    BY DEF NoConnection, Connection, Sound
  <2>4. QED
    BY <1>8, <2>2, <2>3, GoesIInv DEF Delete
<1>9. CASE Enter(c)
  <2> DEFINE r == IF k.stage = "accepting" THEN [k EXCEPT !.open = k.ready = "ok"]
                                           ELSE cancel_timeout(k)
  <2>1. /\ r \in Connection /\ r.busy = k.busy /\ r.stage = k.stage
        /\ r.ready = k.ready /\ r.listed = k.listed
    <3>1. CASE k.stage = "accepting"
      <4>1. (k.ready = "ok") \in BOOLEAN
        OBVIOUS
      <4>2. QED
        BY <1>1, <3>1, <4>1 DEF Connection
    <3>2. CASE k.stage # "accepting"
      BY <1>1, <3>2 DEF Connection, cancel_timeout
    <3>3. QED
      BY <3>1, <3>2
  <2>2. k.stage \in OpStages /\ k.stage # "none"
    BY <1>9 DEF Enter, OpStages
  <2>3. CASE admits
    <3> DEFINE q == [r EXCEPT !.busy = TRUE]
    <3>1. Goes(c, q)
      BY <1>9, <2>3 DEF Enter
    <3> HIDE DEF r
    <3>2. q \in Connection /\ q.stage = k.stage
      BY <2>1 DEF Connection
    <3>3. Sound(q)
      BY <1>1, <2>1, <2>2 DEF Sound, Connection
    <3>4. QED
      BY <2>2, <2>3, <3>1, <3>2, <3>3, GoesIInv
  <2>4. CASE ~admits
    <3>1. Goes(c, Drop(r))
      BY <1>9, <2>4 DEF Enter
    <3> HIDE DEF r
    <3>2. Drop(r) \in Connection /\ ~Drop(r).busy /\ Sound(Drop(r))
      BY <2>1 DEF Drop, Connection, Sound
    <3>3. QED
      BY <2>2, <2>4, <3>1, <3>2, GoesIInv
  <2>5. QED
    BY <2>3, <2>4
<1>10. CASE ReleaseResponse(c)
  <2>1. k.stage \notin {"none", "erased", "accepting"}
    BY <1>10 DEF ReleaseResponse
  <2>2. QED
    BY <1>2, <1>10, <2>1, HandlerIInv DEF ReleaseResponse, send, PeerStages, OpStages<1>11. QED
  BY <1>3, <1>4, <1>5, <1>6, <1>7, <1>8, <1>9, <1>10, BodyIInv

\* Every step of the server preserves the invariant.
LEMMA NextIInv == IInv /\ [Next]_vars => IInv'
<1> SUFFICES ASSUME IInv, [Next]_vars PROVE IInv'
  OBVIOUS
<1>1. CASE UNCHANGED vars
  BY <1>1 DEF vars, IInv, TypeOK, Sound, NothingBeforeStart, RunnerStopped, OneAccepts
<1>2. CASE Next
  BY <1>2, ServerIInv, ConnectionIInv DEF Next
<1>3. QED
  BY <1>1, <1>2

\* The invariant holds in every reachable state of the server.
THEOREM Invariance == Spec => []IInv
BY InitIInv, NextIInv, PTL DEF Spec

\* Every connection is in one of the described states.
THEOREM TypeCorrect == Spec => []TypeOK
<1>1. IInv => TypeOK
  BY DEF IInv
<1>2. QED
  BY <1>1, Invariance, PTL

\* After handler_runner->stop() no handler and no callback of the application
\* is executing, nor while the server is not running.
THEOREM StopBarrier == Spec => []StopIsBarrier
<1>1. IInv => StopIsBarrier
  BY DEF IInv, StopIsBarrier, NothingBeforeStart, RunnerStopped, NoConnection
<1>2. QED
  BY <1>1, Invariance, PTL

\* The set that stop() closes holds no deleted connection, and while clients
\* are accepted exactly one object waits for the next one.
THEOREM LiveConnections == Spec => []ConnectionsAreLive
<1>1. ASSUME IInv PROVE ConnectionsAreLive
  <2>1. \A c \in Conns : conn[c].listed => conn[c].stage \notin {"none", "erased"}
    BY <1>1 DEF IInv, Sound
  <2>2. ASSUME acceptor = "open", admits
        PROVE  Cardinality({c \in Conns : conn[c].stage = "accepting"}) = 1
    <3>1. PICK a \in Conns : \A c \in Conns : conn[c].stage = "accepting" <=> c = a
      BY <1>1, <2>2 DEF IInv, OneAccepts
    <3>2. {c \in Conns : conn[c].stage = "accepting"} = {a}
      BY <3>1
    <3>3. QED
      BY <3>2, FS_Singleton
  <2>3. QED
    BY <2>1, <2>2 DEF ConnectionsAreLive
<1>2. QED
  BY <1>1, Invariance, PTL

(***************************************************************************)
(* scope_runner, for any finite set of threads.  WebServer counts the      *)
(* scopes of its handlers and lets stop() wait for them in one step each,  *)
(* which is sound because the runner, atomic operation by atomic operation,*)
(* counts them and never lets one in after stop().                         *)
(***************************************************************************)

\* The lock holders are finitely many, at most one per thread.
LEMMA HoldersFinite ==
    /\ IsFiniteSet(Holders)
    /\ Cardinality(Holders) \in Nat
    /\ Cardinality(Holders) <= Cardinality(Threads)
<1>1. Holders \subseteq Threads
  BY DEF Holders
<1>2. IsFiniteSet(Holders) /\ Cardinality(Holders) <= Cardinality(Threads)
  BY <1>1, ThreadsFinite, FS_Subset
<1>3. QED
  BY <1>2, FS_CardinalityType

\* How the set of holders moves when one thread changes what it does: it
\* gains that thread, loses it, or stays as it is.
LEMMA HoldersAfterGoto ==
    ASSUME pc \in [Threads -> PCs], NEW t \in Threads, NEW l \in PCs, Goto(t, l)
    PROVE  /\ pc' \in [Threads -> PCs]
           /\ l = "locked" => Holders' = Holders \cup {t}
           /\ l # "locked" => Holders' = Holders \ {t}
BY DEF Goto, Holders

\* The initial state of a scope_runner satisfies the invariant.
LEMMA RunnerInitInv == RunnerInit => RunnerInv
<1> SUFFICES ASSUME RunnerInit PROVE RunnerInv
  OBVIOUS
<1>1. Holders = {}
  BY DEF RunnerInit, Holders
<1>2. Cardinality({}) = 0
  BY FS_EmptySet
<1>3. CountIsHolders
  BY <1>1, <1>2 DEF RunnerInit, CountIsHolders
<1>4. QED
  BY <1>3 DEF RunnerInit, RunnerInv, PCs, StopMeansNegative

\* Every atomic operation of continue_lock, ~shared_lock and stop preserves
\* the invariant.
LEMMA RunnerNextInv == RunnerInv /\ [RunnerNext]_runnerVars => RunnerInv'
<1> SUFFICES ASSUME RunnerInv, [RunnerNext]_runnerVars PROVE RunnerInv'
  OBVIOUS
<1> USE DEF PCs
<1>1. CASE UNCHANGED runnerVars
  <2>1. Holders' = Holders
    BY <1>1 DEF runnerVars, Holders
  <2>2. QED
    BY <1>1, <2>1 DEF runnerVars, RunnerInv, CountIsHolders, StopMeansNegative
<1>2. CASE RunnerNext
  <2>1. PICK t \in Threads : Step(t)
    BY <1>2 DEF RunnerNext
  <2>2. CASE LoadCount(t)
    <3>1. Holders' = Holders
      BY <2>2, HoldersAfterGoto DEF LoadCount, RunnerInv, Holders
    <3>2. QED
      BY <2>2, <3>1 DEF LoadCount, Goto, RunnerInv, CountIsHolders, StopMeansNegative
  <2>3. CASE TryLock(t)
    <3>1. t \notin Holders /\ Holders' = Holders \cup {t}
      BY <2>3, HoldersAfterGoto DEF TryLock, RunnerInv, Holders
    <3>2. count = Cardinality(Holders)
      BY <2>3 DEF TryLock, RunnerInv, CountIsHolders
    <3>3. Cardinality(Holders') = Cardinality(Holders) + 1
      BY <3>1, HoldersFinite, FS_AddElement
    <3>4. CountIsHolders' /\ count' \in Int
      BY <2>3, <3>2, <3>3, HoldersFinite DEF TryLock, CountIsHolders
    <3>5. StopMeansNegative'
      BY <2>3 DEF TryLock, Goto, RunnerInv, StopMeansNegative
    <3>6. QED
      BY <2>3, <3>4, <3>5 DEF TryLock, Goto, RunnerInv
  <2>4. CASE TryFail(t)
    <3>1. Holders' = Holders
      BY <2>4 DEF TryFail, Holders
    <3>2. QED
      BY <2>4, <3>1 DEF TryFail, RunnerInv, CountIsHolders, StopMeansNegative
  <2>5. CASE RefuseScope(t)
    <3>1. Holders' = Holders
      BY <2>5, HoldersAfterGoto DEF RefuseScope, RunnerInv, Holders
    <3>2. QED
      BY <2>5, <3>1 DEF RefuseScope, Goto, RunnerInv, CountIsHolders, StopMeansNegative
  <2>6. CASE Release(t)
    <3>1. t \in Holders /\ Holders' = Holders \ {t}
      BY <2>6, HoldersAfterGoto DEF Release, RunnerInv, Holders
    <3>2. count = Cardinality(Holders) /\ count >= 0
      BY <3>1 DEF RunnerInv, CountIsHolders
    <3>3. Cardinality(Holders') = Cardinality(Holders) - 1
      BY <3>1, HoldersFinite, FS_RemoveElement
    <3>4. IsFiniteSet(Holders') /\ Cardinality(Holders') \in Nat
      BY <3>1, HoldersFinite, FS_RemoveElement, FS_CardinalityType
    <3>5. CountIsHolders' /\ count' \in Int
      BY <2>6, <3>2, <3>3, <3>4, HoldersFinite DEF Release, CountIsHolders
    <3>6. StopMeansNegative'
      BY <2>6, <3>2 DEF Release, Goto, RunnerInv, StopMeansNegative
    <3>7. QED
      BY <2>6, <3>5, <3>6 DEF Release, Goto, RunnerInv
  <2>7. CASE EnterStop(t)
    <3>1. Holders' = Holders
      BY <2>7, HoldersAfterGoto DEF EnterStop, RunnerInv, Holders
    <3>2. QED
      BY <2>7, <3>1 DEF EnterStop, Goto, RunnerInv, CountIsHolders, StopMeansNegative
  <2>8. CASE StopCAS(t)
    <3>1. Holders' = Holders
      BY <2>8, HoldersAfterGoto DEF StopCAS, RunnerInv, Holders
    <3>2. Cardinality(Holders) = 0
      BY <2>8 DEF StopCAS, RunnerInv, CountIsHolders
    <3>3. Holders = {}
      BY <3>2, HoldersFinite, FS_EmptySet
    <3>4. QED
      BY <2>8, <3>1, <3>3 DEF StopCAS, Goto, RunnerInv, CountIsHolders, StopMeansNegative
  <2>9. CASE StopAlready(t)
    <3>1. Holders' = Holders
      BY <2>9, HoldersAfterGoto DEF StopAlready, RunnerInv, Holders
    <3>2. QED
      BY <2>9, <3>1 DEF StopAlready, Goto, RunnerInv, CountIsHolders, StopMeansNegative
  <2>10. CASE LeaveStop(t)
    <3>1. Holders' = Holders
      BY <2>10, HoldersAfterGoto DEF LeaveStop, RunnerInv, Holders
    <3>2. QED
      BY <2>10, <3>1 DEF LeaveStop, Goto, RunnerInv, CountIsHolders, StopMeansNegative
  <2>11. QED
    BY <2>1, <2>2, <2>3, <2>4, <2>5, <2>6, <2>7, <2>8, <2>9, <2>10 DEF Step
<1>3. QED
  BY <1>1, <1>2

\* The invariant holds in every state a scope_runner can reach.
THEOREM RunnerInvariance == RunnerSpec => []RunnerInv
BY RunnerInitInv, RunnerNextInv, PTL DEF RunnerSpec

\* The counter stays between -1 (stopped) and the number of threads: a
\* destructor that runs after stop() never takes it below -1.
THEOREM RunnerTypeCorrect == RunnerSpec => []RunnerTypeOK
<1>1. RunnerInv => RunnerTypeOK
  BY HoldersFinite, ThreadsFinite, FS_CardinalityType
     DEF RunnerInv, RunnerTypeOK, CountIsHolders
<1>2. QED
  BY <1>1, RunnerInvariance, PTL

\* No interleaving of the CAS loops of continue_lock and stop loses or invents
\* a shared lock.
THEOREM LockCounting == RunnerSpec => []CountIsHolders
<1>1. RunnerInv => CountIsHolders
  BY DEF RunnerInv
<1>2. QED
  BY <1>1, RunnerInvariance, PTL

\* When any call of stop() has returned, no handler is inside its scope.
THEOREM StopWaits == RunnerSpec => []StopExcludesScopes
<1>1. RunnerInv => StopExcludesScopes
  BY DEF RunnerInv, StopExcludesScopes, StopMeansNegative, CountIsHolders
<1>2. QED
  BY <1>1, RunnerInvariance, PTL

\* After stop() no handler ever enters a scope again and the counter stays -1.
THEOREM StopIsFinal == RunnerSpec => StoppedForGood
<1>1. ASSUME RunnerInv, [RunnerNext]_runnerVars
      PROVE  [count < 0 => Holders' = {} /\ count' = count]_runnerVars
  <2>1. SUFFICES ASSUME count < 0, RunnerNext PROVE Holders' = {} /\ count' = count
    BY <1>1
  <2>2. Holders = {} /\ count = -1
    BY <1>1, <2>1 DEF RunnerInv, CountIsHolders
  <2>3. PICK t \in Threads : Step(t)
    BY <2>1 DEF RunnerNext
  <2>4. ~TryLock(t)
    BY <2>2 DEF TryLock, RunnerInv
  <2>5. ~Release(t)
    BY <2>2 DEF Release, Holders
  <2>6. ~StopCAS(t)
    BY <2>2 DEF StopCAS
  <2>7. count' = count
    BY <2>3, <2>4, <2>5, <2>6
       DEF Step, LoadCount, TryFail, RefuseScope, EnterStop, StopAlready, LeaveStop
  <2>8. RunnerInv'
    BY <1>1, RunnerNextInv
  <2>9. QED
    BY <2>2, <2>7, <2>8 DEF RunnerInv, CountIsHolders
<1>2. QED
  BY <1>1, RunnerInvariance, PTL DEF RunnerSpec, StoppedForGood
=============================================================================
