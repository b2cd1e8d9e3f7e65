----------------------------- MODULE WebClient -----------------------------
(***************************************************************************)
(* web_client with http_client_base_impl: requests of the application are  *)
(* sessions on pooled connections.  get_connection() takes an idle         *)
(* connection or makes one, the session's operations follow one another in *)
(* the handlers of an event_pool, and session->callback gives the          *)
(* connection back and answers the request.  A failed first read on a      *)
(* connection is tried once more on a new one.                             *)
(*                                                                         *)
(* connections_mutex guards the pool; stop() keeps it while it waits for   *)
(* the handlers' scope locks.                                              *)
(***************************************************************************)
EXTENDS Naturals, FiniteSets

CONSTANTS
    Requests,           \* the application's calls of request(), each made once
    Conns,              \* slots for connection objects in use or in the set
    Workers,            \* _config.worker_threads()
    Transport,          \* "plain", "tls", or "proxy": TLS through a proxy server
    TimeoutMs,          \* what set_timeout() was given, 0: never called
    TimeoutConnectMs    \* what set_timeout_connect() was given, 0: never called

ASSUME ClientAssumption ==
    /\ IsFiniteSet(Requests) /\ IsFiniteSet(Conns)
    /\ Cardinality(Conns) >= Cardinality(Requests)
    /\ Workers \in Nat \ {0} /\ Transport \in {"plain", "tls", "proxy"}
    /\ TimeoutMs \in Nat /\ TimeoutConnectMs \in Nat

\* The configuration keeps milliseconds; the timers get whole seconds.
timeout == TimeoutMs \div 1000
timeout_connect == TimeoutConnectMs \div 1000

VARIABLES
    running,    \* _workers->is_running()
    stopping,   \* what stop() does next: "no", "runner", "workers"
    admits,     \* handler_runner gives out scope locks
    session,    \* the requests' sessions, see Session
    conn        \* the connections, see Connection

vars == <<running, stopping, admits, session, conn>>

\* Stages with an operation pending on the socket, which a timeout cancels.
SocketStages == {"connecting", "proxyWrite", "proxyRead", "handshake", "writing",
                 "header", "content", "chunkLine", "chunkBody", "untilClose"}
\* Those that read, into a buffer of limited size.
ReadStages == {"proxyRead", "header", "content", "chunkLine", "chunkBody", "untilClose"}
OpStages == SocketStages \cup {"resolving"}
\* Stages in which the session uses its connection.
UsingStages == OpStages \cup {"reconnect", "finish"}
\* Stages in which a handler has a scope lock between two of its steps.
BusyStages == {"reconnect", "finish", "callback"}

None == "none"
Session == [
    stage  : OpStages \cup
             {"idle",       \* not requested yet
              "calling",    \* in request(), before get_connection()
              "reconnect",  \* about to take the mutex for the second attempt
              "finish",     \* in session->callback, about to take the mutex
              "callback",   \* in the application's callback
              "answered",
              "dropped"},   \* destroyed without an answer
    cancel : {"no", "lost", "done"},    \* of the pending operation, see Cancel
    result : {"none", "ok", "error"},   \* what will be answered
    writes : 0 .. 3,        \* how often the request has been sent; 3: more
    conn   : Conns \cup {None}]

Connection == [
    in_use            : BOOLEAN,
    attempt_reconnect : BOOLEAN,
    listed            : BOOLEAN,    \* member of 'connections'
    open              : BOOLEAN,    \* the socket
    timer             : BOOLEAN,    \* armed
    expired           : BOOLEAN]    \* an expired timer's handler is queued

NoConnection == [in_use |-> FALSE, attempt_reconnect |-> TRUE, listed |-> FALSE,
                 open |-> FALSE, timer |-> FALSE, expired |-> FALSE]
NewSession == [stage |-> "idle", cancel |-> "no", result |-> "none",
               writes |-> 0, conn |-> None]

\* Types; sessions and connections are as described above.
TypeOK == /\ running \in BOOLEAN /\ admits \in BOOLEAN
          /\ stopping \in {"no", "runner", "workers"}
          /\ session \in [Requests -> Session]
          /\ conn \in [Conns -> Connection]

Init == /\ running = FALSE /\ stopping = "no" /\ admits = TRUE
        /\ session = [r \in Requests |-> NewSession]
        /\ conn = [c \in Conns |-> NoConnection]

(***************************************************************************)
(* Helpers                                                                 *)
(***************************************************************************)

\* stop() has connections_mutex from its first step to its last.
MutexFree == stopping = "no"
Busy == {r \in Requests : session[r].stage \in BusyStages}
FreeThread == running /\ Cardinality(Busy) < Workers
Uses(r, c) == session[r].stage \in UsingStages /\ session[r].conn = c
\* The slot of a new object.  One that is neither listed nor used may be kept
\* alive by a queued timer handler, which has nothing left to cancel.
Fresh == CHOOSE c \in Conns : ~conn[c].listed /\ \A r \in Requests : ~Uses(r, c)
clientVars == <<running, stopping, admits>>

\* Seconds for the next timer of a connection: 0 stands for the general
\* timeout, and if that is 0 too there is no timer.
set_timeout(k, seconds) ==
    [k EXCEPT !.timer = (IF seconds = 0 THEN timeout ELSE seconds) > 0]
cancel_timeout(k) == [k EXCEPT !.timer = FALSE]

\* The session's next operation; the handler returns.
Await(s, stage) ==
    [s EXCEPT !.stage = stage, !.cancel = "no",
              !.writes = IF stage = "writing" /\ @ < 3 THEN @ + 1 ELSE @]
\* session->callback(connection, ec) begins.
Finish(s, result) == [s EXCEPT !.stage = "finish", !.cancel = "no", !.result = result]

Steps(r, s, k) == /\ session' = [session EXCEPT ![r] = s]
                  /\ conn' = [conn EXCEPT ![s.conn] = k]
                  /\ UNCHANGED clientVars

\* A handler's connection: every handler begins with cancel_timeout().
Own(r) == cancel_timeout(conn[session[r].conn])
\* What a handler ends with: the next operation and its timeout, or the
\* session's callback.
Continue(r, stage, seconds) == Steps(r, Await(session[r], stage), set_timeout(Own(r), seconds))
Ends(r, result) == Steps(r, Finish(session[r], result), Own(r))

\* connect(): a connection with an open socket is written to at once.
\* Only the plain variant sets a timeout while it resolves.
ConnectStage(k) == IF k.open THEN "writing" ELSE "resolving"
ConnectTimer(k) ==
    CASE k.open -> set_timeout(k, 0)
      [] ~k.open /\ Transport = "plain" -> set_timeout(k, timeout_connect)
      [] OTHER -> k

\* r's operation has completed and its handler runs, with a scope lock: it
\* touches only its own session and connection until it needs the mutex, one
\* step up to there.  Only a cancelled operation is aborted, but it may also
\* have completed before.
Handles(r, stage, result) ==
    /\ session[r].stage = stage
    /\ FreeThread /\ admits
    /\ result = "aborted" => session[r].cancel = "done"
Ok(r, stage) == Handles(r, stage, "ok")

\* cancel() of the sockets that the sessions 'of' wait for.  It ends what is
\* pending on a socket by then, and that is nothing between two steps of a
\* composed operation (async_connect, async_read_until, async_write, a handshake)
\* or before its first, when the timer has been set already: the cancel is lost.
Cancel(of) ==
    \E ended \in SUBSET of :
       session' = [r \in Requests |->
                     IF r \in of
                     THEN [session[r] EXCEPT !.cancel =
                              IF r \in ended \/ @ = "done" THEN "done" ELSE "lost"]
                     ELSE session[r]]
AtMutex(r, stage) == session[r].stage = stage /\ MutexFree

(***************************************************************************)
(* Plausible faults of the operations below, one small change each.  No    *)
(* specification uses them; each shows that some property notices it.      *)
(***************************************************************************)

\* get_connection() that does not mark what it takes.
GetConnectionUnmarked(r) ==
    /\ session[r].stage = "calling" /\ MutexFree
    /\ \E c \in Conns :
          /\ IF \E d \in Conns : conn[d].listed /\ ~conn[d].in_use
             THEN conn[c].listed /\ ~conn[c].in_use
             ELSE c = Fresh
          /\ LET k == [conn[c] EXCEPT !.listed = TRUE, !.attempt_reconnect = TRUE]
             IN Steps(r, Await([session[r] EXCEPT !.conn = c], ConnectStage(k)), ConnectTimer(k))

\* The response's header awaited without a timeout.
WrittenNoTimeout(r) ==
    /\ Ok(r, "writing")
    /\ Steps(r, Await(session[r], "header"), Own(r))

\* A handler that needs the mutex once more after the application's callback.
AnsweredAtMutex(r) ==
    /\ AtMutex(r, "callback")
    /\ session' = [session EXCEPT ![r] = [NewSession EXCEPT !.stage = "answered"]]
    /\ UNCHANGED <<clientVars, conn>>

(***************************************************************************)
(* start(), stop() and request()                                           *)
(***************************************************************************)

start ==
    /\ ~running /\ admits /\ running' = TRUE
    /\ UNCHANGED <<stopping, admits, session, conn>>

\* web_client::stop and the implementation's return at once if nothing runs.
CallStop == running /\ stopping = "no"

\* stop() takes connections_mutex, cancels the operations of the listed
\* connections and empties the set.  The other threads' uses of the mutex are one
\* step each, so that it is free whenever stop() comes to take it.
StopConnections ==
    /\ CallStop /\ stopping' = "runner"
    /\ Cancel({r \in Requests : session[r].stage \in SocketStages
                                 /\ conn[session[r].conn].listed})
    /\ conn' = [c \in Conns |-> [conn[c] EXCEPT !.listed = FALSE]]
    /\ UNCHANGED <<running, admits>>

\* handler_runner->stop(), the mutex still taken.
StopRunner ==
    /\ stopping = "runner" /\ stopping' = "workers"
    /\ Busy = {}
    /\ admits' = FALSE
    /\ UNCHANGED <<running, session, conn>>

\* _workers->stop(): the pending operations are destroyed.
StopWorkers ==
    /\ stopping = "workers" /\ stopping' = "no"
    /\ running' = FALSE
    /\ session' = [r \in Requests |->
                     IF session[r].stage \in OpStages
                     THEN [NewSession EXCEPT !.stage = "dropped"] ELSE session[r]]
    /\ conn' = [c \in Conns |-> NoConnection]
    /\ UNCHANGED <<admits>>

\* web_client::request asserts is_running() ...
request(r) == session[r].stage = "idle" /\ running

\* ... and web_client_impl::request registers the callback.
CallRequest(r) ==
    /\ request(r)
    /\ session' = [session EXCEPT ![r].stage = "calling"]
    /\ UNCHANGED <<clientVars, conn>>

\* get_connection(), then connect().  A call that waited for the mutex until
\* stop() returned starts its session on an io_service nobody runs.
GetConnection(r) ==
    /\ session[r].stage = "calling" /\ MutexFree
    /\ \E c \in Conns :
          /\ IF \E d \in Conns : conn[d].listed /\ ~conn[d].in_use
             THEN conn[c].listed /\ ~conn[c].in_use
             ELSE c = Fresh
          /\ LET k == [(IF conn[c].listed THEN conn[c] ELSE NoConnection)
                       EXCEPT !.listed = TRUE, !.attempt_reconnect = TRUE, !.in_use = TRUE]
             IN Steps(r, Await([session[r] EXCEPT !.conn = c], ConnectStage(k)), ConnectTimer(k))

(***************************************************************************)
(* The timers                                                              *)
(***************************************************************************)

TimerExpires(c) ==
    /\ running /\ conn[c].timer
    /\ conn' = [conn EXCEPT ![c].timer = FALSE, ![c].expired = TRUE]
    /\ UNCHANGED <<clientVars, session>>

\* The handler cancels whatever is pending on the socket by now.  The timer is
\* gone: after a lost cancel the operation goes on without one.
TimerHandler(c) ==
    /\ conn[c].expired /\ FreeThread
    /\ conn' = [conn EXCEPT ![c].expired = FALSE]
    /\ Cancel({r \in Requests : Uses(r, c) /\ session[r].stage \in SocketStages})
    /\ UNCHANGED clientVars

(***************************************************************************)
(* Handlers                                                                *)
(***************************************************************************)

\* Without the scope lock a handler returns and its session is destroyed.
Refused(r) ==
    /\ session[r].stage \in OpStages /\ FreeThread /\ ~admits
    /\ session' = [session EXCEPT ![r] = [NewSession EXCEPT !.stage = "dropped"]]
    /\ conn' = [conn EXCEPT ![session[r].conn] = NoConnection]
    /\ UNCHANGED clientVars

\* A failure goes to session->callback, unless the stream's end is the
\* content's or the header's read is tried again.
OperationFailed(r) ==
    /\ session[r].stage \in OpStages
    /\ \E result \in {"full", "error", "aborted"} :
          LET stage == session[r].stage
          IN /\ Handles(r, stage, result)
             /\ result = "full" => stage \in ReadStages
             /\ result = "error" => stage # "untilClose"
             /\ result = "error" /\ stage = "header" => ~Own(r).attempt_reconnect
    /\ Ends(r, "error")

Resolved(r) ==
    /\ Ok(r, "resolving")
    /\ Steps(r, Await(session[r], "connecting"),
             [set_timeout(Own(r), timeout_connect) EXCEPT !.open = TRUE])

Connected(r) ==
    /\ Ok(r, "connecting")
    /\ CASE Transport = "plain" -> Continue(r, "writing", 0)
         [] Transport = "tls" -> Continue(r, "handshake", timeout_connect)
         [] Transport = "proxy" -> Continue(r, "proxyWrite", timeout_connect)

ProxyWritten(r) == Ok(r, "proxyWrite") /\ Continue(r, "proxyRead", timeout_connect)

\* The proxy's answer: 200, or malformed or another status.
ProxyAnswered(r) ==
    /\ Ok(r, "proxyRead")
    /\ Continue(r, "handshake", timeout_connect) \/ Ends(r, "error")

Handshaken(r) == Ok(r, "handshake") /\ Continue(r, "writing", 0)

Written(r) == Ok(r, "writing") /\ Continue(r, "header", 0)

\* What parse() can make of the status line and the header fields.
ParsedHeaders == {"malformed", "content", "chunked", "untilClose", "complete"}

HeaderRead(r) ==
    /\ Ok(r, "header")
    /\ LET k == [Own(r) EXCEPT !.attempt_reconnect = TRUE]
           goes(stage) == Steps(r, Await(session[r], stage), set_timeout(k, 0))
       IN \E header \in ParsedHeaders :
             \/ header = "malformed" /\ Steps(r, Finish(session[r], "error"), k)
             \/ header = "content" /\ goes("content")
             \/ header = "chunked" /\ goes("chunkLine")
             \/ header = "untilClose" /\ goes("untilClose")
             \/ header = "complete" /\ Steps(r, Finish(session[r], "ok"), k)

\* The content, by length or up to the end of the stream, which asio
\* reports as an error.
ContentRead(r) ==
    /\ \/ Ok(r, "content") \/ Ok(r, "untilClose") \/ Handles(r, "untilClose", "error")
    /\ Ends(r, "ok")

\* All chunks together too large, another chunk to come, or the last one.
ReadChunk(r) == Ends(r, "error") \/ Continue(r, "chunkLine", 0) \/ Ends(r, "ok")

ChunkHead(r) ==
    /\ Ok(r, "chunkLine")
    /\ Ends(r, "error") \/ Continue(r, "chunkBody", 0) \/ ReadChunk(r)

ChunkBody(r) == Ok(r, "chunkBody") /\ ReadChunk(r)

\* The header's read failed on a connection that may be stale.
HeaderFailed(r) ==
    /\ Handles(r, "header", "error") /\ Own(r).attempt_reconnect
    /\ Steps(r, [session[r] EXCEPT !.stage = "reconnect", !.cancel = "no"], Own(r))

\* Under the mutex: a listed connection is replaced by a new one (in its
\* slot), to which the session connects; otherwise the request fails.
Reconnect(r) ==
    /\ AtMutex(r, "reconnect")
    /\ LET c == session[r].conn
       IN IF conn[c].listed
          THEN LET k == ConnectTimer([NoConnection EXCEPT !.listed = TRUE, !.in_use = TRUE,
                                                          !.attempt_reconnect = FALSE])
               IN Steps(r, Await(session[r], ConnectStage(k)), k)
          ELSE Steps(r, Finish(session[r], "error"), conn[c])

\* session->callback under the mutex: the connection is free again, a failed
\* one leaves the set, and so do all idle ones but one.
GiveBack(r) ==
    /\ AtMutex(r, "finish")
    /\ LET c == session[r].conn
           idle == {d \in Conns : conn[d].listed /\ (d = c \/ ~conn[d].in_use)} \
                   (IF session[r].result = "error" THEN {c} ELSE {})
       IN \E kept \in SUBSET idle :
             /\ Cardinality(kept) = IF idle = {} THEN 0 ELSE 1
             /\ conn' = [d \in Conns |->
                           CASE d \in kept -> [conn[d] EXCEPT !.in_use = FALSE]
                             [] d # c /\ conn[d].in_use -> conn[d]
                             [] OTHER -> NoConnection]
    /\ session' = [session EXCEPT ![r] = [NewSession EXCEPT !.stage = "callback"]]
    /\ UNCHANGED clientVars

\* The application's callback, found by the request's id, returns.
Answered(r) ==
    /\ session[r].stage = "callback"
    /\ session' = [session EXCEPT ![r] = [NewSession EXCEPT !.stage = "answered"]]
    /\ UNCHANGED <<clientVars, conn>>

Body(r) == \/ OperationFailed(r) \/ Resolved(r) \/ Connected(r) \/ ProxyWritten(r)
           \/ ProxyAnswered(r) \/ Handshaken(r) \/ Written(r) \/ HeaderRead(r)
           \/ ContentRead(r) \/ ChunkHead(r) \/ ChunkBody(r) \/ HeaderFailed(r)
           \/ Reconnect(r) \/ GiveBack(r) \/ Answered(r)
Stop == StopRunner \/ StopWorkers

Next == \/ start \/ StopConnections \/ Stop
        \/ \E r \in Requests : \/ CallRequest(r) \/ GetConnection(r)
                               \/ Refused(r) \/ Body(r)
        \/ \E c \in Conns : TimerExpires(c) \/ TimerHandler(c)

Spec == Init /\ [][Next]_vars

\* Threads run, clocks advance, the resolver answers in the end, a cancelled
\* operation completes and the application's callbacks return.  Nothing is
\* assumed of the peer.
Completes(r) == /\ \/ session[r].stage \in BusyStages \cup {"resolving"}
                   \/ session[r].cancel = "done"
                /\ Body(r)
FairSpec ==
    /\ Spec /\ WF_vars(Stop)
    /\ \A r \in Requests : WF_vars(GetConnection(r) \/ Completes(r))
    /\ \A c \in Conns : WF_vars(TimerExpires(c) \/ TimerHandler(c))

(***************************************************************************)
(* Properties                                                              *)
(***************************************************************************)

\* A connection serves one request at a time, whatever the order in which it
\* is given back, taken again, replaced and dropped; and of those not in use at
\* most one is kept.
ConnectionExclusive ==
    /\ \A c \in Conns : Cardinality({r \in Requests : Uses(r, c)}) <= 1
    /\ Cardinality({c \in Conns : conn[c].listed /\ ~conn[c].in_use}) <= 1

\* stop() returns, or a handler is waiting for the mutex that stop() holds.  (A
\* callback of the application that calls request() would be one more such handler;
\* here requests come from other threads.)
StopReturnsUnlessBlocked ==
    stopping # "no" ~> \/ ~running
                       \/ ~MutexFree /\ \E r \in Requests : session[r].stage \in {"finish", "reconnect"}

Outstanding(r) == session[r].stage \in UsingStages \ {"chunkLine", "chunkBody"}

\* A client with a timeout of a second or more (what is less counts as none)
\* answers every request, with a response or an error, however the peer behaves,
\* unless the client is stopped: no request is outstanding for ever but one whose
\* timer's cancel was lost, which is then left to its peer.  (A peer may also send
\* chunks without end.)  Nor is one sent more than twice: after a failed read once
\* more, never again.
RequestAnswered ==
    /\ [](\A r \in Requests : session[r].writes <= 2)
    /\ timeout > 0 => \A r \in Requests :
          []<>(~Outstanding(r) \/ session[r].cancel = "lost" \/ stopping # "no" \/ ~running)
=============================================================================
