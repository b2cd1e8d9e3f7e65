----------------------------- MODULE WebServer -----------------------------
(***************************************************************************)
(* web_server with server_base_impl: connections served by the threads of  *)
(* an event_pool.  A connection is one shared object with one pending      *)
(* asynchronous operation at a time, a timer that closes the socket, and   *)
(* an entry (a raw pointer) in the set that stop() closes.  A handler runs *)
(* under handler_runner's scope lock; stop() waits for those locks.        *)
(***************************************************************************)
EXTENDS Naturals, FiniteSets

CONSTANTS
    Conns,          \* bound: the connection objects alive at a time; accept()
                    \* waits for one of them
    Workers,        \* _config.worker_threads()
    TimeoutRequest, \* _config.timeout_request(), seconds; 0: none
    TimeoutContent  \* _config.timeout_content(), seconds; 0: none

ASSUME ServerAssumption ==
    /\ IsFiniteSet(Conns) /\ Conns # {}
    /\ Workers \in Nat \ {0} /\ TimeoutRequest \in Nat /\ TimeoutContent \in Nat

VARIABLES
    secure,     \* server_impl<HTTPS>: a handshake precedes the requests
    running,    \* _workers->is_running()
    lambda,     \* the start lambda: "none", "posted" or "done"
    acceptor,   \* "null", "open" or "closed"
    stopping,   \* what stop() does next: "no", "acceptor", "connections",
                \* "runner" or "workers"
    admits,     \* handler_runner gives out scope locks
    conn        \* the connections, see Connection

vars == <<secure, running, lambda, acceptor, stopping, admits, conn>>

\* Stages with an asynchronous operation pending, of which the second set
\* waits for the peer to send or to receive something.
OpStages == {"accepting", "handshake", "header", "content", "chunkLine",
             "chunkBody", "sending", "refusing"}
PeerStages == OpStages \ {"accepting"}

Connection == [
    stage   : OpStages \cup {"none",        \* no such object
                             "handler",     \* in the application's callback
                             "held",        \* the application keeps the response
                             "ended",       \* the last shared_ptr is gone
                             "erased"},     \* ... and the set's entry too
    ready   : {"no", "ok", "full", "error", "aborted"}, \* the operation's result
    busy    : BOOLEAN,  \* its handler has the scope lock
    open    : BOOLEAN,  \* the socket
    timer   : BOOLEAN,  \* armed
    expired : BOOLEAN,  \* an expired timer's handler is queued
    listed  : BOOLEAN]  \* member of 'connections'

NoConnection == [stage |-> "none", ready |-> "no", busy |-> FALSE, open |-> FALSE,
                 timer |-> FALSE, expired |-> FALSE, listed |-> FALSE]

\* Types; a connection's state is one of those above.
TypeOK == /\ secure \in BOOLEAN /\ running \in BOOLEAN /\ admits \in BOOLEAN
          /\ lambda \in {"none", "posted", "done"}
          /\ acceptor \in {"null", "open", "closed"}
          /\ stopping \in {"no", "acceptor", "connections", "runner", "workers"}
          /\ conn \in [Conns -> Connection]

\* A server that has not been started.
Init == /\ secure \in BOOLEAN
        /\ running = FALSE /\ lambda = "none" /\ acceptor = "null"
        /\ stopping = "no" /\ admits = TRUE
        /\ conn = [c \in Conns |-> NoConnection]

(***************************************************************************)
(* __http_connection and __http_session                                    *)
(***************************************************************************)

\* The timer object is replaced; the handler of an old one that has already
\* expired stays in the queue and will close the socket.
set_timeout(r, seconds) == [r EXCEPT !.timer = seconds > 0]
cancel_timeout(r) == [r EXCEPT !.timer = FALSE]
close(r) == [r EXCEPT !.open = FALSE]

\* The next asynchronous operation of a session; the handler returns.
Await(r, stage) == [r EXCEPT !.stage = stage, !.ready = "no", !.busy = FALSE]
\* The handler returns and the last reference to the session goes with it:
\* nobody can use the socket any more.
Drop(r) == [r EXCEPT !.stage = "ended", !.ready = "no", !.busy = FALSE, !.open = FALSE]

\* create_connection: the new object is listed at once.
create_connection == [NoConnection EXCEPT !.stage = "accepting", !.listed = TRUE]

read(r) == Await(set_timeout(r, TimeoutRequest), "header")
send(r, stage) == Await(set_timeout(r, TimeoutContent), stage)
\* 413, sent without a callback; then on_error(message_size).
Refuse(r) == send(r, "refusing")

\* Threads of the pool that execute something.
Executing == {c \in Conns : \/ conn[c].busy \/ conn[c].stage = "erased"
                            \/ conn[c].stage = "ended" /\ ~conn[c].timer /\ ~conn[c].expired}
FreeThread == running /\ Cardinality(Executing) < Workers
Goes(c, r) == /\ conn' = [conn EXCEPT ![c] = r]
              /\ UNCHANGED <<secure, running, lambda, acceptor, stopping, admits>>

(***************************************************************************)
(* Plausible faults of the operations below, one small change each.  No    *)
(* specification uses them; each shows that some property notices it.      *)
(***************************************************************************)

\* The deleter that deletes the connection and erases its entry afterwards.
EraseDeletes(c) ==
    /\ conn[c].stage = "ended" /\ ~conn[c].timer /\ ~conn[c].expired
    /\ Goes(c, [conn[c] EXCEPT !.stage = "none"])

\* stop() that does not wait for the scope locks.
StopRunnerAtOnce ==
    /\ stopping = "runner" /\ stopping' = "workers"
    /\ admits' = FALSE
    /\ UNCHANGED <<secure, running, lambda, acceptor, conn>>

\* The content of a chunk read without a timeout.
ChunkHeadNoTimeout(c) ==
    /\ conn[c].busy /\ conn[c].stage = "chunkLine" /\ conn[c].ready = "ok"
    /\ \/ Goes(c, Await(conn[c], "chunkBody"))
       \/ Goes(c, Drop(conn[c]))

(***************************************************************************)
(* start() and stop()                                                      *)
(***************************************************************************)

\* web_server::start_impl makes a new implementation and starts its pool;
\* the acceptor is opened by a callback in the pool.
start ==
    /\ ~running
    /\ running' = TRUE /\ lambda' = "posted"
    /\ acceptor' = "null" /\ admits' = TRUE
    /\ UNCHANGED <<secure, stopping, conn>>

\* The callback opens, binds and listens and calls accept() and the start
\* observers; on an exception the fail observers.  It has no scope lock.
StartLambda ==
    /\ running /\ lambda = "posted" /\ lambda' = "done"
    /\ \/ /\ acceptor' = "open"
          /\ \E c \in Conns : /\ conn[c].stage = "none"
                              /\ conn' = [conn EXCEPT ![c] = create_connection]
       \/ /\ acceptor' = "closed"
          /\ UNCHANGED conn
    /\ UNCHANGED <<secure, running, stopping, admits>>

\* stop(): only while is_running(), and not from a thread of the pool.
CallStop ==
    /\ running /\ stopping = "no"
    /\ stopping' = "acceptor"
    /\ UNCHANGED <<secure, running, lambda, acceptor, admits, conn>>

StopAcceptor ==
    /\ stopping = "acceptor" /\ stopping' = "connections"
    /\ acceptor' = IF acceptor = "open" THEN "closed" ELSE acceptor
    /\ UNCHANGED <<secure, running, lambda, admits, conn>>

\* Under connections_mutex every listed connection is closed, the set cleared.
StopConnections ==
    /\ stopping = "connections" /\ stopping' = "runner"
    /\ conn' = [c \in Conns |-> IF conn[c].listed
                                THEN [close(conn[c]) EXCEPT !.listed = FALSE]
                                ELSE conn[c]]
    /\ UNCHANGED <<secure, running, lambda, acceptor, admits>>

\* handler_runner->stop() returns when no handler has a scope lock.
StopRunner ==
    /\ stopping = "runner" /\ stopping' = "workers"
    /\ \A c \in Conns : ~conn[c].busy
    /\ admits' = FALSE
    /\ UNCHANGED <<secure, running, lambda, acceptor, conn>>

\* _workers->stop() joins the threads and destroys the io_service with all
\* pending operations.  A response the application still keeps leaves the
\* model here: releasing it would use the io_service that is gone.
StopWorkers ==
    /\ stopping = "workers" /\ stopping' = "no"
    /\ Executing = {}
    /\ running' = FALSE /\ lambda' = "none" /\ acceptor' = "closed"
    /\ conn' = [c \in Conns |-> NoConnection]
    /\ UNCHANGED <<secure, admits>>

(***************************************************************************)
(* The peer, the timer and the destruction of a connection                 *)
(***************************************************************************)

\* An operation completes: a peer connects, its data arrive or fill the
\* buffer (asio's not_found included), or the network fails.
PeerAnswers(c) ==
    /\ running /\ conn[c].stage \in OpStages /\ conn[c].ready = "no"
    /\ IF conn[c].stage = "accepting" THEN acceptor = "open" ELSE conn[c].open
    /\ \E result \in {"ok", "error"} \cup
                     (IF conn[c].stage \in {"accepting", "handshake", "sending", "refusing"}
                      THEN {} ELSE {"full"}) :
          Goes(c, [conn[c] EXCEPT !.ready = result])

\* Closing the acceptor or the socket aborts the operation, one started
\* afterwards fails with bad_descriptor; only accept() tells the two apart.
Fails(c) ==
    /\ running /\ conn[c].stage \in OpStages /\ conn[c].ready = "no"
    /\ IF conn[c].stage = "accepting" THEN acceptor = "closed" ELSE ~conn[c].open
    /\ \E result \in {"error"} \cup (IF conn[c].stage = "accepting" THEN {"aborted"} ELSE {}) :
          Goes(c, [conn[c] EXCEPT !.ready = result])

TimerExpires(c) ==
    /\ running /\ conn[c].timer
    /\ Goes(c, [conn[c] EXCEPT !.timer = FALSE, !.expired = TRUE])

\* The timer's handler needs no scope lock; it holds the connection.
TimerHandler(c) ==
    /\ FreeThread /\ conn[c].expired
    /\ Goes(c, [close(conn[c]) EXCEPT !.expired = FALSE])

\* The deleter: the entry goes first, under connections_mutex.
Erase(c) ==
    /\ conn[c].stage = "ended" /\ ~conn[c].timer /\ ~conn[c].expired
    /\ Goes(c, [conn[c] EXCEPT !.stage = "erased", !.listed = FALSE])

Delete(c) ==
    /\ conn[c].stage = "erased"
    /\ Goes(c, [NoConnection EXCEPT !.listed = conn[c].listed])

(***************************************************************************)
(* Handlers.  Enter is their common head; the others are their bodies.     *)
(***************************************************************************)

\* cancel_timeout and continue_lock; without the lock the handler returns.
\* The socket of an accepted connection is assigned now.  (Bound: a handler
\* that will accept again waits for an object to do it with.)
Enter(c) ==
    /\ FreeThread /\ conn[c].stage \in OpStages /\ conn[c].ready # "no" /\ ~conn[c].busy
    /\ conn[c].stage = "accepting" => \E d \in Conns : conn[d].stage = "none"
    /\ LET r == IF conn[c].stage = "accepting"
                THEN [conn[c] EXCEPT !.open = conn[c].ready = "ok"]
                ELSE cancel_timeout(conn[c])
       IN Goes(c, IF admits THEN [r EXCEPT !.busy = TRUE] ELSE Drop(r))

\* accept(): the next accept first, unless this one was aborted.
Accepted(c) ==
    /\ conn[c].busy /\ conn[c].stage = "accepting"
    /\ UNCHANGED <<secure, running, lambda, acceptor, stopping, admits>>
    /\ LET after == CASE conn[c].ready # "ok" -> Drop(conn[c])
                      [] conn[c].ready = "ok" /\ secure
                             -> Await(set_timeout(conn[c], TimeoutRequest), "handshake")
                      [] OTHER -> read(conn[c])
       IN IF conn[c].ready = "aborted"
          THEN conn' = [conn EXCEPT ![c] = after]
          ELSE \E d \in {d \in Conns : conn[d].stage = "none"} :
                  conn' = [conn EXCEPT ![d] = create_connection, ![c] = after]

\* An operation that failed: on_error, and the session is dropped.
OperationFailed(c) ==
    /\ conn[c].busy /\ conn[c].stage \in PeerStages
    /\ conn[c].ready = "error"
    /\ Goes(c, Drop(conn[c]))

\* The stream buffer is full.
TooLarge(c) ==
    /\ conn[c].busy /\ conn[c].stage \in PeerStages
    /\ conn[c].ready = "full"
    /\ Goes(c, Refuse(conn[c]))

Handshaken(c) ==
    /\ conn[c].busy /\ conn[c].stage = "handshake" /\ conn[c].ready = "ok"
    /\ Goes(c, read(conn[c]))

\* find_resource: the callback of the first pattern that matches, in write()
\* with a new timeout; a request nobody handles is dropped without an answer.
write(r) == [set_timeout(r, TimeoutContent) EXCEPT !.stage = "handler"]
find_resource(c) == Goes(c, write(conn[c])) \/ Goes(c, Drop(conn[c]))

\* What parse() can make of the request line and the header fields, the
\* Content-Length included.
ParsedHeaders == {"malformed", "content", "chunked", "complete"}

\* A malformed header goes to on_error; content or chunks are read first.
HeaderRead(c) ==
    /\ conn[c].busy /\ conn[c].stage = "header" /\ conn[c].ready = "ok"
    /\ \E header \in ParsedHeaders :
          \/ header = "malformed" /\ Goes(c, Drop(conn[c]))
          \/ header = "content" /\ Goes(c, Await(set_timeout(conn[c], TimeoutContent), "content"))
          \/ header = "chunked" /\ Goes(c, Await(set_timeout(conn[c], TimeoutContent), "chunkLine"))
          \/ header = "complete" /\ find_resource(c)

ContentRead(c) ==
    /\ conn[c].busy /\ conn[c].stage = "content" /\ conn[c].ready = "ok"
    /\ find_resource(c)

\* read_chunked_transfer_encoded_chunk: all chunks together too large,
\* another chunk to come, or the last one.
ReadChunk(c) ==
    \/ Goes(c, Refuse(conn[c]))
    \/ Goes(c, Await(set_timeout(conn[c], TimeoutContent), "chunkLine"))
    \/ find_resource(c)

\* A chunk's length: malformed, the chunk still to read, or buffered already.
ChunkHead(c) ==
    /\ conn[c].busy /\ conn[c].stage = "chunkLine" /\ conn[c].ready = "ok"
    /\ \/ Goes(c, Drop(conn[c]))
       \/ Goes(c, Await(set_timeout(conn[c], TimeoutContent), "chunkBody"))
       \/ ReadChunk(c)

ChunkBody(c) ==
    /\ conn[c].busy /\ conn[c].stage = "chunkBody" /\ conn[c].ready = "ok"
    /\ ReadChunk(c)

\* The application's callback returns or throws: the response is sent by its
\* deleter, at once or when the application releases it.
CallbackReturns(c) ==
    /\ conn[c].stage = "handler"
    /\ \/ Goes(c, send(conn[c], "sending"))
       \/ Goes(c, [conn[c] EXCEPT !.stage = "held", !.ready = "no", !.busy = FALSE])

\* In a thread of the application, which must not outlive the server's run.
ReleaseResponse(c) ==
    /\ running /\ conn[c].stage = "held"
    /\ Goes(c, send(conn[c], "sending"))

\* A response is sent: close_connection_after_response, "Connection: close"
\* and HTTP/1.0 end the connection, otherwise the next request is read.
Sent(c) ==
    /\ conn[c].busy /\ conn[c].stage \in {"sending", "refusing"} /\ conn[c].ready = "ok"
    /\ \/ Goes(c, Drop(conn[c]))
       \/ conn[c].stage = "sending" /\ Goes(c, read(conn[c]))

Body(c) == \/ Accepted(c) \/ OperationFailed(c) \/ TooLarge(c) \/ Handshaken(c)
           \/ HeaderRead(c) \/ ContentRead(c) \/ ChunkHead(c) \/ ChunkBody(c)
           \/ CallbackReturns(c) \/ Sent(c)
Stop == StopAcceptor \/ StopConnections \/ StopRunner \/ StopWorkers

Next == \/ start \/ StartLambda \/ CallStop \/ Stop
        \/ \E c \in Conns : \/ PeerAnswers(c) \/ Fails(c) \/ TimerExpires(c)
                            \/ TimerHandler(c) \/ Erase(c) \/ Delete(c) \/ Enter(c)
                            \/ Body(c) \/ ReleaseResponse(c)

Spec == Init /\ [][Next]_vars

\* The threads of the pool run, clocks advance and callbacks return.  Nothing is assumed of the peers, nor that a response
\* the application keeps is ever released.
FairSpec ==
    /\ Spec /\ WF_vars(StartLambda)
    /\ \A c \in Conns : /\ WF_vars(Fails(c)) /\ WF_vars(TimerExpires(c))
                        /\ SF_vars(TimerHandler(c)) /\ SF_vars(Enter(c))
                        /\ WF_vars(Erase(c)) /\ WF_vars(Delete(c)) /\ SF_vars(Body(c))

(***************************************************************************)
(* Properties                                                              *)
(***************************************************************************)

\* stop() closes the listed connections through raw pointers: at any time
\* each of them must be an object that has not been deleted.  While the acceptor
\* is open and handlers are admitted exactly one of them waits for the next
\* client, whatever became of the earlier accepts.
ConnectionsAreLive ==
    /\ \A c \in Conns : conn[c].listed => conn[c].stage \notin {"none", "erased"}
    /\ acceptor = "open" /\ admits
          => Cardinality({c \in Conns : conn[c].stage = "accepting"}) = 1

\* Once stop() has passed handler_runner->stop() no handler of a connection and no
\* request callback of the application is executing, and none will.  (The start
\* observers and what web_server::post() was given take no scope: those end with
\* the pool, by the join in stop() of its threads.)
StopIsBarrier == stopping = "workers" \/ ~running => \A c \in Conns : ~conn[c].busy

\* With both timeouts set no peer can occupy a connection by staying silent,
\* at any point of the exchange.
PeerCannotStall ==
    TimeoutRequest > 0 /\ TimeoutContent > 0 =>
    \A c \in Conns : []<>~(conn[c].stage \in PeerStages /\ conn[c].ready = "no" /\ running)
=============================================================================
