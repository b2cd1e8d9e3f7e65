------------------------------ MODULE Network ------------------------------
(***************************************************************************)
(* network::server and network::client over their transports, and the      *)
(* connection both hand to the application.  A process is a server or a    *)
(* client (role).  Threads: the application's own ("user"), which starts   *)
(* and stops, and the workers, which run every handler and callback.  A    *)
(* handler tests handler_runner and then runs without its lock, so a       *)
(* thread is recorded between the test and the use.                        *)
(***************************************************************************)
EXTENDS Naturals, FiniteSets

CONSTANTS
    Conns,      \* bound: the raw connections alive at a time
    Workers,    \* the threads of the server's event_pool; a client has one
    MaxStarts   \* bound: calls of start() or connect()

ASSUME NetworkAssumption ==
    /\ IsFiniteSet(Conns) /\ Cardinality(Conns) >= 2
    /\ IsFiniteSet(Workers) /\ Workers # {} /\ "user" \notin Workers
    /\ MaxStarts \in Nat

Threads == Workers \cup {"user"}
None == "none"
ASSUME NoneAssumption == None \notin Conns

VARIABLES
    role,       \* "server" or "client"
    local,      \* over a UNIX socket instead of TCP
    file,       \* the server's socket file exists
    running,    \* is_running() of the pool or the loop; its service runs
    lambda,     \* the on_start callback of the transport: "none" or "posted"
    acceptor,   \* "null", "open" or "closed"
    table,      \* server::_connections
    copy,       \* the copy of it stop(true) walks
    current,    \* client::_connection
    impl,       \* client::_impl is set
    answers,    \* observers of connect and fail called since connect()
    starts,     \* calls of start() or connect()
    conn,       \* the connections, see Connection
    thread,     \* the threads, see Thread
    fault       \* "none" or the undefined behaviour the process met

vars == <<role, local, file, running, lambda, acceptor, table, copy, current, impl, answers,
          starts, conn, thread, fault>>
transport == <<local, file>>
\* What a handler of a connection leaves alone.
control == <<role, local, file, running, lambda, acceptor, copy, impl, starts>>

Connection == [
    op        : {"none", "accept", "resolve", "connect"}, \* before it is connected
    read      : BOOLEAN,    \* async_read_some is pending
    write     : BOOLEAN,    \* async_write_some is pending
    socket    : BOOLEAN,    \* _socket is not null
    admits    : BOOLEAN,    \* handler_runner gives out locks
    timer     : {"off", "armed", "queued"}, \* of set_timeout
    served    : BOOLEAN,    \* its io_service is the one the workers run
    held      : BOOLEAN,    \* the application keeps the pconnection
    announced : BOOLEAN,    \* given to the application since start()
    gone      : 0..2,       \* times its disconnect observers were called
    shared    : BOOLEAN]    \* two threads were in its code at a time
Thread == [
    at    : {"idle", "client", "established", "deliver", "receiving", "disconnect",
             "release", "notify", "notifyNull", "pool", "join", "removal", "forget", "reset"},
    on    : Conns \cup {None},
    holds : BOOLEAN,    \* has a pconnection to it
    then  : {"idle", "receiving", "removal", "forget"}, \* after disconnect()
    call  : {"none", "stop", "remove", "connect", "destroy"}] \* of the user

NoConnection == [op |-> "none", read |-> FALSE, write |-> FALSE, socket |-> FALSE,
                 admits |-> FALSE, timer |-> "off", served |-> FALSE, held |-> FALSE,
                 announced |-> FALSE, gone |-> 0, shared |-> FALSE]
Idle == [at |-> "idle", on |-> None, holds |-> FALSE, then |-> "idle", call |-> "none"]

\* Types.
TypeOK == /\ role \in {"server", "client"} /\ local \in BOOLEAN /\ file \in BOOLEAN
          /\ running \in BOOLEAN /\ impl \in BOOLEAN
          /\ lambda \in {"none", "posted"} /\ acceptor \in {"null", "open", "closed"}
          /\ table \subseteq Conns /\ copy \subseteq Conns
          /\ current \in Conns \cup {None}
          /\ answers \in 0..2 /\ starts \in 0..MaxStarts
          /\ conn \in [Conns -> Connection] /\ thread \in [Threads -> Thread]
          /\ fault \in {"none", "null socket", "destroyed"}

\* A server or a client that has not been used.
Init == /\ role \in {"server", "client"} /\ local \in BOOLEAN /\ file = FALSE
        /\ running = FALSE /\ lambda = "none" /\ acceptor = "null"
        /\ table = {} /\ copy = {} /\ current = None /\ impl = FALSE
        /\ answers = 0 /\ starts = 0
        /\ conn = [c \in Conns |-> NoConnection]
        /\ thread = [t \in Threads |-> Idle]
        /\ fault = "none"

\* The shared_ptrs to the connection object; ~connection takes the handlers
\* off the raw connection.
Alive(c) == \/ c \in table \/ c \in copy \/ c = current \/ conn[c].held
            \/ \E t \in Threads : thread[t].on = c /\ thread[t].holds
\* Nothing refers to the raw connection any more.
Free(c) == /\ ~Alive(c) /\ \A t \in Threads : thread[t].on # c
           /\ conn[c].op = "none" /\ ~conn[c].read /\ ~conn[c].write
           /\ conn[c].timer = "off"

\* A worker that can take the next handler from the service.
Ready(w) == /\ fault = "none" /\ running /\ thread[w].at = "idle"
            /\ role = "client" => w = CHOOSE v \in Workers : TRUE
At(t, at) == fault = "none" /\ thread[t].at = at
\* r, entered by t, is in the hands of another thread too if one is on c.
Enter(t, c, r) == [r EXCEPT !.shared = @ \/ \E u \in Threads \ {t} : thread[u].on = c]

(***************************************************************************)
(* asio_connection_impl and connection                                     *)
(***************************************************************************)

create_raw(op) == [NoConnection EXCEPT !.op = op, !.socket = TRUE, !.admits = TRUE,
                                    !.served = TRUE]

set_timeout(r) == [r EXCEPT !.timer = "armed"]
\* Too late for a timer whose handler is queued.
cancel_timeout(r) == [r EXCEPT !.timer = IF @ = "armed" THEN "off" ELSE @]

\* async_read and commit assert that there is a socket; the connection logs
\* the exception.  On a service nobody runs they start and never end.
async_read(r) == [r EXCEPT !.read = r.socket /\ r.served]
commit(r) == [r EXCEPT !.write = @ \/ (r.socket /\ r.served)]

\* The application's code in a callback of t about c: it may keep the
\* pconnection, send, and disconnect; then the handler reads on.  It does not throw.
AppCallback(t, c, r) ==
    \E keep \in BOOLEAN, does \in {"nothing", "send", "disconnect"} :
       LET kept == [Enter(t, c, r) EXCEPT !.held = keep]
       IN  /\ conn' = [conn EXCEPT ![c] =
                         CASE does = "nothing" -> kept
                           [] does = "send" -> commit(kept)
                           [] does = "disconnect" -> kept]
           /\ thread' = [thread EXCEPT ![t] =
                [@ EXCEPT !.at = IF does = "disconnect" THEN "disconnect" ELSE "receiving",
                          !.on = c, !.holds = TRUE, !.then = "receiving"]]

\* Where a thread goes on when disconnect() returns.
Return(t) == IF thread[t].then = "receiving" THEN [thread[t] EXCEPT !.at = "receiving"]
             ELSE [Idle EXCEPT !.at = thread[t].then, !.call = thread[t].call]

\* What waits in a service nobody runs any more never happens.
Discard(r) == [r EXCEPT !.op = "none", !.read = FALSE, !.write = FALSE, !.timer = "off",
                         !.served = FALSE]

Joined == \A w \in Workers : thread[w].at = "idle"
Answered == answers' = IF answers < 2 THEN answers + 1 ELSE answers

(***************************************************************************)
(* Plausible faults of the operations below, one small change each.  No    *)
(* specification uses them; each shows that some property notices it.      *)
(***************************************************************************)

\* A server that does not subscribe to the disconnect of its connections.
NotifyKeepsEntry(t) ==
    /\ At(t, "notify") \/ At(t, "notifyNull")
    /\ conn' = [conn EXCEPT ![thread[t].on].gone = IF @ < 2 THEN @ + 1 ELSE @]
    /\ thread' = [thread EXCEPT ![t] = Return(t)]
    /\ UNCHANGED <<control, table, current, answers, fault>>

\* stop() that does not join the pool's threads.
StopJoinAtOnce ==
    /\ role = "server" /\ At("user", "join")
    /\ conn' = [c \in Conns |-> Discard(conn[c])] /\ lambda' = "none"
    /\ copy' = IF thread["user"].call = "remove" THEN table ELSE {}
    /\ thread' = [thread EXCEPT !["user"].at = "removal"]
    /\ UNCHANGED <<role, transport, running, acceptor, table, current, impl, answers, starts, fault>>

\* A read handler that does not test the runner.
ReadDoneUntested(w, c) ==
    /\ Ready(w) /\ conn[c].read
    /\ \E at \in {"deliver", "disconnect"} :
         /\ conn' = [conn EXCEPT ![c] = Enter(w, c, [@ EXCEPT !.read = FALSE])]
         /\ thread' = [thread EXCEPT ![w] = [Idle EXCEPT !.at = at, !.on = c]]
    /\ UNCHANGED <<control, table, current, answers, fault>>

\* connect_ that only logs what it catches.
OnConnectStartLogs(w) ==
    /\ role = "client" /\ local /\ Ready(w) /\ lambda = "posted" /\ lambda' = "none"
    /\ \/ \E c \in {c \in Conns : Free(c)} :
             conn' = [conn EXCEPT ![c] = set_timeout(create_raw("connect"))]
       \/ UNCHANGED conn
    /\ UNCHANGED <<role, transport, running, acceptor, table, copy, current, impl, answers,
                   starts, thread, fault>>

\* Handlers that keep the runner's lock: disconnect() waits for its caller.
DisconnectWaitsForHandler(t) ==
    /\ At(t, "disconnect") /\ t = "user"
    /\ IF conn[thread[t].on].socket
       THEN /\ conn' = [conn EXCEPT ![thread[t].on].admits = FALSE]
            /\ thread' = [thread EXCEPT ![t].at = "release"]
       ELSE /\ thread' = [thread EXCEPT ![t] = Return(t)]
            /\ UNCHANGED conn
    /\ UNCHANGED <<control, table, current, answers, fault>>

(***************************************************************************)
(* Handlers of a connection                                                *)
(***************************************************************************)

\* The completion of async_read_some: nothing if the runner is stopped, the
\* callback of the connection, or disconnect() if it failed.
ReadDone(w, c) ==
    /\ Ready(w) /\ conn[c].read
    /\ \E at \in IF conn[c].admits THEN {"deliver", "disconnect"} ELSE {"idle"} :
         /\ conn' = [conn EXCEPT ![c] =
               IF at = "idle" THEN [@ EXCEPT !.read = FALSE]
               ELSE Enter(w, c, [@ EXCEPT !.read = FALSE])]
         /\ thread' = [thread EXCEPT ![w] =
               IF at = "idle" THEN Idle ELSE [Idle EXCEPT !.at = at, !.on = c]]
    /\ UNCHANGED <<control, table, current, answers, fault>>

\* connection_impl calls the connection through a reference; on_raw_receive
\* takes its shared_ptr and builds units.  What cannot be built disconnects.
Deliver(w) ==
    /\ At(w, "deliver")
    /\ IF Alive(thread[w].on)
       THEN /\ \E at \in {"receiving", "disconnect"} :
                 thread' = [thread EXCEPT ![w] = [@ EXCEPT !.at = at, !.holds = TRUE]]
            /\ UNCHANGED fault
       ELSE fault' = "destroyed" /\ UNCHANGED thread
    /\ UNCHANGED <<control, table, current, answers, conn>>

\* A unit for the receive observers, while connected.
Receive(w) ==
    /\ At(w, "receiving") /\ conn[thread[w].on].socket
    /\ AppCallback(w, thread[w].on, conn[thread[w].on])
    /\ UNCHANGED <<control, table, current, answers, fault>>

\* No further unit: the next read; the handler returns.
ReadOn(w) ==
    /\ At(w, "receiving")
    /\ conn' = [conn EXCEPT ![thread[w].on] = async_read(@)]
    /\ thread' = [thread EXCEPT ![w] = Idle]
    /\ UNCHANGED <<control, table, current, answers, fault>>

\* The completion of async_write_some.
WriteDone(w, c) ==
    /\ Ready(w) /\ conn[c].write
    /\ \E failed \in IF conn[c].admits THEN BOOLEAN ELSE {FALSE} :
         /\ conn' = [conn EXCEPT ![c] =
               IF failed THEN Enter(w, c, [@ EXCEPT !.write = FALSE])
               ELSE [@ EXCEPT !.write = FALSE]]
         /\ thread' = [thread EXCEPT ![w] =
               IF failed THEN [Idle EXCEPT !.at = "disconnect", !.on = c] ELSE Idle]
    /\ UNCHANGED <<control, table, current, answers, fault>>

\* disconnect(): is_connected(), and the runner is stopped.
Disconnect(t) ==
    /\ At(t, "disconnect")
    /\ IF conn[thread[t].on].socket
       THEN /\ conn' = [conn EXCEPT ![thread[t].on].admits = FALSE]
            /\ thread' = [thread EXCEPT ![t].at = "release"]
       ELSE /\ thread' = [thread EXCEPT ![t] = Return(t)]
            /\ UNCHANGED conn
    /\ UNCHANGED <<control, table, current, answers, fault>>

\* The socket is released; a second thread releases a null one.
Release(t) ==
    /\ At(t, "release")
    /\ conn' = [conn EXCEPT ![thread[t].on].socket = FALSE]
    /\ thread' = [thread EXCEPT ![t].at =
                    IF conn[thread[t].on].socket THEN "notify" ELSE "notifyNull"]
    /\ UNCHANGED <<control, table, current, answers, fault>>

\* The observers of the server and of the client, whose connections all have
\* the same id.
on_client_disconnected(c) == table' = table \ {c}
on_diconnect_impl == current' = None

\* connection::on_diconnected calls the observers, the server's or the
\* client's own among them.
on_diconnected(c) ==
    /\ conn' = [conn EXCEPT ![c].gone = IF @ < 2 THEN @ + 1 ELSE @]
    /\ on_client_disconnected(c) /\ on_diconnect_impl

\* The callback, if the connection has not been destroyed; then the socket
\* that was released is closed, the null one too.
NotifyDisconnect(t) ==
    /\ At(t, "notify") \/ At(t, "notifyNull")
    /\ IF Alive(thread[t].on) THEN on_diconnected(thread[t].on)
       ELSE UNCHANGED <<conn, table, current>>
    /\ thread' = [thread EXCEPT ![t] = Return(t)]
    /\ fault' = IF thread[t].at = "notifyNull" THEN "null socket" ELSE fault
    /\ UNCHANGED <<control, answers>>

(***************************************************************************)
(* server and its transports                                               *)
(***************************************************************************)

\* start(): the pool runs and its first task is the transport's start_.
Start ==
    /\ role = "server" /\ At("user", "idle") /\ ~running /\ starts < MaxStarts
    /\ running' = TRUE /\ lambda' = "posted" /\ acceptor' = "null"
    /\ starts' = starts + 1
    /\ conn' = [c \in Conns |-> [conn[c] EXCEPT !.announced = FALSE]]
    /\ UNCHANGED <<role, transport, table, copy, current, impl, answers, thread, fault>>

\* start_ over TCP: open, bind and listen, then accept(); or the fail callback.
OnStartTcp(w) ==
    /\ role = "server" /\ ~local /\ Ready(w) /\ lambda = "posted" /\ lambda' = "none"
    /\ \/ \E c \in {c \in Conns : Free(c)} :
             acceptor' = "open" /\ conn' = [conn EXCEPT ![c] = create_raw("accept")]
       \/ UNCHANGED <<acceptor, conn>>
    /\ UNCHANGED <<role, transport, running, table, copy, current, impl, answers, starts,
                   thread, fault>>

\* start_ over a UNIX socket: binding creates the file and fails if it exists.
OnStartUnix(w) ==
    /\ role = "server" /\ local /\ Ready(w) /\ lambda = "posted" /\ lambda' = "none"
    /\ \/ \E c \in {c \in Conns : Free(c)} :
             /\ ~file /\ file' = TRUE
             /\ acceptor' = "open" /\ conn' = [conn EXCEPT ![c] = create_raw("accept")]
       \/ UNCHANGED <<file, acceptor, conn>>
    /\ UNCHANGED <<role, local, running, table, copy, current, impl, answers, starts,
                   thread, fault>>

\* The handler of async_accept: accepts again unless it was aborted, and
\* then goes on with the new client, or calls the fail callback.
Accepted(w, c) ==
    /\ Ready(w) /\ conn[c].op = "accept"
    /\ \/ /\ acceptor = "closed"
          /\ conn' = [conn EXCEPT ![c] = NoConnection] /\ UNCHANGED thread
       \/ \E d \in {d \in Conns : Free(d)}, ok \in BOOLEAN :
             /\ conn' = [conn EXCEPT ![d] = create_raw("accept"),
                            ![c] = IF ok THEN [@ EXCEPT !.op = "none"] ELSE NoConnection]
             /\ thread' = [thread EXCEPT ![w] =
                   IF ok THEN [Idle EXCEPT !.at = "client", !.on = c] ELSE @]
    /\ UNCHANGED <<control, table, current, answers, fault>>

\* The handlers of the two transports do the same.
AcceptedTcp(w, c) == ~local /\ Accepted(w, c)
AcceptedUnix(w, c) == local /\ Accepted(w, c)

\* on_new_client: nothing once the server stops; otherwise the connection is
\* listed and given to the application, and read from.
on_new_client(w) ==
    /\ At(w, "client")
    /\ IF running
       THEN /\ table' = table \cup {thread[w].on}
            /\ AppCallback(w, thread[w].on, [conn[thread[w].on] EXCEPT !.announced = TRUE])
       ELSE /\ conn' = [conn EXCEPT ![thread[w].on] = NoConnection]
            /\ thread' = [thread EXCEPT ![w] = Idle]
            /\ UNCHANGED table
    /\ UNCHANGED <<control, current, answers, fault>>

\* stop_impl of the transports: the acceptor is closed, if start_ has made
\* it, and the file removed.
CloseTcp == /\ acceptor' = IF acceptor = "open" THEN "closed" ELSE acceptor
            /\ UNCHANGED file
CloseUnix == /\ acceptor' = IF acceptor = "open" THEN "closed" ELSE acceptor
             /\ file' = IF acceptor = "null" THEN file ELSE FALSE

\* stop(wait_for_removal): the acceptor is closed,
Stop(remove) ==
    /\ role = "server" /\ At("user", "idle") /\ running
    /\ IF local THEN CloseUnix ELSE CloseTcp
    /\ thread' = [thread EXCEPT !["user"] = [@ EXCEPT !.at = "pool",
                                              !.call = IF remove THEN "remove" ELSE "stop"]]
    /\ UNCHANGED <<role, local, running, lambda, table, copy, current, impl, answers, starts,
                   conn, fault>>

\* the pool's service stops: no further handler begins,
StopPool ==
    /\ At("user", "pool")
    /\ running' = FALSE
    /\ thread' = [thread EXCEPT !["user"].at = "join"]
    /\ UNCHANGED <<role, transport, lambda, acceptor, table, copy, current, impl, answers, starts,
                   conn, fault>>

\* its threads are joined and the table is copied, if its connections are to
\* be disconnected, or cleared,
StopJoin ==
    /\ role = "server" /\ At("user", "join") /\ Joined
    /\ conn' = [c \in Conns |-> Discard(conn[c])] /\ lambda' = "none"
    /\ copy' = IF thread["user"].call = "remove" THEN table ELSE {}
    /\ thread' = [thread EXCEPT !["user"].at = "removal"]
    /\ UNCHANGED <<role, transport, running, acceptor, table, current, impl, answers, starts, fault>>

\* each connection of the copy is disconnected,
RemoveNext ==
    /\ At("user", "removal")
    /\ \E c \in copy :
          /\ copy' = copy \ {c}
          /\ conn' = [conn EXCEPT ![c] = Enter("user", c, @)]
          /\ thread' = [thread EXCEPT !["user"] = [@ EXCEPT !.at = "disconnect", !.on = c,
                                                   !.holds = TRUE, !.then = "removal"]]
    /\ UNCHANGED <<role, transport, running, lambda, acceptor, table, current, impl, answers, starts,
                   fault>>

\* and stop() clears the table.
ClearTable ==
    /\ At("user", "removal") /\ copy = {}
    /\ table' = {}
    /\ thread' = [thread EXCEPT !["user"] = Idle]
    /\ UNCHANGED <<control, current, answers, conn, fault>>

(***************************************************************************)
(* client and its transports                                               *)
(***************************************************************************)

\* connect() and ~client begin with clear().
Clear(call) ==
    /\ role = "client" /\ At("user", "idle")
    /\ IF call = "connect" THEN starts < MaxStarts ELSE impl
    /\ IF current = None
       THEN /\ thread' = [thread EXCEPT !["user"] = [@ EXCEPT !.at = "reset", !.call = call]]
            /\ UNCHANGED conn
       ELSE /\ conn' = [conn EXCEPT ![current] = Enter("user", current, @)]
            /\ thread' = [thread EXCEPT !["user"] = [at |-> "disconnect", on |-> current,
                             holds |-> TRUE, then |-> "forget", call |-> call]]
    /\ UNCHANGED <<control, table, current, answers, fault>>

\* clear() found a connection: _connection.reset().
Forget ==
    /\ At("user", "forget")
    /\ current' = None
    /\ thread' = [thread EXCEPT !["user"].at = "reset"]
    /\ UNCHANGED <<control, table, answers, conn, fault>>

\* _impl.reset() leaves a null pointer and then destroys the transport: its
\* worker is stopped.
ResetImpl ==
    /\ At("user", "reset")
    /\ impl' = FALSE /\ running' = FALSE
    /\ thread' = [thread EXCEPT !["user"].at = "join"]
    /\ UNCHANGED <<role, transport, lambda, acceptor, table, copy, current, answers, starts, conn, fault>>

\* The worker is joined; connect() starts a new one.
ClearJoin ==
    /\ role = "client" /\ At("user", "join") /\ Joined
    /\ conn' = [c \in Conns |-> Discard(conn[c])]
    /\ IF thread["user"].call = "connect"
       THEN impl' = TRUE /\ running' = TRUE /\ lambda' = "posted" /\ starts' = starts + 1
       ELSE lambda' = "none" /\ UNCHANGED <<impl, running, starts>>
    /\ answers' = 0
    /\ thread' = [thread EXCEPT !["user"] = Idle]
    /\ UNCHANGED <<role, transport, acceptor, table, copy, current, fault>>

\* connect_ over TCP: the host is resolved, with the connect timeout;
\* or the fail callback.
OnConnectStartTcp(w) ==
    /\ role = "client" /\ ~local /\ Ready(w) /\ lambda = "posted" /\ lambda' = "none"
    /\ \/ \E c \in {c \in Conns : Free(c)} :
             /\ conn' = [conn EXCEPT ![c] = set_timeout(create_raw("resolve"))]
             /\ UNCHANGED answers
       \/ Answered /\ UNCHANGED conn
    /\ UNCHANGED <<role, transport, running, acceptor, table, copy, current, impl, starts,
                   thread, fault>>

\* connect_ over a UNIX socket: the file must exist.
OnConnectStartUnix(w) ==
    /\ role = "client" /\ local /\ Ready(w) /\ lambda = "posted" /\ lambda' = "none"
    /\ \/ \E c \in {c \in Conns : Free(c)} :
             /\ conn' = [conn EXCEPT ![c] = set_timeout(create_raw("connect"))]
             /\ UNCHANGED answers
       \/ Answered /\ UNCHANGED conn
    /\ UNCHANGED <<role, transport, running, acceptor, table, copy, current, impl, starts,
                   thread, fault>>

\* resolve_step; a failure leaves the timer armed.
Resolved(w, c) ==
    /\ Ready(w) /\ conn[c].op = "resolve"
    /\ \/ conn' = [conn EXCEPT ![c].op = "connect"] /\ UNCHANGED answers
       \/ conn' = [conn EXCEPT ![c].op = "none"] /\ Answered
    /\ UNCHANGED <<control, table, current, thread, fault>>

\* connect_step.
ConnectStep(w, c) ==
    /\ Ready(w) /\ conn[c].op = "connect"
    /\ conn' = [conn EXCEPT ![c] = cancel_timeout([@ EXCEPT !.op = "none"])]
    /\ \/ /\ thread' = [thread EXCEPT ![w] = [Idle EXCEPT !.at = "established", !.on = c]]
          /\ UNCHANGED answers
       \/ Answered /\ UNCHANGED thread
    /\ UNCHANGED <<control, table, current, fault>>

\* on_connect_impl asserts _impl and swallows the exception; otherwise the
\* connection becomes the client's and is given to the application.
on_connect_impl(w) ==
    /\ At(w, "established")
    /\ IF impl
       THEN /\ current' = thread[w].on /\ Answered
            /\ AppCallback(w, thread[w].on, conn[thread[w].on])
       ELSE /\ thread' = [thread EXCEPT ![w] = Idle]
            /\ UNCHANGED <<current, answers, conn>>
    /\ UNCHANGED <<control, table, fault>>

TimerExpires(c) ==
    /\ fault = "none" /\ running /\ conn[c].timer = "armed"
    /\ conn' = [conn EXCEPT ![c].timer = "queued"]
    /\ UNCHANGED <<control, table, current, answers, thread, fault>>

\* The timer's handler cancels what is pending on a socket it takes for
\* granted.
TimerFires(w, c) ==
    /\ Ready(w) /\ conn[c].timer = "queued"
    /\ conn' = [conn EXCEPT ![c].timer = "off"]
    /\ fault' = IF conn[c].socket THEN fault ELSE "null socket"
    /\ UNCHANGED <<control, table, current, answers, thread>>

(***************************************************************************)
(* The application's use of a connection outside its callbacks             *)
(***************************************************************************)

\* A callback posted to the workers that sends or disconnects.
Post(w, c) ==
    /\ Ready(w) /\ conn[c].held
    /\ \/ conn' = [conn EXCEPT ![c] = commit(@)] /\ UNCHANGED thread
       \/ /\ conn' = [conn EXCEPT ![c] = Enter(w, c, @)]
          /\ thread' = [thread EXCEPT ![w] = [Idle EXCEPT !.at = "disconnect", !.on = c,
                                                          !.holds = TRUE]]
    /\ UNCHANGED <<control, table, current, answers, fault>>

AppRelease(c) ==
    /\ fault = "none" /\ conn[c].held
    /\ conn' = [conn EXCEPT ![c].held = FALSE]
    /\ UNCHANGED <<control, table, current, answers, thread, fault>>

Next == \/ Start \/ Stop(TRUE) \/ Stop(FALSE) \/ StopPool \/ StopJoin \/ RemoveNext
        \/ ClearTable \/ Clear("connect") \/ Clear("destroy") \/ Forget \/ ResetImpl
        \/ ClearJoin
        \/ \E t \in Threads : Disconnect(t) \/ Release(t) \/ NotifyDisconnect(t)
        \/ \E w \in Workers :
              \/ OnStartTcp(w) \/ OnStartUnix(w) \/ on_new_client(w)
              \/ OnConnectStartTcp(w) \/ OnConnectStartUnix(w) \/ on_connect_impl(w)
              \/ Deliver(w) \/ Receive(w) \/ ReadOn(w)
              \/ \E c \in Conns :
                    \/ AcceptedTcp(w, c) \/ AcceptedUnix(w, c) \/ ReadDone(w, c) \/ WriteDone(w, c)
                    \/ Resolved(w, c) \/ ConnectStep(w, c) \/ TimerFires(w, c)
                    \/ Post(w, c)
        \/ \E c \in Conns : TimerExpires(c) \/ AppRelease(c)

\* Threads run; the resolver and the kernel end a resolution and a connection
\* attempt sooner or later, and the service keeps its handlers in order (SF).
\* Nothing makes a peer send or the application stop.
Fairness ==
    /\ WF_vars(\/ StopPool \/ StopJoin \/ RemoveNext \/ ClearTable
               \/ Forget \/ ResetImpl \/ ClearJoin)
    /\ \A t \in Threads : WF_vars(Disconnect(t) \/ Release(t) \/ NotifyDisconnect(t))
    /\ \A w \in Workers : WF_vars(on_new_client(w) \/ on_connect_impl(w) \/ Deliver(w) \/ ReadOn(w))
    /\ SF_vars(\E w \in Workers : OnConnectStartTcp(w) \/ OnConnectStartUnix(w))
    /\ SF_vars(\E w \in Workers, c \in Conns : Resolved(w, c) \/ ConnectStep(w, c))

Spec == Init /\ [][Next]_vars
FairSpec == Spec /\ Fairness

(***************************************************************************)
(* Properties                                                              *)
(***************************************************************************)

\* The server's table has no dead entry: a listed connection has its socket,
\* or a thread is about to take it off; and every connection of the server
\* that is read from and has its socket is listed.
TableIsLive ==
    /\ \A c \in table : conn[c].socket \/ \E t \in Threads : /\ thread[t].on = c
                                                             /\ thread[t].at = "notify"
    /\ role = "server" =>
          \A c \in Conns : conn[c].read /\ conn[c].socket => c \in table

\* stop(true) "will notify for disconection all active connection": when it
\* clears the table, every connection the application was given has had its
\* disconnect observers called.
StopNotifiesAll ==
    At("user", "removal") /\ thread["user"].call = "remove" /\ copy = {} =>
        \A c \in Conns : conn[c].announced => conn[c].gone > 0

\* A server's connection that was never in the hands of two threads at a time
\* is disconnected once and is not used after its destruction.  (Two threads
\* do meet, see Release; and a client's clear() of an old connection may
\* destroy the new one, which has the same id.)
OneThreadIsSafe ==
    role = "server" => \A c \in Conns : ~conn[c].shared =>
        /\ conn[c].gone <= 1
        /\ \A w \in Workers : thread[w].at = "deliver" /\ thread[w].on = c => Alive(c)

\* An attempt to connect is answered, by connect or by fail and not by both,
\* unless clear() ends it or the process meets a fault.
ConnectAnswered ==
    /\ [](answers <= 1)
    /\ (role = "client" /\ running /\ answers = 0) ~> (answers > 0 \/ ~impl \/ fault # "none")

\* stop(), connect() and ~client return.
StopReturns == []<>(thread["user"].at = "idle" \/ fault # "none")
=============================================================================
