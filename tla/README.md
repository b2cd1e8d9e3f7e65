# A TLA+ model of barbacoa-server-lib

barbacoa-server-lib is a C++ library for server applications: event loops and
thread pools over `boost::asio::io_service`, timers, observers, a
connection-oriented network layer with pluggable framing, an HTTP(S) client and
server, process control and an application object that owns the main thread and
the signal handling. This directory models the parts of it whose correctness
depends on the order in which several threads act.

`PROJECT.json` lists every run, theorem and hazard, and maps each definition to
the lines it translates.

## Inventory

| Part | State | Operations | Interacts with | Hard because |
|---|---|---|---|---|
| `scope_runner` | one atomic counter, -1 when stopped | `continue_lock`, `~shared_lock`, `stop` | network handlers | three kinds of lock-free update of one word |
| `protected_mutex` | owner mark, inner mutex | `lock`, `unlock` | `observable`, `simple_observable` | mark and mutex change in separate steps |
| `base_queuered_loop` | `_is_running`, `_queue_size`, `io_service`, work object, observers | `start_loop`, `stop_loop`, `run`, `reset`, `register_queue` | base of the three loops | counter shared by posters and the loop; `reset` replaces everything |
| `event_loop` | `_is_run`, `_id`, thread | `start`, `stop`, `post` (plain, delayed), `wait`, `on_start`, `on_stop` | everything asynchronous | posts and waits before, during and after start and stop |
| `main_loop` | as `event_loop`, without a thread | `start`, `stop` | application, signal thread | stops and resets itself from inside its own callback |
| `event_pool` | `_waiting_threads`, `_thread_ids`, `_threads` | `start`, `stop`, `post` | tcp and http servers | concurrent callbacks; a start barrier that occupies one thread |
| `wait_async` | promise, result, guard shared by reference count | caller's wait, wrapper in the loop | `event_loop::wait` | timeout races the callback; lifetime of the caller's locals |
| `observable`, `simple_observable`, `protected_observable` | slots of (sink, loop), mutex | `subscribe`, `unsubscribe`, `notify` | `event_loop` | notification direct or posted, unsubscribed meanwhile |
| unit builders, manager | buffer, stages, finished units | `<<`, `build_unit`, `reset` | `connection` | any segmentation of the stream |
| `connection`, transports | socket, handler_runner, send buffer, disconnect callbacks | `post`, `commit`, `async_read`, `disconnect`, timeouts | `event_pool`, `server`, `client` | disconnect from several threads; late timers |
| `server`, `client` | table of connections; current connection | `start`, `stop`, accept, connect, disconnect | transports | callbacks against `stop` and `clear` |
| web client and server | pooled connections, sessions, timers | request, response, keep-alive, `stop` | `event_loop`, `event_pool`, `scope_runner` | a mutex held across `scope_runner::stop` |
| `timer`, `periodical_timer` | shared id | `start`, `stop` | `event_loop` | a fired timer against `stop` |
| application | signal thread, signal slot, exit code, main loop | `run`, `stop`, signal handling | `main_loop`, `wait` | who joins whom when a signal meets a stop |
| `spawn_polling` | pool of processes | `append`, polling thread, destructor | operating system | append during destruction |
| logger | appenders, filters, sinks | `init_*_log`, setters, `write`, `lock` | Boost.Log, everything that logs | configuration without a lock while threads write |
| log_files_watchdog | its loop; the directory | `watch`, `synch_watch`, a pass | logger's files, `event_loop` | the list is stale when the pass acts |
| options, versions, configs, ifconfig, fs helpers, platform code | values | parsing, formatting, system calls | | not hard in this sense |

What makes each modelled part correct is stated with its properties below.

## Modules

| Module | Models | Run by |
|---|---|---|
| `ScopeRunner` | `scope_runner` at the grain of its atomic operations | `MCScopeRunner` |
| `ExclusiveLock` | abstract: who is inside a lock | (refined by `ProtectedMutex`) |
| `ProtectedMutex` | `protected_mutex`, with threads that misuse it | `MCProtectedMutex` |
| `BaseQueueredLoop` | operators shared by the loops, and the external `io_service` | (extended) |
| `EventLoop` | an `event_loop` in its own thread, its owner and its clients | (extended) |
| `Timers` | `timer` and `periodical_timer`, over `EventLoop` | `MCEventLoop` |
| `MainLoop` | `application_main_loop` | (extended) |
| `Application` | `application_impl` and its signal thread, over `MainLoop` | `MCApplication` |
| `EventPool` | `event_pool` | `MCEventPool` |
| `WaitAsync` | `wait_async`, `wait_async_result` | `MCWaitAsync` |
| `UnitBuilder` | the framing protocols in `connection::on_raw_receive` | `MCUnitBuilder` |
| `Observer` | `observable`, `simple_observable`, `protected_observable` | `MCObserver` |
| `Network` | `server`, `client`, `connection` and the TCP and UNIX transports | `MCNetwork` |
| `WebServer` | `web_server` over `server_base_impl`, plain and TLS | `MCWebServer` |
| `WebClient` | `web_client` over `http_client_base_impl`: plain, TLS, proxied | `MCWebClient` |
| `Logger` | `logger` and its macros | (extended) |
| `LogFilesWatchdog` | `log_files_watchdog` and the file sink, over `Logger` | `MCLogging` |
| `NetworkProofs`, `WebClientProofs` | theorems about the module of that name | TLAPS |
| `EventLoopProofs` | theorems about `EventLoop` and `Timers` | TLAPS |
| `EventPoolProofs` | theorems about `EventPool`, and about `WaitAsync` | TLAPS |
| `ObserverProofs` | theorems about `Observer`, and about `ProtectedMutex`, its mutex | TLAPS |
| `WebServerProofs` | theorems about `WebServer`, and about `ScopeRunner`, its runner | TLAPS |
| `ApplicationProofs` | theorems about `MainLoop` and `Application` | TLAPS |
| `LoggingProofs` | theorems about `Logger` and `LogFilesWatchdog` | TLAPS |

Each module starts with its variables, one comment per variable naming the
member of the class it stands for, and the faults (`...Untested`, `...AtOnce`)
that show that its properties notice a change of the code; no specification
uses these. Where a proof module extends two components, the smaller one's names
carry its own (`MutexSpec`, `RunnerSpec`, `WaitSpec`, `RunnerTypeOK`, ...).

### How state and steps correspond to the code

*ScopeRunner.* `count` is the atomic; a turn of a compare-exchange loop that
fails, spuriously or not, is an action of its own.

*ProtectedMutex.* `ows` is the atomic owner, `mutex` the inner mutex, `et` the
local that a failed compare-exchange overwrites. Threads in `Misusers` call
`unlock` without holding and `lock` while holding; the others use it properly.
A refused `unlock` of a holder is final (`lock_guard` terminates).

*BaseQueueredLoop.* The `io_service` is a FIFO of handlers, a set of timers, a
stop flag and the work object. `_queue_size` is kept modulo `QueueModulus`, the
model's stand-in for 2^64. `post` is two steps, `Register` (the increment) and
`Enqueue`. `reset()` is one step, although it replaces the service (line 136) before
it zeroes the counter (line 137): a post that comes between the two ends like one
whose `Register` came before the step and whose `Enqueue` came after it.

*EventLoop.* The owner's `start` and `stop` are two steps each, split where the
thread is created and joined. The loop's thread takes a handler, executes it
(`Take`, `Finish`) and notifies the stop observers when `run()` returns.
`leaked` counts the increments of posts that throw (zero duration) and `wiped`
the callbacks whose increment a `reset()` erased: together they say exactly how
`queue_size()` departs from the callbacks still to come.

*MainLoop.* `stop()` from a callback replaces the `io_service` whose `run()` is
on the stack. Using the destroyed object is undefined; the modelled outcome is
`run()` returning by its stop flag, the one the tests of the repository see.

*EventPool.* One action per step of a thread (`ListId`, `EnterRun`, ...), of the
owner's loop that creates threads, and of the start lambda.

*WaitAsync.* One record per call: what caller and wrapper do, who has the guard,
its reference count, the promise and which locals still exist. `LeaveFirst` and
`LeaveLast` destroy the locals in the order each of the two functions declares
them in.

*UnitBuilder.* Bytes are small numbers, `Base` replaces 128 in the variable
length header, and the wire is cut at every possible place. The delimiter is
the default `"\r\n\r\n"`, as two different bytes repeated.

*Observer.* `notify_impl` of `observable` holds the mutex from the first slot to
the last and visits one slot per step; the other two copy the observers first,
so that several threads may walk at a time.

*Timers.* A start of a timer is a delayed post of `EventLoop` that remembers the
id the timer had. The id is a plain `int`: its increment is a load and a store
in two steps. The callback's comparison of the ids (`TimerTake`), a periodical
timer's start of itself (`AgainLoad`, `AgainStore`) and the call of the user's
function (`Ring`) are steps of their own, so that a `stop()` may return between any
two of them. `late`, `escaped` and `raced` record the three histories in which the
code does not keep what the class says (see below).

*Application.* `app` is the main thread in `run()`, `sig` the signal thread, which
waits for a signal, records it in the one slot and handles what is in the slot.
The signal thread is one of the `Clients` of `MainLoop`, and so is another thread
that posts and stops. What the C library does with a signal is external.
`stopper` records whose `stop()` ended the loop, and tells a `stop()` that this
run's signal thread asked for from one that an earlier run's posted too late.

*Network.* A thread is idle or at one place in one handler on one connection;
each handler's test of `handler_runner` and its use of the connection are two
steps, because the lock is a temporary of the test. The process is a server or
a client, over TCP or a UNIX socket; a raw connection is a record of its socket,
pending operations, timer, references and disconnect notifications. Use of a
released socket or a destroyed object is undefined: it sets `fault`, and the
properties say where it does not happen. The application's callbacks do not throw
in the model; in the code an exception of one makes the handler disconnect
(`asio_connection_impl.cpp:35`), or leaves a new connection unread (`server.cpp:187`).

*WebServer, WebClient.* A connection (a session, for the client) has a `stage`,
the one asynchronous operation under way; `Enter` takes the scope lock and
`Body` is the whole handler. Peer, resolver and clock complete, fail or cancel
the operation. A response that the application holds is sent when its last
reference goes. The client's `connections_mutex` is a variable, since `stop()`
keeps it while it waits. A `cancel()` of the client's socket, by a timer or by
`stop()`, ends the operation or is lost (`Cancel`): the session's operations are
composed of several of the socket's, and between two of these, or between
`set_timeout()` and the first one, the socket has nothing to cancel. The start
observers of the web server and what `web_server::post()` is given run in the pool
without a scope of the runner; they are not part of `WebServer`, and `StopIsBarrier` is
about the handlers and the request callbacks only. Requests of the web client come
from other threads; a callback that calls `request()` while `stop()` holds the mutex
would be one more handler that is blocked.

*Logger, LogFilesWatchdog.* A message is created under the macro's check, tested
by `write()` and given to one appender per step, while another thread adds
destinations and changes filters. The file sink writes records and opens the
next file of its pattern. A pass of the watchdog lists the directory file by
file, then acts file by file on the oldest of its list. A file name is a
sequence of tokens, so that `match_file` walks pattern and name as the code
does, without characters. The walk ends well as soon as the pattern or the name
is used up, and does not compare what follows a time: names that half match are
taken for the log's, listed with their own time stamps and removed. One of the
other entries of the directory (`MCForeign`) is such a name under one of the patterns.
A sink is made with the options that are for it (`OptionsOf`): `init_file_log` does not
look at `_autoflush`.

## Runs

One run per component, or per composition of components, checks its safety and
its liveness together, within seconds to some two minutes. Deadlock checking is
on for `ScopeRunner` and `WebServer`; elsewhere calls are bounded and the system
may come to rest.

| Run | Checks | Bounds | States |
|---|---|---|---|
| `scope_runner` | `stop` excludes scopes for good, and returns | 4 threads, unbounded calls | 213 k |
| `protected_mutex` | owner check, refinement of `ExclusiveLock` | 4 threads, 2 of them misusing, unbounded calls | 208 k |
| `event_loop` | queue size; order, with the stop observers last; `stop` and served waits return; a stopped timer is silent, a started one rings | 2 clients with 2 and 1 calls and 2 starts; 3 uses of a timer, 1 further period | 394 k |
| `application` | queue size; exit observers once; `stop` ends the loop; `run` returns; SIGTERM stops | 2 signals, 2 posts or stops of another thread, 2 runs | 308 k |
| `event_pool` | queue size; start and stop barriers; start completes, `stop` returns | 3 threads, 2 clients x 1 call, 2 starts, spurious CAS failures, failing thread creation | 49 k |
| `wait_async` | honest results, no lost completion; timed waits return; waits without timeout are synchronous | 4 calls on one loop: timed or not, with a result or not | 554 k |
| `unit_builder` | units are the messages sent, an oversized one ends the stream; nothing stuck | 3 protocols, 2 messages of up to 3 bytes, all segmentations | 67 k |
| `observer` | each due sink once | 3 threads, 2 sinks, 2 events, 4 slots | 163 k |
| `network` | the table has live connections only; `stop` notifies all; a connection in one thread's hands is safe; a connect is answered once; `stop`, `connect`, `~client` return | 2 connections, 2 workers, 2 starts | 285 k |
| `web_server` | the set holds live connections, one accept under way; no handler past `stop`; no silent peer keeps a connection | 2 connections, 2 threads, both timeouts, any number of starts | 33 k |
| `web_client` | a connection serves one request, one idle one is kept; a request is sent at most twice and, unless its cancel is lost, answered; `stop` returns but for one deadlock | 2 requests, 2 connections, 2 threads, TLS through a proxy | 291 k |
| `logging` | each message once per destination; nothing removed but log files and names that half match; never fewer than `max_files`; the open file kept; the number comes down | 2 writers, 3 messages, 2 destinations, 3 patterns, 5 foreign entries, 2 watches, a failing pack command | 743 k |

Why the bounds are enough: two starts let every leftover of one run meet the
next; a client with two calls gives reordering within a client, the second
client between clients; three threads of a pool give one that spins, one that
counts and one that is late; headers of two bytes occur with `Base = 2`, and
messages beyond the receiver's limit with `MsgMaxSize = 2`. Three uses of a
timer are start, stop and start again by two threads. Two signals let an exit
signal meet another one in the slot and a `stop` of another thread in between;
two runs let what the first one's signal thread has posted meet the second.
Two connections and two workers let one thread disconnect what the other reads,
and leave one connection to accept while the other is served. The proxied TLS
client has every stage of the plain and of the direct one. With `MaxFiles = 1`
every record may open a file too many, and two watches overlap.
`ScopeRunner` and `ProtectedMutex` have no bound but the number of threads.

The type invariants (`TypeOK`, `RunnerTypeOK`, `MutexTypeOK`, `WaitTypeOK`, in
`Timers` `LoopTypeOK`) are not part of the runs. They are theorems, or parts of
proved invariants (`TypeInv` of `Observer`, `LoggerTypes` and `FileTypes` of the
logging modules); that of `UnitBuilder` documents the variables and holds under
the configuration of its run.

### Where the code does not do what its comments say

The models behave as the code does, and each property says what it excepts. The
first group are defects of the code, the second differences of wording.

* `protected_mutex.h:16`: "protects from undefined behavior". The clearing loop of
  `unlock()` (line 52) reloads the expected owner when it fails and then erases
  the mark of the thread that has locked meanwhile; that thread's own `unlock()`
  is refused. A second `lock()` of it passes the check and blocks on the mutex it
  holds ("relock" in `ProtectedMutex`).
* `timers.h:62`: "Thread safe periodical timer". A `stop()` between the check of the
  id (line 44) and the `start()` in the lambda (line 82) is undone: the timer goes
  on ringing (`escaped` in `StoppedIsSilent`).
* `timers.h:13`: "Thread safe single shot timer". Overlapping `start()`s or `stop()`s
  may lose an increment of the plain `int` id: a stopped timer rings or a started
  one does not (`raced`). A callback that has passed the comparison of line 44 rings
  although a `stop()` has returned by then (`late`), and a periodical timer stopped
  there goes on (`escaped`).
* `event_loop.h:59`: "Invoke callback when loop will stop". `stop()` of the main loop
  runs in a callback and replaces the stop observer before `run()` notifies it
  (`event_loop.cpp:163`): `on_stop` callbacks of the main loop are never invoked.
* `observer.h:40`: "Subscribe and it will post events to event_loop". `_id` is the id
  of the thread that created or stopped the loop (`event_loop.cpp:61`), so that
  `notify()` in that thread calls the sink directly.
* `wait_asynch_request.h:61`: "else timeout was arisen". After a timeout the caller
  unlocks the guard before it drops its reference and destroys its locals (lines
  86, 155): a wrapper that locks in between takes the caller for waiting and
  writes to locals that are being destroyed. `EndlessIsSynchronous` shows it does
  not happen without a timeout.
* `application_impl.cpp:559`: the signal thread waits for the exit callback in a loop
  that another thread's `stop()` has ended; `run()` then joins the signal thread
  for ever (the exception of `RunEnds`). A `stop()` of another thread between
  line 441 and line 508 leaves the exit observers without a call (the exception
  of `ExitNotifiedOnce`). The signal thread's own `stop()` (line 565), posted after
  such a stop has ended the run, ends the next run, whose exit observers then
  depend on whether there is a signal. An exit signal before the loop runs is
  dropped and ends the signal thread.
* `http_client_impl.h:432`: `stop()` holds `connections_mutex` while it waits for
  handlers that take it: a deadlock (the exception of
  `StopReturnsUnlessBlocked`). A `request()` that waits for the mutex meanwhile
  continues on a stopped `io_service`.
* `web_client_config.h:42`: "1 millisecond is minimum waiting accuracy". `timeout()` is
  `_timeout_ms / 1000`: less than a second is no timeout at all, and
  `RequestAnswered` is stated for `timeout() > 0`.
* `http_client_impl.h:177`: the timer's handler cancels what is pending on the socket at
  that moment. Between two steps of an operation that is nothing, and no timer is
  left: the request waits for its peer (the exception `"lost"` of `RequestAnswered`).
* `asio_connection_impl.h:113`: the scope lock ends before the handler's body, so that
  two threads may disconnect or use one connection at a time; `OneThreadIsSafe`
  is about the others. `client.cpp:109`: all clients' connections have the id 0,
  so that the disconnect of an old one may reset the new one.
* `tcp_client_impl.cpp:55`: a connect timer that expires between resolving and
  connecting leaves the attempt without one; `ConnectAnswered` then rests on the
  kernel.
* `logger.h:59`: "not filtered" of fatal. `LOG(FATAL)` tests the filter of TRACE
  (`logging_helper.h:86`) and is dropped with `level_debug`. A second
  `init_cli_log` or `init_file_log` replaces `_boost_impl`, to which the first
  one's appender still points (`logger.cpp:582`).
* `log_files_watchdog.cpp:127`: files of one second are ordered by inode, so that a
  pass may delete the open one (the exception of `OpenFileKept`); overlapping
  passes with such ties may delete too many (that of `KeepsMaxFiles`). A pass that
  throws in the watchdog's loop ends the process.
* `log_files_watchdog.cpp:281`: `match_file` accepts names that only begin like the
  pattern, and with it entries that are not the log's. `OnlyLogFiles` bounds which: regular
  files with the log's name and extension, a time where the log's files have it and what
  these have behind a number. Such an entry counts towards `max_files`; if it is newer
  than the open file, that one may go (the other exception of `OpenFileKept`), and
  with overlapping passes too many may (that of `KeepsMaxFiles`): a listing
  that saw the entry as the newest, and one that saw a log file written since, each
  keep what the other removes.
* `unix_local_server_impl.cpp:147`: a `stop()` before the acceptor exists leaves the
  socket file, and the next start fails.

Differences of wording:

* `event_loop.h:90`: "Callback wiil be invoked in 'run' state". Callbacks posted
  before `start()` are queued ahead of the lambda that sets `_is_run`
  (`event_loop.cpp:105`); `EventLoop` queues it so.
* `event_loop.h:254`: "Waiting for finish for starting procedure". `wait()` tests
  `is_running()`, which `start()` sets first (`event_loop.cpp:181`); action
  `WaitStarted`.
* `event_loop.h:181`: "Result for case when callback can't be invoked". A wait
  without timeout whose callback `stop()` destroys never returns; `CallsReturn`
  is therefore stated for loops that are not stopped.
* `base_queuered_loop.cpp:84`: "It will stop all threads". When creating a thread
  of a pool fails, the start lambda spins for a thread that will never exist
  (`event_pool.cpp:63`) and `stop()` waits in `join()`; `CallsReturn` of
  `EventPool` is therefore stated for fully created pools.
* `event_loop.h:233`: "only before this function return". A callback that began
  before the timeout outlasts a timed `wait()`; hence `EndlessIsSynchronous` is
  about waits without one.
* `unit_builder_manager.h:69`: "clear internal buffer and stages". `reset()` clears
  the buffer only. Nothing in the library calls it.
* `observer.h:17`: "required until they will be unsubscribed". A posted
  notification keeps the raw pointer and calls the sink after `unsubscribe()`
  has returned; `NotifiedOnce` counts such a sink as due.

## Fairness

Fairness is assumed only of steps that a thread or the clock takes by itself: a
thread inside a library call goes on, a callback ends, a `run()` that may return
does, an armed timer expires where a property needs it (`Timers`, `WebServer`,
`WebClient`). It is weak, except where other handlers may take the thread in
between: there a queued handler gets its turn under strong fairness (`Network`
for resolver and connect, `WebServer` for handlers of ready operations), as the
FIFO queue of `io_service` gives it.
Nobody is obliged to call `start`, `stop`, `post`, `notify` or `request`, and
nothing is assumed of a peer: it may stay silent for ever. In `WaitAsync` neither
the call of the wrapper nor the end of the callback is fair, since the loop may
be stopped or busy, so that `TimedWaitReturns` rests on the timeout alone. In
`LogFilesWatchdog` only the watchdog's loop is fair, in `Observer` and
`UnitBuilder` nothing is.

## Proofs

TLAPS proves the following for every number of threads, clients, connections and
requests and for every bound. Each invariant was model-checked with the
constants of the component's run before it was proved. What is assumed of the
constants is named in the modules (`...Assumption`) and evaluated by the runs: the
sets of threads, clients and connections are finite, as in any process, the
special values are not members of them, the width of the counter is positive, there
is a log level, and some pattern of log files has a counter.

* `WebServerProofs`, of `ScopeRunner`: `RunnerTypeOK`, `CountIsHolders` (the counter is
  the number of live scopes), `StopExcludesScopes` and the action property `StoppedForGood`. The
  inductive invariant joins the counting to "a `stop` that has returned left the
  counter negative"; without it the state after `stop` would not exclude a later
  increment.
* `ObserverProofs`, of `ProtectedMutex`: `MutexTypeOK`, `UnlockOnlyByOwner`, `NoFalseRelock` and the
  refinement of `ExclusiveLock`. The invariant says that the inner mutex belongs
  to exactly the thread between `InnerLock` and `InnerUnlock`, and that the mark
  names a thread only from its `LockStore` to its `Clear`: a mark may be missing
  (see above) but is never false.
* `EventPoolProofs`, of `EventPool`: `TypeOK`, `StartIsBarrier`, `StopIsBarrier`,
  `CallbackThreadListed` and `QueueSizeAccounts`. The invariant (`IInv`) says that
  while the pool is active `_waiting_threads` is the number of threads that have not
  entered `run()`, that `_thread_ids` holds those past their registration, and
  that an inactive pool has no threads; the last is what makes a second `start()`
  find the counter right. `QueueSizeAccounts` needs one thing more (`StartOnce`):
  the start lambda, which is queued but not counted, exists at most once, in the
  queue or in one thread's hands. Every step changes the counter and one of the
  sets it counts by one; that the remainders then agree is the lemma `CountWraps`,
  proved from the division theorem up, and the cardinalities follow from
  `FiniteSetTheorems`.
* `EventLoopProofs`: `QueueSizeAccounts` and `InvokedInOrder`, of `EventLoop` alone
  (`LoopAccounting`, `LoopOrder`) and of `Timers` (`TimersAccounting`, `TimersOrder`),
  and `StoppedIsSilent` of `Timers`. `LoopInv` numbers each client's jobs by its calls
  (`Numbered`): the job a client is about to hand over has a higher number than
  all it has in the queue, among the timers or invoked. From this follow that a
  job is never there twice, which the counting needs, and that the queue stays
  sorted for each client (`Ordered`). `ThreadLives` says that only the thread in `run()`
  has a callback and that the thread outlives the loop's running, which puts the
  stop observers last. Each step of `Timers` is a step of `EventLoop` or leaves it
  alone (`TimersStep`), except the start of a periodical timer in its own callback;
  this one is numbered by `periods`.
  `StoppedIsSilent` rests on `SilenceIInv`: the id of each start is at most the
  timer's, and smaller if the start was ended and did not escape, as long as no
  two increments overlapped (`IdsInTurn`); while one is under way it has loaded the
  present value, and a callback past its check goes back to a start that was not
  ended, has escaped, or was ended just before the user's function is called
  (`late`). So each stop leaves at most the one callback that was past its check.
* `EventPoolProofs`, of `WaitAsync`: `WaitTypeOK`, `EndlessIsSynchronous` and the action property
  `ReturnIsHonest`. The invariant speaks of each call by itself: `use_count()` is the
  number of the two `shared_ptr`s that exist, what is written in the promise and in
  the outcome says how far the wrapper has come (`WrittenByWrapper`), and without a
  timeout the promise alone orders wrapper and caller.
* `NetworkProofs`: `TypeOK`, `TableIsLive`, `StopNotifiesAll`, `OneThreadIsSafe`, for
  server and client, TCP and UNIX sockets. The invariant for both is where each
  thread can be and that a connection gives up its runner, its socket and its
  observers in this order (`Released`). For a server it adds who may touch a
  connection from accept to destruction: none but the accepting thread before
  it is listed (`Accepting`), in the table from then until its observers are called
  (`Listed`, `Reading`, `Announced`), and, once `stop` removes what is left, no
  handler and nothing outside the copy that `stop` walks (`Removal`).
* `WebServerProofs`, of `WebServer`: `TypeOK`, `StopIsBarrier`, `ConnectionsAreLive`. The invariant
  says that a scope is held only in a handler or a callback, that the entry in
  the set goes before the object, that nothing exists before the pool has executed
  the start lambda, and that exactly one object waits for a client while the
  acceptor is open and handlers are admitted.
* `WebClientProofs`: `TypeOK`, `ConnectionExclusive`, `NoConnectionLost` (a listed
  connection is marked in use exactly while a request uses it) and
  `SentAtMostTwice`. That each request finds a connection to use or room for a new
  one is a pigeonhole argument: marked connections are in the hands of different
  requests (`UsersExclude`, `MarksAreUsers`). `Resends` follows the flag
  `attempt_reconnect` through the connection's life; it is what bounds the retries.
* `ObserverProofs`, of `Observer`: `NotifiedOnce`. For an event under way the
  invariant counts: each sink has got it, directly or in the loop's queue, as often
  as it has a slot before the position of the walk (`WalksOn`), and is due as often
  as it has a slot at all. That slots do not move under a walk is what the mutex
  (`observable`) or the copy (the other two) is for, and `WalksApart` says so; a
  walk that ended was complete or was aborted by a sink that threw (`WalksOver`).
* `ApplicationProofs`: `QueueSizeAccounts` of `MainLoop` alone
  (`MainLoopAccounting`), and of `Application` with `TypeOK` (`AppAccounting`), and
  `ExitNotifiedOnce` for any number of runs (`ExitOnce`). `Running` says that a loop
  which is running is in the `run()` of the `io_service` it posts to, although
  `stop()` replaces that in a callback. `ExitPosted` follows the one exit callback from
  the signal thread through the queue, `Terminating` says that the flag by which
  `run()` decides who notifies is set before the signal thread can, and `Unsignalled`
  that without a signal only the one `run()` itself sends exists. `StopAsked` is why
  `stopper` distinguishes runs: without that the property is false for two runs.
* `LoggingProofs`, of `Logger`: `WrittenOnce` (`ReachedOnce`). `Messaging` gives each
  message to one thread; `Served` counts, for a message under way, what has reached
  each destination or waits in the sink's queue: as many as there are appenders of
  that destination before the position of `write()`. It holds while appenders do not
  move under the walk (`Positions`), that is while there is no `fault`.
* `LoggingProofs`, of `LogFilesWatchdog`, for every pattern and every directory:
  `KeepsMaxFiles` (`MaxFilesKept`), `OpenFileKept` (`OpenKept`), and that an entry which is
  not the log's is removed only if `match_file` accepts it (`OnlyMatching`). Which names
  it accepts (`OnlyLogFiles`) would need an induction over names and is left to the run.
  A pass acts on times it read earlier; `SeenOrder` says that these still order the
  log's files as their numbers do, with ties; other entries have any times.
  A file that is to go is outnumbered by `max_files` newer ones as long as no ties
  were seen and no other entry matches (`NewerKept`), also when the other thread's
  pass deletes some of them: it deletes only outnumbered ones. Without overlap the
  pass's own rest is enough, ties and other entries or not (`RestKept`).

Of these the runs also check, each on its instance, `StopExcludesScopes`,
`UnlockOnlyByOwner`, `ImplementsLock`, `StartIsBarrier`, both `StopIsBarrier`,
`QueueSizeAccounts` of `EventPool`, `Timers` and `Application`, `InvokedInOrder`,
`StoppedIsSilent`, `ExitNotifiedOnce`, `EndlessIsSynchronous`, `ReturnIsHonest`,
`NotifiedOnce`, `TableIsLive`, `StopNotifiesAll`, `OneThreadIsSafe`,
`ConnectionsAreLive`, `ConnectionExclusive`, `WrittenOnce`, `KeepsMaxFiles` and
`OpenFileKept`: every safety property of the runs except those of the framing
protocols and `OnlyLogFiles`. The other proved statements need no run.

Only model-checked:

* liveness under fairness, which the prover cannot express: that `stop`, waits,
  connects and requests return or are answered, that timers ring, that no peer
  stalls a server, that the number of log files comes down;
* the framing protocols (`UnitsAreMessages`, `NothingStuck`) and which names `match_file`
  accepts (`OnlyLogFiles`): recursive definitions over data, whose meaning for
  every input takes an induction the prover does not do.

## Not modelled, and why

* Operating system, Boost and the C signal library (a git submodule that is not
  part of the tree): external, modelled by how the code uses them.
* Memory ordering weaker than sequential consistency: the code uses the default
  order for its atomics. Unsynchronised members are modelled where a property
  meets them (the timer's id, the logger's appenders).
* Thread names, formatting, stack dumps, core files, command line, versions,
  configuration setters: values without interleaving.
* `spawn` and `spawn_polling`: processes, pipes and `waitpid`. `append()` tests
  `_break` before it locks (`spawn.cpp:317`): a process appended while the destructor
  runs is never polled.
* The solo timers; `application::wait()`, whose `notify_all` without the mutex
  (`application_impl.cpp:501`) may be lost; spurious failures of the
  `compare_exchange_weak` around the start of the signal thread
  (`application_impl.cpp:460`, `:487`), after which it or `run()` returns.
* `stop()` called in the thread of its own `event_loop`, which joins itself and ends
  the program; a user callback that throws out of `run()`.
* The contents of writes: `async_write_some` may write a part only
  (`asio_connection_impl.h:138`). The multi-unit protocols of the examples.
* Which resource of a web server answers a request, its start observers and posted
  callbacks, and a Content-Length that is
  not a number (`http_client_impl.h:594` throws out of a handler).
* A clock that goes backwards, and log files that another process writes.

## Plan

1. An abstract executor (posted callbacks are invoked at most once, in order,
   between start and stop) that `EventLoop`, `MainLoop` and `EventPool` implement.
2. `spawn_polling`, `application::wait()` and the solo timers.
3. The framing protocols for every message, with a prover that does induction.
4. Runs are kept few: a run of a composed module takes the place of the run of its
   part, as `Application` does for `MainLoop` and `Timers` for `EventLoop`.
