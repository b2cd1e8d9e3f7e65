-------------------------- MODULE BaseQueueredLoop --------------------------
(***************************************************************************)
(* base_queuered_loop: the state and the operations that event_loop,       *)
(* main_loop and event_pool share.  Operators only: each derived class is  *)
(* a specification that extends this module.                               *)
(*                                                                         *)
(* The boost::asio::io_service behind it is external.  It is modelled from *)
(* how it is used: a FIFO of handlers, a set of pending timers, a flag set *)
(* by stop() and the 'work' object that keeps run() from returning.        *)
(***************************************************************************)
EXTENDS Integers, Sequences, FiniteSets

\* _queue_size is a uint64_t; the model keeps it modulo QueueModulus, a
\* number larger than the callbacks that can be pending, so that a wrap
\* below zero shows as it does modulo 2^64.
CONSTANT QueueModulus

ASSUME QueueModulusAssumption == QueueModulus \in Nat \ {0}

VARIABLES
    isRunning,  \* _is_running
    queueSize,  \* _queue_size
    service     \* *_pservice and _loop_maintainer

baseVars == <<isRunning, queueSize, service>>

(***************************************************************************)
(* The io_service                                                          *)
(***************************************************************************)
FreshService == [q |-> <<>>, timers |-> {}, stopped |-> FALSE, work |-> FALSE]

\* What is posted is appended to the queue.
Posted(s, job) == [s EXCEPT !.q = Append(@, job)]

\* An expired deadline_timer posts its handler.
TimerExpired(s, job) == [s EXCEPT !.timers = @ \ {job}, !.q = Append(@, job)]

\* A run() call takes the next handler; one that runs out of work returns.
CanTake(s) == ~s.stopped /\ s.q # <<>>
Taken(s)   == [s EXCEPT !.q = Tail(@)]
RunReturns(s) == s.stopped \/ (~s.work /\ s.q = <<>> /\ s.timers = {})

(***************************************************************************)
(* Operations of base_queuered_loop                                        *)
(***************************************************************************)
InitBase == /\ isRunning = FALSE
            /\ queueSize = 0
            /\ service = FreshService

\* _queue_size += n modulo the width of the counter
CountQueue(n) == queueSize' = (queueSize + n) % QueueModulus

start_loop == /\ isRunning' = TRUE
              /\ service' = [service EXCEPT !.work = TRUE]

\* stop_loop that lets the queue drain instead of stopping the service, but
\* forgets to release the work object.
stop_loop_drain == isRunning' = FALSE /\ UNCHANGED service

stop_loop == /\ isRunning' = FALSE
             /\ service' = [service EXCEPT !.work = FALSE, !.stopped = TRUE]

\* reset() that keeps the counter of the previous run.
reset_keeps_size == /\ isRunning' = FALSE
                    /\ service' = FreshService
                    /\ UNCHANGED queueSize

\* The io_service is replaced: handlers and timers of the old one are
\* destroyed without being called.  The code zeroes the counter after that: a post
\* between the two has the effect of one that was counted before reset() and queued
\* after it.
reset == /\ isRunning' = FALSE
         /\ service' = FreshService
         /\ queueSize' = 0
=============================================================================
