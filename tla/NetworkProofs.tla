--------------------------- MODULE NetworkProofs ---------------------------
(***************************************************************************)
(* Proofs about Network for any number of connections, workers and starts, *)
(* a server or a client, over TCP or a UNIX socket.                        *)
(***************************************************************************)
EXTENDS Network, TLAPS

(***************************************************************************)
(* The inductive invariant.  First what holds of a client, too.            *)
(***************************************************************************)

\* Stages in which a thread is in the code of a connection.
OnStages == {"client", "established", "deliver", "receiving", "disconnect", "release",
             "notify", "notifyNull"}

\* A record h of thread t agrees with where it is.
Placed(t, h) ==
    /\ h.at \in OnStages <=> h.on # None
    /\ h.at \notin OnStages => h.then = "idle"
    /\ t \in Workers => /\ h.at \in OnStages \cup {"idle"}
                        /\ h.then \in {"idle", "receiving"}
    /\ t \notin Workers =>
          /\ h.at \notin {"client", "established", "deliver", "receiving"}
          /\ h.at \in OnStages => h.then \in {"removal", "forget"}

\* stop() and its workers belong to a server, clear() to a client.
Roles ==
    IF role = "server"
    THEN /\ current = None /\ thread["user"].at \notin {"forget", "reset"}
         /\ \A t \in Threads : thread[t].at # "established" /\ thread[t].then # "forget"
         /\ \A c \in Conns : conn[c].op \in {"none", "accept"}
    ELSE /\ table = {} /\ copy = {} /\ thread["user"].at \notin {"pool", "removal"}
         /\ \A t \in Threads : thread[t].at # "client" /\ thread[t].then # "removal"
         /\ \A c \in Conns : conn[c].op # "accept"

\* The runner is stopped before the socket is released, and that before the
\* observers are called.
Released ==
    /\ \A c \in Conns : /\ conn[c].admits => conn[c].socket
                        /\ conn[c].socket => conn[c].gone = 0
    /\ \A t \in Threads :
          /\ thread[t].at = "release" => ~conn[thread[t].on].admits
          /\ thread[t].at \in {"notify", "notifyNull"} => ~conn[thread[t].on].socket

\* connect() is counted when its worker starts.
Counted == thread["user"].call = "connect" => role = "client" /\ starts < MaxStarts

(***************************************************************************)
(* What holds of a server                                                  *)
(***************************************************************************)

\* stop() walks the copy of the table.
Removing == thread["user"].at = "removal" \/ thread["user"].then = "removal"

\* Then no handler runs or will, and what is left of the table is in the copy
\* or being disconnected.
Removal ==
    /\ thread["user"].at = "join" => ~running
    /\ Removing => /\ ~running
                   /\ \A w \in Workers : thread[w].at = "idle"
                   /\ \A c \in Conns : ~conn[c].read
    /\ Removing /\ thread["user"].call = "remove" => table \subseteq copy \cup {thread["user"].on}

\* A connection that waits to be accepted is in nobody's hands; one that has
\* just been accepted is only in the hands of that thread.
Untouched(c, owners) ==
    /\ conn[c].socket /\ ~conn[c].read /\ ~conn[c].write /\ ~conn[c].held
    /\ ~conn[c].announced /\ c \notin table /\ c \notin copy
    /\ \A u \in Threads \ owners : thread[u].on # c
Accepting ==
    /\ \A c \in Conns : conn[c].op # "none" => Untouched(c, {})
    /\ \A t \in Threads : thread[t].at = "client" => Untouched(thread[t].on, {t})

\* A connection that is listed has its socket, or is about to be taken off.
Listed == \A c \in table : conn[c].socket \/ \E t \in Threads : /\ thread[t].on = c
                                                                /\ thread[t].at = "notify"

\* One that is read from, or will be, and has its socket is listed.
Reading ==
    /\ \A c \in Conns : conn[c].read /\ conn[c].socket => c \in table
    /\ \A t \in Threads :
          /\ thread[t].at \in {"deliver", "receiving"} \/ thread[t].then = "receiving"
          /\ conn[thread[t].on].socket
          => thread[t].on \in table

\* One that was announced is listed until its observers are called, unless
\* stop() has returned.
Announced == running \/ thread["user"].at # "idle" =>
    \A c \in Conns : conn[c].announced /\ conn[c].gone = 0 => c \in table

\* One thread at a time releases its socket once and calls its observers once.
Alone(c) ==
    /\ conn[c].gone <= 1
    /\ \A t, u \in Threads : thread[t].on = c /\ thread[u].on = c => t = u
    /\ \A t \in Threads : thread[t].on = c =>
          /\ thread[t].at \in {"deliver", "release"} => conn[c].socket
          /\ thread[t].at = "notify" => conn[c].gone = 0
          /\ thread[t].at # "notifyNull"
Unshared == \A c \in Conns : ~conn[c].shared => Alone(c)

ServerInv == /\ Removal /\ Accepting /\ Listed /\ Reading /\ Announced /\ Unshared

CommonInv == /\ TypeOK /\ Roles /\ Released /\ Counted
             /\ \A t \in Threads : Placed(t, thread[t])

IInv == CommonInv /\ (role = "server" => ServerInv)

\* A server or a client that has not been used satisfies the invariant.
LEMMA InitIInv == Init => IInv
<1> SUFFICES ASSUME Init PROVE IInv
  OBVIOUS
<1>1. NoConnection \in Connection /\ Idle \in Thread
  BY DEF NoConnection, Connection, Idle, Thread
<1>2. TypeOK
  <2>1. conn \in [Conns -> Connection] /\ thread \in [Threads -> Thread]
    BY <1>1 DEF Init
  <2>2. starts \in 0 .. MaxStarts /\ answers \in 0 .. 2
    BY NetworkAssumption DEF Init
  <2>3. QED
    BY <2>1, <2>2 DEF Init, TypeOK
<1>3. /\ \A c \in Conns : conn[c] = NoConnection
      /\ \A t \in Threads : thread[t] = Idle /\ thread["user"] = Idle
  BY DEF Init, Threads
<1>4. CommonInv
  BY <1>2, <1>3 DEF Init, CommonInv, Roles, Released, Counted, Placed, OnStages, NoConnection, Idle,
                             Threads
<1>5. ServerInv
  <2>1. \A t \in Threads : thread[t].on = None /\ thread[t].at = "idle" /\ thread[t].then = "idle"
    BY <1>3 DEF Idle
  <2>2. \A c \in Conns : /\ conn[c].op = "none" /\ ~conn[c].read /\ ~conn[c].announced
                         /\ conn[c].gone = 0
    BY <1>3 DEF NoConnection
  <2>3. "user" \in Threads /\ table = {}
    BY DEF Init, Threads
  <2>4. QED
    BY <2>1, <2>2, <2>3, NoneAssumption
       DEF ServerInv, Removal, Removing, Accepting, Listed, Reading, Announced, Unshared, Alone
<1>6. QED
  BY <1>4, <1>5 DEF IInv

\* A step of thread t in the code of connection c, from thread[t] to h and
\* from conn[c] to r, that only ever closes the connection and counts the
\* threads it finds there.
LocalThread(t, c, h) ==
    /\ thread[t].on \in {None, c} /\ h.on \in {None, c} /\ Placed(t, h)
    /\ thread[t].at \notin {"client", "established", "notify"}
    /\ h.at \in OnStages \cup {"idle", thread[t].then}
    /\ h.at \notin {"client", "established"}
    /\ h.then \in {thread[t].then, "idle", "receiving"}
    /\ thread[t].at = "idle" /\ h.at # "idle" => t \in Workers /\ running
    /\ t = "user" => /\ h.call = thread[t].call
                     /\ role = "server" => h.on = thread[t].on \/ c \notin table
    /\ h.at \in {"deliver", "receiving"} \/ h.then = "receiving" =>
          \/ conn[c].read \/ thread[t].at \in {"deliver", "receiving"}
          \/ thread[t].then = "receiving"
LocalConnection(t, c, r) ==
    /\ r.op = conn[c].op /\ r.announced = conn[c].announced /\ r.gone = conn[c].gone
    /\ conn[c].shared => r.shared
    /\ r.admits => conn[c].admits /\ r.socket
    /\ r.socket => conn[c].socket
    /\ conn[c].read \/ conn[c].write \/ conn[c].held \/ thread[t].on = c
    /\ r.read => conn[c].read \/ thread[t].at = "receiving"
Local(t, c, r, h) ==
    /\ LocalThread(t, c, h) /\ LocalConnection(t, c, r)
    /\ h.on = c /\ thread[t].on # c => r.shared \/ \A u \in Threads \ {t} : thread[u].on # c
    /\ h.at = "release" => ~r.admits
    /\ h.at \in {"notify", "notifyNull"} => ~r.socket
    /\ h.at = "notify" => r.gone = 0
    /\ role = "server" /\ ~r.shared => /\ h.at \in {"deliver", "release"} => r.socket
                                       /\ h.at # "notifyNull"
    /\ conn[c].socket /\ ~r.socket => h.at = "notify" /\ thread[t].on = c

\* Such a step preserves the invariant if it leaves the table alone.
LEMMA LocalStep ==
    ASSUME IInv, TypeOK', NEW t \in Threads, NEW c \in Conns,
           NEW r \in Connection, NEW h \in Thread,
           conn' = [conn EXCEPT ![c] = r], thread' = [thread EXCEPT ![t] = h],
           UNCHANGED <<role, running, table, copy, current, starts>>, Local(t, c, r, h)
    PROVE  IInv'
<1> USE DEF Local, LocalThread, LocalConnection
<1>1. /\ conn'[c] = r /\ \A d \in Conns : d # c => conn'[d] = conn[d]
      /\ thread'[t] = h /\ \A u \in Threads : u # t => thread'[u] = thread[u]
  BY DEF IInv, CommonInv, TypeOK
<1>2. /\ "user" \in Threads /\ "user" \notin Workers /\ Threads = Workers \cup {"user"}
      /\ None \notin Conns
  BY NetworkAssumption, NoneAssumption DEF Threads
<1>3. /\ \A u \in Threads : Placed(u, thread[u]) /\ thread[u].on \in Conns \cup {None}
      /\ h.on = None \/ h.on = c
  BY DEF IInv, CommonInv, TypeOK, Thread
<1>4. \A u \in Threads : Placed(u, thread'[u])
  BY <1>1, <1>3
<1>5. Roles'
  BY <1>1, <1>2, <1>3 DEF IInv, CommonInv, Roles, Placed, OnStages
<1>6. Released'
  <2>1. \A d \in Conns : /\ conn'[d].admits => conn'[d].socket
                         /\ conn'[d].socket => conn'[d].gone = 0
    BY <1>1 DEF IInv, CommonInv, Released
  <2>2. ASSUME NEW u \in Threads
        PROVE  /\ thread'[u].at = "release" => ~conn'[thread'[u].on].admits
               /\ thread'[u].at \in {"notify", "notifyNull"} => ~conn'[thread'[u].on].socket
    BY <1>1, <1>3 DEF IInv, CommonInv, Released, Placed, OnStages
  <2>3. QED
    BY <2>1, <2>2 DEF Released
<1>7. CommonInv'
  <2>1. Counted'
    BY <1>1, <1>2 DEF IInv, CommonInv, Counted
  <2>2. QED
    BY <1>4, <1>5, <1>6, <2>1 DEF CommonInv
<1>8. ASSUME role = "server" PROVE ServerInv'
  <2>1. ServerInv
    BY <1>8 DEF IInv
  <2>2. Removal'
    <3>1. Removing' => Removing
      BY <1>1, <1>2, <1>3 DEF Removing, Placed, OnStages
    <3>2. Removing' => \A w \in Workers : thread'[w].at = "idle"
      BY <1>1, <1>2, <2>1, <3>1 DEF ServerInv, Removal
    <3>3. Removing' => \A d \in Conns : ~conn'[d].read
      BY <1>1, <1>2, <1>3, <2>1, <3>1 DEF ServerInv, Removal, Placed
    <3>4. thread'["user"].at = "join" => ~running
      BY <1>1, <1>2, <1>3, <2>1 DEF ServerInv, Removal, Placed, OnStages
    <3>5. ASSUME Removing', thread'["user"].call = "remove"
          PROVE  table \subseteq copy \cup {thread'["user"].on}
      <4>1. thread["user"].call = "remove"
        BY <1>1, <1>2, <3>5
      <4>2. table \subseteq copy \cup {thread["user"].on}
        BY <2>1, <3>1, <3>5, <4>1 DEF ServerInv, Removal
      <4>3. CASE t = "user"
        <5>1. table \subseteq Conns
          BY DEF IInv, CommonInv, TypeOK
        <5>2. QED
          BY <1>1, <1>2, <1>8, <4>2, <4>3, <5>1
      <4>4. CASE t # "user"
        BY <1>1, <1>2, <4>2, <4>4
      <4>5. QED
        BY <4>3, <4>4
    <3>6. QED
      BY <2>1, <3>1, <3>2, <3>3, <3>4, <3>5 DEF ServerInv, Removal
  <2>3. Accepting'
    <3>1. conn[c].op = "none" /\ \A u \in Threads : thread[u].at = "client" => thread[u].on # c
      BY <2>1 DEF ServerInv, Accepting, Untouched
    <3>2. ASSUME NEW d \in Conns, conn'[d].op # "none" PROVE Untouched(d, {})'
      <4>1. d # c /\ Untouched(d, {})
        BY <1>1, <2>1, <3>1, <3>2 DEF ServerInv, Accepting
      <4>2. QED
        BY <1>1, <1>2, <4>1 DEF Untouched
    <3>3. ASSUME NEW u \in Threads, thread'[u].at = "client" PROVE Untouched(thread[u].on, {u})'
      <4>1. u # t /\ thread[u].on # c /\ Untouched(thread[u].on, {u})
        BY <1>1, <2>1, <3>1, <3>3 DEF ServerInv, Accepting
      <4>2. thread[u].on \in Conns
        BY <1>1, <1>3, <3>3, <4>1 DEF Placed, OnStages
      <4>3. QED
        BY <1>1, <1>2, <4>1, <4>2 DEF Untouched
    <3>4. QED
      BY <3>2, <3>3 DEF Accepting
  <2>4. Listed'
    <3>1. table \subseteq Conns
      BY DEF IInv, CommonInv, TypeOK
    <3>2. QED
      BY <1>1, <1>2, <1>3, <2>1, <3>1 DEF ServerInv, Listed, Placed, OnStages
  <2>5. Reading'
    <3>1. ASSUME NEW d \in Conns, conn'[d].read, conn'[d].socket PROVE d \in table
      BY <1>1, <1>3, <2>1, <3>1 DEF ServerInv, Reading, Placed, OnStages
    <3>2. ASSUME NEW u \in Threads, conn'[thread'[u].on].socket,
                 thread'[u].at \in {"deliver", "receiving"} \/ thread'[u].then = "receiving"
          PROVE  thread'[u].on \in table
      <4>1. CASE u = t
        BY <1>1, <1>3, <2>1, <3>2, <4>1 DEF ServerInv, Reading, Placed, OnStages
      <4>2. CASE u # t
        BY <1>1, <1>3, <2>1, <3>2, <4>2 DEF ServerInv, Reading, Placed, OnStages
      <4>3. QED
        BY <4>1, <4>2
    <3>3. QED
      BY <3>1, <3>2 DEF Reading
  <2>6. Announced'
    BY <1>1, <1>2, <2>1 DEF ServerInv, Announced
  <2>7. Unshared'
    <3>1. ASSUME NEW d \in Conns \ {c}, ~conn[d].shared PROVE Alone(d)'
      BY <1>1, <1>2, <2>1, <3>1 DEF ServerInv, Unshared, Alone
    <3>2. ASSUME ~r.shared PROVE Alone(c)'
      <4>1. Alone(c)
        BY <2>1, <3>2 DEF ServerInv, Unshared
      <4>2. conn'[c].gone <= 1
        BY <1>1, <4>1 DEF Alone
      <4>3. \A u, v \in Threads : thread'[u].on = c /\ thread'[v].on = c => u = v
        BY <1>1, <3>2, <4>1 DEF Alone
      <4>4. ASSUME NEW u \in Threads, thread'[u].on = c
            PROVE  /\ thread'[u].at \in {"deliver", "release"} => conn'[c].socket
                   /\ thread'[u].at = "notify" => conn'[c].gone = 0
                   /\ thread'[u].at # "notifyNull"
        BY <1>1, <1>8, <3>2, <4>1, <4>4 DEF Alone
      <4>5. QED
        BY <4>2, <4>3, <4>4 DEF Alone
    <3>3. QED
      BY <1>1, <3>1, <3>2 DEF Unshared
  <2>8. QED
    BY <2>2, <2>3, <2>4, <2>5, <2>6, <2>7 DEF ServerInv
<1>9. QED
  BY <1>7, <1>8 DEF IInv

\* Entering a connection changes at most its 'shared'.
LEMMA EnterRecord ==
    ASSUME NEW t \in Threads, NEW c \in Conns, NEW r \in Connection
    PROVE  LET e == Enter(t, c, r) IN
           /\ e \in Connection
           /\ e.op = r.op /\ e.read = r.read /\ e.write = r.write /\ e.socket = r.socket
           /\ e.admits = r.admits /\ e.served = r.served /\ e.held = r.held
           /\ e.announced = r.announced /\ e.gone = r.gone
           /\ e.shared <=> r.shared \/ \E u \in Threads \ {t} : thread[u].on = c
<1> DEFINE b == r.shared \/ \E u \in Threads \ {t} : thread[u].on = c
<1>1. b \in BOOLEAN
  OBVIOUS
<1> HIDE DEF b
<1>2. Enter(t, c, r) = [r EXCEPT !.shared = b]
  BY DEF Enter, b
<1>3. QED
  BY <1>1, <1>2 DEF Connection, b

\* The record of an idle thread.
LEMMA IdleRecord ==
    /\ Idle \in Thread /\ Idle.at = "idle" /\ Idle.on = None /\ Idle.then = "idle"
    /\ ~Idle.holds /\ Idle.call = "none"
BY DEF Idle, Thread

\* The same of a step that is an action of a handler.
LEMMA HandlerStep ==
    ASSUME IInv, NEW t \in Threads, NEW c \in Conns,
           NEW r \in Connection, NEW h \in Thread,
           conn' = [conn EXCEPT ![c] = r], thread' = [thread EXCEPT ![t] = h],
           UNCHANGED <<control, table, current, answers, fault>>, Local(t, c, r, h)
    PROVE  IInv'
<1>1. TypeOK' /\ UNCHANGED <<role, running, table, copy, current, starts>>
  BY DEF IInv, CommonInv, TypeOK, control
<1>2. QED
  BY <1>1, LocalStep

\* What the invariant says of a worker that takes the next handler.
LEMMA ReadyWorker ==
    ASSUME IInv, NEW w \in Workers, Ready(w)
    PROVE  /\ w \in Threads /\ w # "user" /\ running /\ thread[w] \in Thread
           /\ thread[w].at = "idle" /\ thread[w].on = None /\ thread[w].then = "idle"
BY NetworkAssumption DEF Ready, IInv, CommonInv, TypeOK, Placed, OnStages, Threads

\* The completion of a read preserves the invariant.
LEMMA ReadDoneIInv ==
    ASSUME IInv, NEW w \in Workers, NEW c \in Conns, ReadDone(w, c) PROVE IInv'
<1>1. /\ w \in Threads /\ w # "user" /\ running /\ thread[w] \in Thread
      /\ thread[w].at = "idle" /\ thread[w].on = None /\ thread[w].then = "idle"
  BY ReadyWorker DEF ReadDone
<1>2. conn[c] \in Connection /\ conn[c].read /\ None \notin Conns
      /\ (conn[c].admits => conn[c].socket)
  BY NoneAssumption DEF ReadDone, IInv, CommonInv, TypeOK, Released
<1> DEFINE q == [conn[c] EXCEPT !.read = FALSE]
           r(at) == IF at = "idle" THEN q ELSE Enter(w, c, q)
           h(at) == IF at = "idle" THEN Idle ELSE [Idle EXCEPT !.at = at, !.on = c]
<1>3. PICK at \in (IF conn[c].admits THEN {"deliver", "disconnect"} ELSE {"idle"}) :
         conn' = [conn EXCEPT ![c] = r(at)] /\ thread' = [thread EXCEPT ![w] = h(at)]
  BY DEF ReadDone
<1>4. /\ q \in Connection /\ ~q.read
      /\ q.op = conn[c].op /\ q.announced = conn[c].announced /\ q.gone = conn[c].gone
      /\ q.admits = conn[c].admits /\ q.socket = conn[c].socket /\ q.shared = conn[c].shared
  BY <1>2 DEF Connection
<1> HIDE DEF q
<1>5. /\ r(at) \in Connection /\ ~r(at).read
      /\ r(at).op = conn[c].op /\ r(at).announced = conn[c].announced /\ r(at).gone = conn[c].gone
      /\ r(at).admits = conn[c].admits /\ r(at).socket = conn[c].socket
      /\ conn[c].shared => r(at).shared
      /\ at # "idle" => r(at).shared \/ \A u \in Threads \ {w} : thread[u].on # c
  <2>1. CASE at = "idle"
    BY <1>4, <2>1
  <2>2. CASE at # "idle"
    BY <1>1, <1>4, <2>2, EnterRecord
  <2>3. QED
    BY <2>1, <2>2
<1>6. /\ h(at) \in Thread /\ h(at).at = at /\ h(at).then = "idle"
      /\ h(at).on = IF at = "idle" THEN None ELSE c
  <2>1. CASE at = "idle"
    BY <2>1, IdleRecord
  <2>2. CASE at # "idle"
    <3>1. at \in OnStages
      BY <2>2 DEF OnStages
    <3>2. QED
      BY <2>2, <3>1, IdleRecord DEF Thread, OnStages
  <2>3. QED
    BY <2>1, <2>2
<1> HIDE DEF r, h
<1>7. UNCHANGED <<control, table, current, answers, fault>>
  BY DEF ReadDone
<1>8. Placed(w, h(at))
  BY <1>2, <1>6 DEF Placed, OnStages
<1>9. at = "idle" \/ (at \in {"deliver", "disconnect"} /\ conn[c].socket)
  BY <1>2
<1>10. Local(w, c, r(at), h(at))
  BY <1>1, <1>2, <1>5, <1>6, <1>8, <1>9 DEF Local, LocalThread, LocalConnection, OnStages
<1>11. QED
  BY <1>1, <1>3, <1>5, <1>6, <1>7, <1>10, HandlerStep

\* What the invariant says of a thread in the code of a connection.
LEMMA OnConnection ==
    ASSUME IInv, NEW t \in Threads, thread[t].at \in OnStages
    PROVE  /\ thread[t] \in Thread /\ thread[t].on \in Conns /\ thread[t].on # None
           /\ conn[thread[t].on] \in Connection /\ Placed(t, thread[t])
           /\ t \in Workers <=> t # "user"
           /\ conn = [conn EXCEPT ![thread[t].on] = conn[thread[t].on]]
           /\ conn[thread[t].on].admits => conn[thread[t].on].socket
           /\ conn[thread[t].on].socket => conn[thread[t].on].gone = 0
<1>1. /\ thread[t] \in Thread /\ thread[t].on \in Conns \cup {None}
      /\ Placed(t, thread[t]) /\ conn \in [Conns -> Connection] /\ Released
  BY DEF IInv, CommonInv, TypeOK, Thread
<1>2. thread[t].on \in Conns /\ thread[t].on # None
  BY <1>1, NoneAssumption DEF Placed
<1>3. t \in Workers <=> t # "user"
  BY NetworkAssumption DEF Threads
<1>4. QED
  BY <1>1, <1>2, <1>3 DEF Released

\* The invariant does not depend on the other variables.
LEMMA Irrelevant ==
    ASSUME IInv, TypeOK', UNCHANGED <<role, running, table, copy, current, starts, conn, thread>>
    PROVE  IInv'
<1>1. /\ role' = role /\ running' = running /\ table' = table /\ copy' = copy
      /\ current' = current /\ starts' = starts /\ conn' = conn /\ thread' = thread
  OBVIOUS
<1>2. Roles' /\ Released' /\ Counted' /\ \A t \in Threads : Placed(t, thread'[t])
  BY <1>1 DEF IInv, CommonInv, Roles, Released, Counted
<1>3. ServerInv => ServerInv'
  <2>1. Removing' <=> Removing
    BY <1>1 DEF Removing
  <2>2. Removal => Removal'
    BY <1>1, <2>1 DEF Removal
  <2>3. Reading => Reading'
    BY <1>1 DEF Reading
  <2>4. Announced => Announced'
    BY <1>1 DEF Announced
  <2>5. Listed => Listed'
    <3>1. /\ table' = table /\ table \subseteq Conns /\ \A c \in Conns : conn'[c] = conn[c]
          /\ \A t \in Threads : thread'[t] = thread[t]
      BY <1>1 DEF IInv, CommonInv, TypeOK
    <3>2. QED
      BY <3>1 DEF Listed
  <2>6. Accepting => Accepting'
    BY <1>1 DEF Accepting, Untouched
  <2>7. Unshared => Unshared'
    BY <1>1 DEF Unshared, Alone
  <2>8. QED
    BY <2>2, <2>3, <2>4, <2>5, <2>6, <2>7 DEF ServerInv
<1>4. QED
  BY <1>1, <1>2, <1>3 DEF IInv, CommonInv

\* The delivery of what was read preserves the invariant.
LEMMA DeliverIInv ==
    ASSUME IInv, NEW w \in Workers, Deliver(w) PROVE IInv'
<1> DEFINE c == thread[w].on
           h(at) == [thread[w] EXCEPT !.at = at, !.holds = TRUE]
<1>1. w \in Threads /\ thread[w].at = "deliver" /\ thread[w].at \in OnStages
  BY DEF Deliver, At, Threads, OnStages
<1>2. /\ thread[w] \in Thread /\ c \in Conns /\ c # None
      /\ conn[c] \in Connection /\ Placed(w, thread[w]) /\ w # "user"
      /\ conn = [conn EXCEPT ![c] = conn[c]]
      /\ conn[c].admits => conn[c].socket
  BY <1>1, OnConnection
<1>3. CASE Alive(c)
  <2>1. PICK at \in {"receiving", "disconnect"} : thread' = [thread EXCEPT ![w] = h(at)]
    BY <1>3 DEF Deliver
  <2>2. /\ h(at) \in Thread /\ h(at).at = at /\ h(at).on = c /\ h(at).then = thread[w].then
    BY <1>2 DEF Thread
  <2> HIDE DEF h, c
  <2>3. Placed(w, h(at))
    BY <1>1, <1>2, <2>2 DEF Placed, OnStages
  <2>4. Local(w, c, conn[c], h(at))
    BY <1>1, <1>2, <2>2, <2>3 DEF Local, LocalThread, LocalConnection, OnStages, c
  <2>5. conn' = [conn EXCEPT ![c] = conn[c]] /\ UNCHANGED <<control, table, current, answers, fault>>
    BY <1>2, <1>3 DEF Deliver, c
  <2>6. QED
    BY <1>1, <1>2, <2>1, <2>2, <2>4, <2>5, HandlerStep
<1>4. CASE ~Alive(c)
  <2>1. fault' = "destroyed" /\ UNCHANGED <<control, table, current, answers, conn, thread>>
    BY <1>4 DEF Deliver
  <2>2. TypeOK' /\ UNCHANGED <<role, running, table, copy, current, starts, conn, thread>>
    BY <2>1 DEF IInv, CommonInv, TypeOK, control
  <2>3. QED
    BY <2>2, Irrelevant
<1>5. QED
  BY <1>3, <1>4

\* What a callback leaves of the connection and of the thread.
CallbackLeaves(t, c, r, s, h) ==
    /\ conn' = [conn EXCEPT ![c] = s] /\ thread' = [thread EXCEPT ![t] = h]
    /\ s.op = r.op /\ s.read = r.read /\ s.socket = r.socket /\ s.admits = r.admits
    /\ s.announced = r.announced /\ s.gone = r.gone
    /\ s.shared <=> r.shared \/ \E u \in Threads \ {t} : thread[u].on = c
    /\ h.at \in {"disconnect", "receiving"} /\ h.on = c /\ h.holds /\ h.then = "receiving"
    /\ h.call = thread[t].call

LEMMA CallbackRecords ==
    ASSUME NEW t \in Threads, NEW c \in Conns, NEW r \in Connection, thread[t] \in Thread,
           AppCallback(t, c, r)
    PROVE  \E s \in Connection, h \in Thread : CallbackLeaves(t, c, r, s, h)
<1> DEFINE e == Enter(t, c, r)
           kept(keep) == [e EXCEPT !.held = keep]
           g(does) == [thread[t] EXCEPT !.at = IF does = "disconnect" THEN "disconnect"
                                                                      ELSE "receiving",
                                        !.on = c, !.holds = TRUE, !.then = "receiving"]
<1>1. PICK keep \in BOOLEAN, does \in {"nothing", "send", "disconnect"} :
         /\ conn' = [conn EXCEPT ![c] = CASE does = "nothing" -> kept(keep)
                                          [] does = "send" -> commit(kept(keep))
                                          [] does = "disconnect" -> kept(keep)]
         /\ thread' = [thread EXCEPT ![t] = g(does)]
  BY DEF AppCallback
<1>2. /\ e \in Connection
      /\ e.op = r.op /\ e.read = r.read /\ e.socket = r.socket /\ e.admits = r.admits
      /\ e.announced = r.announced /\ e.gone = r.gone
      /\ e.shared <=> r.shared \/ \E u \in Threads \ {t} : thread[u].on = c
  BY EnterRecord
<1> HIDE DEF e
<1>3. /\ kept(keep) \in Connection
      /\ kept(keep).op = r.op /\ kept(keep).read = r.read /\ kept(keep).socket = r.socket
      /\ kept(keep).admits = r.admits
      /\ kept(keep).announced = r.announced /\ kept(keep).gone = r.gone
      /\ kept(keep).shared = e.shared
  BY <1>2 DEF Connection
<1> HIDE DEF kept
<1> DEFINE b == kept(keep).write \/ (kept(keep).socket /\ kept(keep).served)
           sent == commit(kept(keep))
<1>4. b \in BOOLEAN
  OBVIOUS
<1>5. sent = [kept(keep) EXCEPT !.write = b]
  BY DEF commit
<1> HIDE DEF b, sent
<1>6. /\ sent \in Connection
      /\ sent.op = r.op /\ sent.read = r.read /\ sent.socket = r.socket
      /\ sent.admits = r.admits
      /\ sent.announced = r.announced /\ sent.gone = r.gone
      /\ sent.shared = e.shared
  BY <1>3, <1>4, <1>5 DEF Connection
<1>7. /\ g(does) \in Thread /\ g(does).at \in {"disconnect", "receiving"} /\ g(does).on = c
      /\ g(does).holds /\ g(does).then = "receiving" /\ g(does).call = thread[t].call
  BY DEF Thread
<1> HIDE DEF g
<1> DEFINE s == CASE does = "nothing" -> kept(keep)
                  [] does = "send" -> sent
                  [] does = "disconnect" -> kept(keep)
<1>8. s = kept(keep) \/ s = sent
  OBVIOUS
<1>9. conn' = [conn EXCEPT ![c] = s]
  BY <1>1 DEF sent
<1> HIDE DEF s
<1>10. s \in Connection /\ CallbackLeaves(t, c, r, s, g(does))
  BY <1>1, <1>2, <1>3, <1>6, <1>7, <1>8, <1>9 DEF CallbackLeaves
<1>11. QED
  BY <1>7, <1>10

\* The receive observers preserve the invariant.
LEMMA ReceiveIInv ==
    ASSUME IInv, NEW w \in Workers, Receive(w) PROVE IInv'
<1> DEFINE c == thread[w].on
<1>1. w \in Threads /\ thread[w].at = "receiving" /\ thread[w].at \in OnStages
  BY DEF Receive, At, Threads, OnStages
<1>2. /\ thread[w] \in Thread /\ c \in Conns /\ c # None
      /\ conn[c] \in Connection /\ Placed(w, thread[w]) /\ w # "user"
      /\ conn[c].admits => conn[c].socket
  BY <1>1, OnConnection
<1>3. PICK s \in Connection, h \in Thread : CallbackLeaves(w, c, conn[c], s, h)
  BY <1>1, <1>2, CallbackRecords DEF Receive
<1> HIDE DEF c
<1>4. Placed(w, h)
  BY <1>1, <1>2, <1>3 DEF CallbackLeaves, Placed, OnStages
<1>5. Local(w, c, s, h)
  <2>1. LocalThread(w, c, h)
    BY <1>1, <1>2, <1>3, <1>4 DEF CallbackLeaves, LocalThread, OnStages, c
  <2>2. LocalConnection(w, c, s)
    BY <1>1, <1>2, <1>3 DEF CallbackLeaves, LocalConnection, c
  <2>3. QED
    BY <1>1, <1>2, <1>3, <2>1, <2>2 DEF CallbackLeaves, Local, c
<1>6. QED
  BY <1>1, <1>2, <1>3, <1>5, HandlerStep DEF Receive, CallbackLeaves

\* The next read preserves the invariant.
LEMMA ReadOnIInv ==
    ASSUME IInv, NEW w \in Workers, ReadOn(w) PROVE IInv'
<1> DEFINE c == thread[w].on
           b == conn[c].socket /\ conn[c].served
           r == [conn[c] EXCEPT !.read = b]
<1>1. w \in Threads /\ thread[w].at = "receiving" /\ thread[w].at \in OnStages
  BY DEF ReadOn, At, Threads, OnStages
<1>2. /\ thread[w] \in Thread /\ c \in Conns /\ c # None
      /\ conn[c] \in Connection /\ Placed(w, thread[w]) /\ w # "user"
      /\ conn[c].admits => conn[c].socket
  BY <1>1, OnConnection
<1>3. conn' = [conn EXCEPT ![c] = r] /\ thread' = [thread EXCEPT ![w] = Idle]
  BY DEF ReadOn, async_read
<1>4. b \in BOOLEAN
  OBVIOUS
<1> HIDE DEF b, c
<1>5. /\ r \in Connection
      /\ r.op = conn[c].op /\ r.announced = conn[c].announced /\ r.gone = conn[c].gone
      /\ r.admits = conn[c].admits /\ r.socket = conn[c].socket /\ r.shared = conn[c].shared
  BY <1>2, <1>4 DEF Connection
<1> HIDE DEF r
<1>6. Placed(w, Idle)
  BY IdleRecord DEF Placed, OnStages
<1>7. Local(w, c, r, Idle)
  BY <1>1, <1>2, <1>5, <1>6, IdleRecord DEF Local, LocalThread, LocalConnection, c
<1>8. QED
  BY <1>1, <1>2, <1>3, <1>5, <1>7, IdleRecord, HandlerStep DEF ReadOn

\* The completion of a write preserves the invariant.
LEMMA WriteDoneIInv ==
    ASSUME IInv, NEW w \in Workers, NEW c \in Conns, WriteDone(w, c) PROVE IInv'
<1>1. /\ w \in Threads /\ w # "user" /\ running /\ thread[w] \in Thread
      /\ thread[w].at = "idle" /\ thread[w].on = None /\ thread[w].then = "idle"
  BY ReadyWorker DEF WriteDone
<1>2. conn[c] \in Connection /\ conn[c].write /\ None \notin Conns
      /\ (conn[c].admits => conn[c].socket)
  BY NoneAssumption DEF WriteDone, IInv, CommonInv, TypeOK, Released
<1> DEFINE q == [conn[c] EXCEPT !.write = FALSE]
           r(failed) == IF failed THEN Enter(w, c, q) ELSE q
           h(failed) == IF failed THEN [Idle EXCEPT !.at = "disconnect", !.on = c] ELSE Idle
<1>3. PICK failed \in BOOLEAN :
         conn' = [conn EXCEPT ![c] = r(failed)] /\ thread' = [thread EXCEPT ![w] = h(failed)]
  BY DEF WriteDone
<1>4. /\ q \in Connection /\ q.read = conn[c].read
      /\ q.op = conn[c].op /\ q.announced = conn[c].announced /\ q.gone = conn[c].gone
      /\ q.admits = conn[c].admits /\ q.socket = conn[c].socket /\ q.shared = conn[c].shared
  BY <1>2 DEF Connection
<1> HIDE DEF q
<1>5. /\ r(failed) \in Connection /\ r(failed).read = conn[c].read
      /\ r(failed).op = conn[c].op /\ r(failed).announced = conn[c].announced
      /\ r(failed).gone = conn[c].gone
      /\ r(failed).admits = conn[c].admits /\ r(failed).socket = conn[c].socket
      /\ conn[c].shared => r(failed).shared
      /\ failed => r(failed).shared \/ \A u \in Threads \ {w} : thread[u].on # c
  <2>1. CASE failed
    BY <1>1, <1>4, <2>1, EnterRecord
  <2>2. CASE ~failed
    BY <1>4, <2>2
  <2>3. QED
    BY <2>1, <2>2
<1>6. /\ h(failed) \in Thread /\ h(failed).at = (IF failed THEN "disconnect" ELSE "idle")
      /\ h(failed).then = "idle" /\ h(failed).on = IF failed THEN c ELSE None
  <2>1. CASE failed
    BY <2>1, IdleRecord DEF Thread
  <2>2. CASE ~failed
    BY <2>2, IdleRecord
  <2>3. QED
    BY <2>1, <2>2
<1> HIDE DEF r, h
<1>7. UNCHANGED <<control, table, current, answers, fault>>
  BY DEF WriteDone
<1>8. Placed(w, h(failed))
  BY <1>2, <1>6 DEF Placed, OnStages
<1>9. Local(w, c, r(failed), h(failed))
  BY <1>1, <1>2, <1>5, <1>6, <1>8 DEF Local, LocalThread, LocalConnection, OnStages
<1>10. QED
  BY <1>1, <1>3, <1>5, <1>6, <1>7, <1>9, HandlerStep

\* disconnect() called by the application in a handler of its own, or send().
LEMMA PostIInv ==
    ASSUME IInv, NEW w \in Workers, NEW c \in Conns, Post(w, c) PROVE IInv'
<1>1. /\ w \in Threads /\ w # "user" /\ running /\ thread[w] \in Thread
      /\ thread[w].at = "idle" /\ thread[w].on = None /\ thread[w].then = "idle"
  BY ReadyWorker DEF Post
<1>2. /\ conn[c] \in Connection /\ conn[c].held /\ None \notin Conns
      /\ conn[c].admits => conn[c].socket
      /\ thread = [thread EXCEPT ![w] = thread[w]]
      /\ Placed(w, thread[w])
  BY <1>1, NoneAssumption DEF Post, IInv, CommonInv, TypeOK, Released
<1>3. UNCHANGED <<control, table, current, answers, fault>>
  BY DEF Post
<1>4. CASE conn' = [conn EXCEPT ![c] = commit(@)] /\ UNCHANGED thread
  <2> DEFINE b == conn[c].write \/ (conn[c].socket /\ conn[c].served)
             r == [conn[c] EXCEPT !.write = b]
  <2>1. conn' = [conn EXCEPT ![c] = r] /\ thread' = [thread EXCEPT ![w] = thread[w]]
    BY <1>2, <1>4 DEF commit
  <2>2. b \in BOOLEAN
    OBVIOUS
  <2> HIDE DEF b
  <2>3. /\ r \in Connection /\ r.read = conn[c].read
        /\ r.op = conn[c].op /\ r.announced = conn[c].announced /\ r.gone = conn[c].gone
        /\ r.admits = conn[c].admits /\ r.socket = conn[c].socket /\ r.shared = conn[c].shared
    BY <1>2, <2>2 DEF Connection
  <2> HIDE DEF r
  <2>4. Local(w, c, r, thread[w])
    BY <1>1, <1>2, <2>3 DEF Local, LocalThread, LocalConnection
  <2>5. QED
    BY <1>1, <1>3, <2>1, <2>3, <2>4, HandlerStep
<1>5. CASE /\ conn' = [conn EXCEPT ![c] = Enter(w, c, @)]
           /\ thread' = [thread EXCEPT ![w] = [Idle EXCEPT !.at = "disconnect", !.on = c,
                                                           !.holds = TRUE]]
  <2> DEFINE r == Enter(w, c, conn[c])
             h == [Idle EXCEPT !.at = "disconnect", !.on = c, !.holds = TRUE]
  <2>1. conn' = [conn EXCEPT ![c] = r] /\ thread' = [thread EXCEPT ![w] = h]
    BY <1>5
  <2>2. h \in Thread /\ h.at = "disconnect" /\ h.on = c /\ h.then = "idle"
    BY IdleRecord DEF Thread
  <2>3. /\ r \in Connection /\ r.read = conn[c].read
        /\ r.op = conn[c].op /\ r.announced = conn[c].announced /\ r.gone = conn[c].gone
        /\ r.admits = conn[c].admits /\ r.socket = conn[c].socket
        /\ conn[c].shared => r.shared
        /\ r.shared \/ \A u \in Threads \ {w} : thread[u].on # c
    BY <1>1, <1>2, EnterRecord
  <2> HIDE DEF r, h
  <2>4. Placed(w, h)
    BY <1>2, <2>2 DEF Placed, OnStages
  <2>5. Local(w, c, r, h)
    BY <1>1, <1>2, <2>2, <2>3, <2>4 DEF Local, LocalThread, LocalConnection, OnStages
  <2>6. QED
    BY <1>1, <1>3, <2>1, <2>2, <2>3, <2>5, HandlerStep
<1>6. QED
  BY <1>4, <1>5 DEF Post

\* Where a thread goes on after disconnect().
LEMMA ReturnRecord ==
    ASSUME IInv, NEW t \in Threads, thread[t].at \in OnStages
    PROVE  /\ Return(t) \in Thread /\ Placed(t, Return(t)) /\ Return(t).call = thread[t].call
           /\ Return(t).at = thread[t].then
           /\ IF thread[t].then = "receiving"
              THEN Return(t).on = thread[t].on /\ Return(t).then = "receiving"
              ELSE Return(t).on = None /\ Return(t).then = "idle"
<1>1. /\ thread[t] \in Thread /\ thread[t].on # None
      /\ Placed(t, thread[t]) /\ (t \in Workers <=> t # "user")
  BY OnConnection
<1>2. CASE thread[t].then = "receiving"
  <2>1. /\ Return(t) \in Thread /\ Return(t).at = "receiving" /\ Return(t).on = thread[t].on
        /\ Return(t).then = "receiving" /\ Return(t).call = thread[t].call
    BY <1>1, <1>2 DEF Return, Thread
  <2>2. QED
    BY <1>1, <1>2, <2>1 DEF Placed, OnStages
<1>3. CASE thread[t].then # "receiving"
  <2>1. /\ Return(t) \in Thread /\ Return(t).at = thread[t].then /\ Return(t).on = None
        /\ Return(t).then = "idle" /\ Return(t).call = thread[t].call
    BY <1>1, <1>3, IdleRecord DEF Return, Thread
  <2>2. thread[t].then \in {"idle", "removal", "forget"}
    BY <1>1, <1>3 DEF Thread
  <2>3. QED
    BY <1>1, <1>3, <2>1, <2>2 DEF Placed, OnStages
<1>4. QED
  BY <1>2, <1>3

\* disconnect() preserves the invariant.  stop() finds no connection of the
\* table without its socket: nobody else is about to take one off.
LEMMA DisconnectIInv ==
    ASSUME IInv, NEW t \in Threads, Disconnect(t) PROVE IInv'
<1> DEFINE c == thread[t].on
<1>1. thread[t].at = "disconnect" /\ thread[t].at \in OnStages
  BY DEF Disconnect, At, OnStages
<1>2. /\ thread[t] \in Thread /\ c \in Conns /\ c # None
      /\ conn[c] \in Connection /\ Placed(t, thread[t])
      /\ t \in Workers <=> t # "user"
      /\ conn = [conn EXCEPT ![c] = conn[c]]
      /\ conn[c].admits => conn[c].socket
      /\ conn[c].socket => conn[c].gone = 0
  BY <1>1, OnConnection
<1>3. UNCHANGED <<control, table, current, answers, fault>>
  BY DEF Disconnect
<1>4. CASE conn[c].socket
  <2> DEFINE r == [conn[c] EXCEPT !.admits = FALSE]
             h == [thread[t] EXCEPT !.at = "release"]
  <2>1. conn' = [conn EXCEPT ![c] = r] /\ thread' = [thread EXCEPT ![t] = h]
    BY <1>4 DEF Disconnect
  <2>2. /\ h \in Thread /\ h.at = "release" /\ h.on = c /\ h.then = thread[t].then
        /\ h.call = thread[t].call
    BY <1>2 DEF Thread
  <2>3. /\ r \in Connection /\ r.read = conn[c].read
        /\ r.op = conn[c].op /\ r.announced = conn[c].announced /\ r.gone = conn[c].gone
        /\ ~r.admits /\ r.socket = conn[c].socket /\ r.shared = conn[c].shared
    BY <1>2 DEF Connection
  <2> HIDE DEF r, h
  <2>4. Placed(t, h)
    BY <1>1, <1>2, <2>2 DEF Placed, OnStages
  <2>5. Local(t, c, r, h)
    BY <1>1, <1>2, <1>4, <2>2, <2>3, <2>4 DEF Local, LocalThread, LocalConnection, OnStages
  <2>6. QED
    BY <1>2, <1>3, <2>1, <2>2, <2>3, <2>5, HandlerStep
<1>5. CASE ~conn[c].socket
  <2>1. conn' = [conn EXCEPT ![c] = conn[c]] /\ thread' = [thread EXCEPT ![t] = Return(t)]
    BY <1>2, <1>5 DEF Disconnect
  <2>2. /\ Return(t) \in Thread /\ Placed(t, Return(t)) /\ Return(t).call = thread[t].call
        /\ Return(t).at = thread[t].then
        /\ IF thread[t].then = "receiving" THEN Return(t).on = c /\ Return(t).then = "receiving"
           ELSE Return(t).on = None /\ Return(t).then = "idle"
    BY <1>1, ReturnRecord
  <2>3. ASSUME t = "user", role = "server" PROVE c \notin table
    <3>1. thread[t].then = "removal"
      BY <1>1, <1>2, <2>3 DEF Placed, IInv, CommonInv, Roles
    <3>2. \A u \in Threads : u # t => thread[u].at = "idle"
      BY <2>3, <3>1 DEF IInv, ServerInv, Removal, Removing, Threads
    <3>3. QED
      BY <1>1, <1>5, <2>3, <3>2 DEF IInv, ServerInv, Listed
  <2> HIDE DEF c
  <2>4. LocalThread(t, c, Return(t))
    BY <1>1, <1>2, <2>2, <2>3 DEF LocalThread, Placed, OnStages, c
  <2>5. LocalConnection(t, c, conn[c])
    BY <1>2 DEF LocalConnection, c
  <2>6. Local(t, c, conn[c], Return(t))
    BY <1>1, <1>2, <2>2, <2>4, <2>5 DEF Local, Placed, OnStages, c
  <2>7. QED
    BY <1>2, <1>3, <2>1, <2>2, <2>6, HandlerStep
<1>6. QED
  BY <1>4, <1>5

\* The release of the socket preserves the invariant.
LEMMA ReleaseIInv ==
    ASSUME IInv, NEW t \in Threads, Release(t) PROVE IInv'
<1> DEFINE c == thread[t].on
           at == IF conn[c].socket THEN "notify" ELSE "notifyNull"
           r == [conn[c] EXCEPT !.socket = FALSE]
           h == [thread[t] EXCEPT !.at = at]
<1>1. thread[t].at = "release" /\ thread[t].at \in OnStages
  BY DEF Release, At, OnStages
<1>2. /\ thread[t] \in Thread /\ c \in Conns /\ c # None
      /\ conn[c] \in Connection /\ Placed(t, thread[t])
      /\ t \in Workers <=> t # "user"
      /\ conn[c].socket => conn[c].gone = 0
  BY <1>1, OnConnection
<1>3. UNCHANGED <<control, table, current, answers, fault>>
  BY DEF Release
<1>4. conn' = [conn EXCEPT ![c] = r] /\ thread' = [thread EXCEPT ![t] = h]
  BY DEF Release
<1>5. ~conn[c].admits
  BY <1>1 DEF IInv, CommonInv, Released
<1>6. role = "server" /\ ~conn[c].shared => conn[c].socket
  BY <1>1, <1>2 DEF IInv, ServerInv, Unshared, Alone
<1>7. at \in {"notify", "notifyNull"} /\ (at = "notify" <=> conn[c].socket)
  OBVIOUS
<1> HIDE DEF at
<1>8. /\ h \in Thread /\ h.at = at /\ h.on = c /\ h.then = thread[t].then
      /\ h.call = thread[t].call
  BY <1>2, <1>7 DEF Thread
<1>9. /\ r \in Connection /\ r.read = conn[c].read
      /\ r.op = conn[c].op /\ r.announced = conn[c].announced /\ r.gone = conn[c].gone
      /\ ~r.admits /\ ~r.socket /\ r.shared = conn[c].shared
  BY <1>2, <1>5 DEF Connection
<1> HIDE DEF r, h
<1>10. Placed(t, h)
  BY <1>1, <1>2, <1>7, <1>8 DEF Placed, OnStages
<1>11. Local(t, c, r, h)
  BY <1>1, <1>2, <1>6, <1>7, <1>8, <1>9, <1>10 DEF Local, LocalThread, LocalConnection, OnStages
<1>12. QED
  BY <1>2, <1>3, <1>4, <1>8, <1>9, <1>11, HandlerStep

\* A step that leaves the threads alone and changes, of a connection, at most
\* its timer, or takes it out of the application's hands.
Same(q, r) ==
    /\ r.op = q.op /\ r.read = q.read /\ r.write = q.write /\ r.socket = q.socket
    /\ r.admits = q.admits /\ r.announced = q.announced /\ r.gone = q.gone
    /\ r.shared = q.shared /\ (r.held => q.held)

LEMMA ConnectionStep ==
    ASSUME IInv, NEW c \in Conns, NEW r \in Connection, conn' = [conn EXCEPT ![c] = r],
           UNCHANGED <<control, table, current, answers, thread>>,
           fault' \in {"none", "null socket", "destroyed"}, Same(conn[c], r)
    PROVE  IInv'
<1>1. /\ TypeOK' /\ role' = role /\ running' = running /\ table' = table /\ copy' = copy
      /\ current' = current /\ starts' = starts
  BY DEF IInv, CommonInv, TypeOK, control
<1>2. /\ conn'[c] = r /\ \A d \in Conns : d # c => conn'[d] = conn[d]
      /\ \A t \in Threads : thread'[t] = thread[t]
      /\ table \subseteq Conns /\ "user" \in Threads /\ Workers \subseteq Threads
  BY DEF IInv, CommonInv, TypeOK, Threads
<1>3. \A t \in Threads : /\ Placed(t, thread'[t]) /\ Placed(t, thread[t])
                         /\ thread[t].on \in Conns \cup {None}
  BY <1>2 DEF IInv, CommonInv, TypeOK, Thread
<1>4. Roles'
  <2>1. \A d \in Conns : conn'[d].op = conn[d].op
    BY <1>2 DEF Same
  <2>2. QED
    BY <1>1, <1>2, <2>1 DEF IInv, CommonInv, Roles
<1>5. Released'
  <2>1. ASSUME NEW d \in Conns
        PROVE  /\ conn'[d].admits => conn'[d].socket /\ conn[d].admits
               /\ conn'[d].socket => conn'[d].gone = 0 /\ conn[d].socket
    <3>1. conn'[d] = r \/ conn'[d] = conn[d]
      BY <1>2
    <3>2. CASE conn'[d] = conn[d]
      BY <3>2 DEF IInv, CommonInv, Released
    <3>3. CASE d = c
      BY <1>2, <3>3 DEF IInv, CommonInv, Released, Same
    <3>4. QED
      BY <1>2, <3>2, <3>3
  <2>2. QED
    BY <1>2, <1>3, <2>1 DEF IInv, CommonInv, Released, Placed, OnStages
<1>6. ASSUME role = "server" PROVE ServerInv'
  <2>1. ServerInv
    BY <1>6 DEF IInv
  <2>2. Removal'
    BY <1>1, <1>2, <2>1 DEF ServerInv, Removal, Removing, Same
  <2>3. Accepting'
    <3>1. ASSUME NEW d \in Conns, conn'[d].op # "none" PROVE Untouched(d, {})'
      <4>1. Untouched(d, {})
        BY <1>2, <2>1, <3>1 DEF ServerInv, Accepting, Same
      <4>2. QED
        BY <1>1, <1>2, <4>1 DEF Untouched, Same
    <3>2. ASSUME NEW u \in Threads, thread'[u].at = "client" PROVE Untouched(thread[u].on, {u})'
      <4>1. Untouched(thread[u].on, {u}) /\ thread[u].on \in Conns
        BY <1>2, <1>3, <2>1, <3>2 DEF ServerInv, Accepting, Placed, OnStages
      <4>2. QED
        BY <1>1, <1>2, <4>1 DEF Untouched, Same
    <3>3. QED
      BY <3>1, <3>2 DEF Accepting
  <2>4. Listed'
    BY <1>1, <1>2, <2>1 DEF ServerInv, Listed, Same
  <2>5. Reading'
    <3>1. \A d \in Conns : /\ conn'[d].read /\ conn'[d].socket => d \in table
                           /\ conn'[d].socket => conn[d].socket
      BY <1>1, <1>2, <2>1 DEF ServerInv, Reading, Same
    <3>2. ASSUME NEW u \in Threads, conn'[thread'[u].on].socket,
                 thread'[u].at \in {"deliver", "receiving"} \/ thread'[u].then = "receiving"
          PROVE  thread'[u].on \in table
      <4>1. thread'[u] = thread[u]
        BY <1>2
      <4>2. thread[u].on \in Conns
        BY <1>3, <3>2, <4>1 DEF Placed, OnStages
      <4>3. conn[thread[u].on].socket
        BY <3>1, <3>2, <4>1, <4>2
      <4>4. QED
        BY <2>1, <3>2, <4>1, <4>3 DEF ServerInv, Reading
    <3>3. QED
      BY <1>1, <3>1, <3>2 DEF Reading
  <2>6. Announced'
    <3>1. ASSUME NEW d \in Conns, conn'[d].announced, conn'[d].gone = 0
          PROVE  conn[d].announced /\ conn[d].gone = 0
      <4>1. CASE d = c
        BY <1>2, <3>1, <4>1 DEF Same
      <4>2. CASE d # c
        BY <1>2, <3>1, <4>2
      <4>3. QED
        BY <4>1, <4>2
    <3>2. QED
      BY <1>1, <1>2, <2>1, <3>1 DEF ServerInv, Announced
  <2>7. Unshared'
    <3>1. ASSUME NEW d \in Conns, ~conn'[d].shared PROVE Alone(d)'
      <4>1. Alone(d) /\ conn'[d].gone = conn[d].gone /\ conn'[d].socket = conn[d].socket
        BY <1>2, <2>1, <3>1 DEF ServerInv, Unshared, Same
      <4>2. QED
        BY <1>2, <4>1 DEF Alone
    <3>2. QED
      BY <3>1 DEF Unshared
  <2>8. QED
    BY <2>2, <2>3, <2>4, <2>5, <2>6, <2>7 DEF ServerInv
<1>7. Counted'
  BY <1>1, <1>2 DEF IInv, CommonInv, Counted
<1>8. QED
  BY <1>1, <1>3, <1>4, <1>5, <1>6, <1>7 DEF IInv, CommonInv

\* The timer of a connection and the application's release of it.
LEMMA TimerIInv ==
    ASSUME IInv, NEW c \in Conns,
           TimerExpires(c) \/ AppRelease(c) \/ \E w \in Workers : TimerFires(w, c)
    PROVE  IInv'
<1>1. conn[c] \in Connection /\ fault \in {"none", "null socket", "destroyed"}
  BY DEF IInv, CommonInv, TypeOK
<1>2. CASE TimerExpires(c)
  <2> DEFINE r == [conn[c] EXCEPT !.timer = "queued"]
  <2>1. r \in Connection /\ Same(conn[c], r)
    BY <1>1 DEF Connection, Same
  <2>2. conn' = [conn EXCEPT ![c] = r]
    BY <1>2 DEF TimerExpires
  <2> HIDE DEF r
  <2>3. QED
    BY <1>1, <1>2, <2>1, <2>2, ConnectionStep DEF TimerExpires
<1>3. CASE AppRelease(c)
  <2> DEFINE r == [conn[c] EXCEPT !.held = FALSE]
  <2>1. r \in Connection /\ Same(conn[c], r)
    BY <1>1 DEF Connection, Same
  <2>2. conn' = [conn EXCEPT ![c] = r]
    BY <1>3 DEF AppRelease
  <2> HIDE DEF r
  <2>3. QED
    BY <1>1, <1>3, <2>1, <2>2, ConnectionStep DEF AppRelease
<1>4. ASSUME NEW w \in Workers, TimerFires(w, c) PROVE IInv'
  <2> DEFINE r == [conn[c] EXCEPT !.timer = "off"]
  <2>1. r \in Connection /\ Same(conn[c], r)
    BY <1>1 DEF Connection, Same
  <2>2. conn' = [conn EXCEPT ![c] = r]
    BY <1>4 DEF TimerFires
  <2> HIDE DEF r
  <2>3. QED
    BY <1>1, <1>4, <2>1, <2>2, ConnectionStep DEF TimerFires
<1>5. QED
  BY <1>2, <1>3, <1>4

\* The disconnect observers preserve the invariant: a listed connection is
\* alive, so it is taken off the table and counted.
LEMMA NotifyIInv ==
    ASSUME IInv, NEW t \in Threads, NotifyDisconnect(t) PROVE IInv'
<1> DEFINE c == thread[t].on
           g == IF conn[c].gone < 2 THEN conn[c].gone + 1 ELSE conn[c].gone
           r == IF Alive(c) THEN [conn[c] EXCEPT !.gone = g] ELSE conn[c]
           h == Return(t)
<1>1. thread[t].at \in {"notify", "notifyNull"} /\ thread[t].at \in OnStages
  BY DEF NotifyDisconnect, At, OnStages
<1>2. /\ thread[t] \in Thread /\ c \in Conns /\ c # None
      /\ conn[c] \in Connection /\ Placed(t, thread[t])
      /\ t \in Workers <=> t # "user"
      /\ conn = [conn EXCEPT ![c] = conn[c]]
  BY <1>1, OnConnection
<1>3. /\ h \in Thread /\ Placed(t, h) /\ h.call = thread[t].call /\ h.at = thread[t].then
      /\ IF thread[t].then = "receiving" THEN h.on = c /\ h.then = "receiving"
         ELSE h.on = None /\ h.then = "idle"
  BY <1>1, ReturnRecord
<1>4. /\ conn' = [conn EXCEPT ![c] = r] /\ thread' = [thread EXCEPT ![t] = h]
      /\ table' = table \ {c} /\ current' \in {current, None}
      /\ UNCHANGED <<control, answers>> /\ fault' \in {fault, "null socket"}
  <2>1. thread' = [thread EXCEPT ![t] = h] /\ fault' \in {fault, "null socket"}
    BY DEF NotifyDisconnect
  <2>2. CASE Alive(c)
    BY <2>1, <2>2 DEF NotifyDisconnect, on_diconnected, on_client_disconnected, on_diconnect_impl
  <2>3. CASE ~Alive(c)
    <3>1. UNCHANGED <<conn, table, current>>
      BY <2>3 DEF NotifyDisconnect
    <3>2. c \notin table
      BY <2>3 DEF Alive
    <3>3. QED
      BY <1>2, <2>1, <2>3, <3>1, <3>2 DEF NotifyDisconnect
  <2>4. QED
    BY <2>2, <2>3
<1>5. /\ r \in Connection /\ r.read = conn[c].read
      /\ r.op = conn[c].op /\ r.announced = conn[c].announced
      /\ r.admits = conn[c].admits /\ r.socket = conn[c].socket /\ r.shared = conn[c].shared
      /\ r.gone <= conn[c].gone + 1 /\ conn[c].gone \in 0 .. 2
      /\ IF Alive(c) THEN r.gone > 0 ELSE r.gone = conn[c].gone
  <2>1. conn[c].gone \in 0 .. 2 /\ g \in 0 .. 2 /\ g > 0 /\ g <= conn[c].gone + 1
    BY <1>2 DEF Connection
  <2> HIDE DEF g
  <2>2. QED
    BY <1>2, <2>1 DEF Connection
<1>6. ~conn[c].socket
  BY <1>1 DEF IInv, CommonInv, Released
<1> HIDE DEF r, h
<1>7. TypeOK'
  BY <1>3, <1>4, <1>5 DEF IInv, CommonInv, TypeOK, control
<1>8. /\ conn'[c] = r /\ \A d \in Conns : d # c => conn'[d] = conn[d]
      /\ thread'[t] = h /\ \A u \in Threads : u # t => thread'[u] = thread[u]
      /\ role' = role /\ running' = running /\ copy' = copy /\ starts' = starts
      /\ table \subseteq Conns /\ table' = table \ {c} /\ current' \in {current, None}
  BY <1>2, <1>3, <1>4, <1>5 DEF IInv, CommonInv, TypeOK, control
<1>9. /\ "user" \in Threads /\ "user" \notin Workers /\ Threads = Workers \cup {"user"}
      /\ \A u \in Threads : Placed(u, thread[u]) /\ thread[u].on \in Conns \cup {None}
  BY NetworkAssumption DEF Threads, IInv, CommonInv, TypeOK, Thread
<1> HIDE DEF c
<1>10. \A u \in Threads : Placed(u, thread'[u])
  BY <1>3, <1>8, <1>9
<1>11. Roles'
  <2>1. \A d \in Conns : conn'[d].op = conn[d].op
    BY <1>5, <1>8
  <2>2. QED
    BY <1>1, <1>2, <1>3, <1>8, <1>9, <2>1 DEF IInv, CommonInv, Roles, Placed
<1>12. Released'
  BY <1>1, <1>2, <1>3, <1>5, <1>6, <1>8, <1>9
     DEF IInv, CommonInv, Released, Placed, OnStages
<1>13. ASSUME role = "server" PROVE ServerInv'
  <2>1. ServerInv
    BY <1>13 DEF IInv
  <2>2. Removal'
    <3>1. Removing' => Removing
      BY <1>3, <1>8, <1>9 DEF Removing
    <3>2. Removing => t = "user"
      BY <1>1, <1>2, <2>1 DEF ServerInv, Removal, OnStages
    <3>3. thread'["user"].at = "join" => ~running
      BY <1>2, <1>3, <1>8, <1>9, <2>1 DEF ServerInv, Removal, Placed
    <3>4. Removing' => /\ ~running
                       /\ \A w \in Workers : thread'[w].at = "idle"
                       /\ \A d \in Conns : ~conn'[d].read
      BY <1>2, <1>5, <1>8, <1>9, <2>1, <3>1, <3>2 DEF ServerInv, Removal
    <3>5. Removing' /\ thread'["user"].call = "remove" => table' \subseteq copy
      BY <1>3, <1>8, <2>1, <3>1, <3>2 DEF ServerInv, Removal, c
    <3>6. QED
      BY <1>8, <3>3, <3>4, <3>5 DEF Removal
  <2>3. Accepting'
    <3>1. conn[c].op = "none" /\ \A u \in Threads : thread[u].at = "client" => thread[u].on # c
      BY <1>2, <1>6, <2>1 DEF ServerInv, Accepting, Untouched
    <3>2. ASSUME NEW d \in Conns, conn'[d].op # "none" PROVE Untouched(d, {})'
      <4>1. d # c /\ Untouched(d, {})
        BY <1>5, <1>8, <2>1, <3>1, <3>2 DEF ServerInv, Accepting
      <4>2. QED
        BY <1>2, <1>3, <1>8, <4>1, NoneAssumption DEF Untouched
    <3>3. ASSUME NEW u \in Threads, thread'[u].at = "client" PROVE Untouched(thread[u].on, {u})'
      <4>1. u # t
        BY <1>2, <1>3, <1>8, <3>3 DEF Thread
      <4>2. thread'[u] = thread[u] /\ thread[u].at = "client"
        BY <1>8, <3>3, <4>1
      <4>3. thread[u].on \in Conns /\ thread[u].on # c /\ Untouched(thread[u].on, {u})
        BY <1>9, <2>1, <3>1, <4>2 DEF ServerInv, Accepting, Placed, OnStages
      <4>4. QED
        BY <1>2, <1>3, <1>8, <4>2, <4>3, NoneAssumption DEF Untouched
    <3>4. QED
      BY <3>2, <3>3 DEF Accepting
  <2>4. Listed'
    BY <1>2, <1>8, <1>9, <2>1 DEF ServerInv, Listed, c
  <2>5. Reading'
    <3>1. ASSUME NEW d \in Conns, conn'[d].read, conn'[d].socket PROVE d \in table'
      BY <1>5, <1>6, <1>8, <2>1, <3>1 DEF ServerInv, Reading
    <3>2. ASSUME NEW u \in Threads, conn'[thread'[u].on].socket,
                 thread'[u].at \in {"deliver", "receiving"} \/ thread'[u].then = "receiving"
          PROVE  thread'[u].on \in table'
      <4>1. u # t
        <5>1. SUFFICES ASSUME u = t PROVE FALSE
          OBVIOUS
        <5>2. thread[t].then = "receiving"
          BY <1>2, <1>3, <1>8, <3>2, <5>1 DEF Thread
        <5>3. QED
          BY <1>2, <1>3, <1>5, <1>6, <1>8, <3>2, <5>1, <5>2
      <4>2. thread'[u] = thread[u] /\ thread[u].on \in Conns
        BY <1>8, <1>9, <3>2, <4>1 DEF Placed, OnStages
      <4>3. thread[u].on # c
        BY <1>5, <1>6, <1>8, <3>2, <4>2
      <4>4. QED
        BY <1>8, <2>1, <3>2, <4>2, <4>3 DEF ServerInv, Reading
    <3>3. QED
      BY <3>1, <3>2 DEF Reading
  <2>6. Announced'
    <3>1. running' \/ thread'["user"].at # "idle" => running \/ thread["user"].at # "idle"
      BY <1>1, <1>8, <1>9
    <3>2. Alive(c) \/ c \notin table
      BY DEF Alive
    <3>3. QED
      BY <1>2, <1>5, <1>8, <2>1, <3>1, <3>2 DEF ServerInv, Announced
  <2>7. Unshared'
    <3>1. ASSUME NEW d \in Conns \ {c}, ~conn[d].shared PROVE Alone(d)'
      BY <1>2, <1>3, <1>8, <1>9, <2>1, <3>1, NoneAssumption DEF ServerInv, Unshared, Alone
    <3>2. ASSUME NEW d \in Conns, d = c, ~r.shared PROVE Alone(d)'
      <4>1. Alone(d)
        BY <1>2, <1>5, <2>1, <3>2 DEF ServerInv, Unshared
      <4>2. thread[t].at = "notify" /\ conn[c].gone = 0
        BY <1>1, <3>2, <4>1 DEF Alone, c
      <4>3. h.at \notin {"deliver", "release", "notify", "notifyNull"}
        BY <1>2, <1>3 DEF Thread
      <4>4. conn'[d].gone <= 1
        BY <1>2, <1>5, <1>8, <3>2, <4>2
      <4>5. \A u \in Threads : thread'[u].on = d => u = t
        BY <1>8, <3>2, <4>1 DEF Alone, c
      <4>6. QED
        BY <1>8, <4>3, <4>4, <4>5 DEF Alone
    <3>3. QED
      BY <1>8, <3>1, <3>2 DEF Unshared
  <2>8. QED
    BY <2>2, <2>3, <2>4, <2>5, <2>6, <2>7 DEF ServerInv
<1>14. Counted'
  BY <1>3, <1>8, <1>9 DEF IInv, CommonInv, Counted
<1>15. QED
  BY <1>7, <1>8, <1>10, <1>11, <1>12, <1>13, <1>14 DEF IInv, CommonInv

(***************************************************************************)
(* New connections                                                         *)
(***************************************************************************)

\* What a connection that nobody has used yet, or ever will, looks like.
Unused(r) == /\ ~r.read /\ ~r.write /\ ~r.held /\ ~r.announced /\ r.gone = 0
             /\ (r.admits => r.socket) /\ (r.op # "none" => r.socket)
             /\ IF role = "server" THEN r.op \in {"none", "accept"} ELSE r.op # "accept"

\* A step of worker w that makes the connections of S, which only it knows,
\* unused ones, and goes on with one of them at most.
Creates(w, S, h) ==
    /\ \A e \in Conns : IF e \in S THEN Unused(conn'[e]) ELSE conn'[e] = conn[e]
    /\ thread'[w] = h /\ \A u \in Threads : u # w => thread'[u] = thread[u]
    /\ \A e \in S : e \notin table /\ e \notin copy
    /\ \A e \in S, u \in Threads : u # w => thread[u].on # e
    /\ thread[w].on \in S \cup {None} /\ thread[w].at \in {"idle", "client"}
    /\ h.on \in S \cup {None} /\ h.then = "idle"
    /\ h.at \in {"idle", "client"} /\ (h.at = "idle" <=> h.on = None)
    /\ h.at = "client" => /\ running /\ role = "server"
                          /\ conn'[h.on].op = "none" /\ conn'[h.on].socket

LEMMA CreateStep ==
    ASSUME IInv, TypeOK', NEW w \in Workers, NEW S, S \subseteq Conns, NEW h \in Thread,
           UNCHANGED <<role, running, table, copy, current, starts>>, Creates(w, S, h)
    PROVE  IInv'
<1>1. /\ role' = role /\ running' = running /\ table' = table /\ copy' = copy
      /\ current' = current /\ starts' = starts
  OBVIOUS
<1>2. /\ w \in Threads /\ w # "user" /\ "user" \in Threads /\ "user" \notin Workers
      /\ Threads = Workers \cup {"user"} /\ None \notin Conns /\ table \subseteq Conns
      /\ \A u \in Threads : Placed(u, thread[u]) /\ thread[u].on \in Conns \cup {None}
  BY NetworkAssumption, NoneAssumption DEF Threads, IInv, CommonInv, TypeOK, Thread
<1>3. /\ \A e \in Conns \ S : conn'[e] = conn[e]
      /\ \A e \in S : Unused(conn'[e])
      /\ \A u \in Threads \ {w} : thread'[u] = thread[u] /\ thread[u].on \notin S
  BY DEF Creates
<1>4. \A u \in Threads : Placed(u, thread'[u])
  <2>1. Placed(w, h)
    BY <1>2 DEF Creates, Placed, OnStages
  <2>2. QED
    BY <1>2, <1>3, <2>1 DEF Creates
<1>5. Roles'
  <2>1. \A e \in Conns : IF role = "server" THEN conn'[e].op \in {"none", "accept"}
                                            ELSE conn'[e].op # "accept"
    BY <1>3 DEF Unused, IInv, CommonInv, Roles
  <2>2. QED
    BY <1>1, <1>2, <2>1 DEF IInv, CommonInv, Roles, Creates
<1>6. Released'
  <2>1. \A e \in Conns : /\ conn'[e].admits => conn'[e].socket
                         /\ conn'[e].socket => conn'[e].gone = 0
    BY <1>3 DEF Unused, IInv, CommonInv, Released
  <2>2. ASSUME NEW u \in Threads, thread'[u].at \in {"release", "notify", "notifyNull"}
        PROVE  thread'[u] = thread[u] /\ conn'[thread[u].on] = conn[thread[u].on]
    <3>1. u # w
      BY <2>2 DEF Creates
    <3>2. thread'[u] = thread[u] /\ thread[u].on \notin S
      BY <1>3, <3>1
    <3>3. thread[u].on \in Conns
      BY <1>2, <2>2, <3>2 DEF Placed, OnStages
    <3>4. QED
      BY <1>3, <3>2, <3>3
  <2>3. QED
    BY <2>1, <2>2 DEF IInv, CommonInv, Released
<1>7. ASSUME role = "server" PROVE ServerInv'
  <2>1. ServerInv
    BY <1>7 DEF IInv
  <2>2. Removal'
    <3>1. thread'["user"] = thread["user"]
      BY <1>2, <1>3
    <3>2. Removing' <=> Removing
      BY <3>1 DEF Removing
    <3>3. Removing => \A v \in Workers : thread'[v].at = "idle"
      BY <1>2, <1>3, <2>1 DEF ServerInv, Removal, Creates
    <3>4. Removing => \A e \in Conns : ~conn'[e].read
      BY <1>3, <2>1 DEF ServerInv, Removal, Unused
    <3>5. QED
      BY <1>1, <2>1, <3>1, <3>2, <3>3, <3>4 DEF ServerInv, Removal
  <2>3. Accepting'
    <3>1. ASSUME NEW e \in Conns, conn'[e].op # "none" PROVE Untouched(e, {})'
      <4>1. CASE e \in S
        <5>1. Unused(conn'[e]) /\ e \notin table /\ e \notin copy
          BY <1>3, <4>1 DEF Creates
        <5>2. h.on # e
          BY <1>2, <3>1 DEF Creates
        <5>3. \A u \in Threads : thread'[u].on # e
          BY <1>2, <1>3, <4>1, <5>2 DEF Creates
        <5>4. QED
          BY <1>1, <3>1, <5>1, <5>3 DEF Untouched, Unused
      <4>2. CASE e \notin S
        <5>1. conn'[e] = conn[e] /\ Untouched(e, {})
          BY <1>3, <2>1, <3>1, <4>2 DEF ServerInv, Accepting
        <5>2. \A u \in Threads : thread'[u].on # e
          BY <1>2, <1>3, <4>2, <5>1 DEF Creates, Untouched
        <5>3. QED
          BY <1>1, <5>1, <5>2 DEF Untouched
      <4>3. QED
        BY <4>1, <4>2
    <3>2. ASSUME NEW u \in Threads, thread'[u].at = "client", NEW e \in Conns, e = thread'[u].on
          PROVE  Untouched(e, {u})'
      <4>1. CASE u = w
        <5>1. e \in S /\ conn'[e].socket
          BY <1>2, <3>2, <4>1 DEF Creates
        <5>2. Unused(conn'[e]) /\ e \notin table /\ e \notin copy
          BY <1>3, <5>1 DEF Creates
        <5>3. \A v \in Threads \ {u} : thread'[v].on # e
          BY <1>3, <4>1, <5>1
        <5>4. QED
          BY <1>1, <5>1, <5>2, <5>3 DEF Untouched, Unused
      <4>2. CASE u # w
        <5>1. thread'[u] = thread[u] /\ e = thread[u].on /\ e \notin S
          BY <1>3, <3>2, <4>2
        <5>2. conn'[e] = conn[e] /\ Untouched(e, {u})
          BY <1>3, <2>1, <3>2, <5>1 DEF ServerInv, Accepting
        <5>3. \A v \in Threads \ {u} : thread'[v].on # e
          BY <1>2, <1>3, <5>1, <5>2 DEF Creates, Untouched
        <5>4. QED
          BY <1>1, <5>2, <5>3 DEF Untouched
      <4>3. QED
        BY <4>1, <4>2
    <3>3. \A u \in Threads : thread'[u].at = "client" => thread'[u].on \in Conns
      BY <1>2, <1>3 DEF Creates, Placed, OnStages
    <3>4. QED
      BY <3>1, <3>2, <3>3 DEF Accepting, Untouched
  <2>4. Listed'
    <3>1. ASSUME NEW e \in table, NEW u \in Threads, thread[u].on = e, thread[u].at = "notify"
          PROVE  thread'[u] = thread[u]
      BY <1>3, <3>1 DEF Creates
    <3>2. \A e \in table : conn'[e] = conn[e]
      BY <1>2, <1>3 DEF Creates
    <3>3. QED
      BY <1>1, <2>1, <3>1, <3>2 DEF ServerInv, Listed
  <2>5. Reading'
    <3>1. ASSUME NEW e \in Conns, conn'[e].read, conn'[e].socket PROVE e \in table
      BY <1>3, <2>1, <3>1 DEF ServerInv, Reading, Unused
    <3>2. ASSUME NEW u \in Threads, conn'[thread'[u].on].socket,
                 thread'[u].at \in {"deliver", "receiving"} \/ thread'[u].then = "receiving"
          PROVE  thread'[u].on \in table
      <4>1. u # w
        BY <3>2 DEF Creates
      <4>2. thread'[u] = thread[u] /\ thread[u].on \in Conns \ S
        BY <1>2, <1>3, <3>2, <4>1 DEF Placed, OnStages
      <4>3. QED
        BY <1>3, <2>1, <3>2, <4>2 DEF ServerInv, Reading
    <3>3. QED
      BY <1>1, <3>1, <3>2 DEF Reading
  <2>6. Announced'
    <3>1. thread'["user"] = thread["user"]
      BY <1>2, <1>3
    <3>2. QED
      BY <1>1, <1>3, <2>1, <3>1 DEF ServerInv, Announced, Unused
  <2>7. Unshared'
    <3>1. ASSUME NEW e \in S PROVE Alone(e)'
      <4>1. conn'[e].gone <= 1
        BY <1>3 DEF Unused
      <4>2. \A u \in Threads : thread'[u].on = e => u = w
        BY <1>3
      <4>3. thread'[w].at \notin {"deliver", "release", "notify", "notifyNull"}
        BY DEF Creates
      <4>4. QED
        BY <4>1, <4>2, <4>3 DEF Alone
    <3>2. ASSUME NEW e \in Conns \ S, ~conn[e].shared PROVE Alone(e)'
      <4>1. Alone(e) /\ conn'[e] = conn[e]
        BY <1>3, <2>1, <3>2 DEF ServerInv, Unshared
      <4>2. \A u \in Threads : thread'[u].on = e => u # w /\ thread'[u] = thread[u]
        BY <1>2, <1>3 DEF Creates
      <4>3. QED
        BY <4>1, <4>2 DEF Alone
    <3>3. QED
      BY <1>3, <3>1, <3>2 DEF Unshared
  <2>8. QED
    BY <2>2, <2>3, <2>4, <2>5, <2>6, <2>7 DEF ServerInv
<1>8. Counted'
  BY <1>1, <1>2, <1>3 DEF IInv, CommonInv, Counted
<1>9. QED
  BY <1>1, <1>4, <1>5, <1>6, <1>7, <1>8 DEF IInv, CommonInv

\* The records of no connection and of a new one.
LEMMA NewRecords ==
    /\ NoConnection \in Connection /\ Unused(NoConnection)
    /\ \A op \in {"accept", "resolve", "connect"} :
          /\ create_raw(op) \in Connection /\ create_raw(op).op = op
          /\ set_timeout(create_raw(op)) \in Connection
          /\ set_timeout(create_raw(op)).op = op
          /\ (role = "server" <=> op = "accept") =>
                Unused(create_raw(op)) /\ Unused(set_timeout(create_raw(op)))
<1>1. NoConnection \in Connection /\ Unused(NoConnection)
  BY DEF NoConnection, Connection, Unused
<1>2. ASSUME NEW op \in {"accept", "resolve", "connect"}
      PROVE  /\ create_raw(op) \in Connection /\ create_raw(op).op = op
             /\ set_timeout(create_raw(op)) \in Connection
             /\ set_timeout(create_raw(op)).op = op
             /\ (role = "server" <=> op = "accept") =>
                   Unused(create_raw(op)) /\ Unused(set_timeout(create_raw(op)))
  <2> DEFINE r == create_raw(op)
             q == set_timeout(r)
  <2>1. /\ r \in Connection /\ r.op = op /\ r.socket /\ r.admits
        /\ ~r.read /\ ~r.write /\ ~r.held /\ ~r.announced /\ r.gone = 0
    <3>1. /\ ~NoConnection.read /\ ~NoConnection.write /\ ~NoConnection.held
          /\ ~NoConnection.announced /\ NoConnection.gone = 0
      BY DEF NoConnection
    <3>2. QED
      BY <1>1, <3>1 DEF create_raw, Connection
  <2> HIDE DEF r
  <2>2. /\ q \in Connection /\ q.op = op /\ q.socket /\ q.admits
        /\ ~q.read /\ ~q.write /\ ~q.held /\ ~q.announced /\ q.gone = 0
    BY <2>1 DEF set_timeout, Connection
  <2> HIDE DEF q
  <2>3. QED
    BY <2>1, <2>2 DEF Unused, r, q
<1>3. QED
  BY <1>1, <1>2

\* start_ and connect_ preserve the invariant.
LEMMA StartsIInv ==
    ASSUME IInv, NEW w \in Workers,
           OnStartTcp(w) \/ OnStartUnix(w) \/ OnConnectStartTcp(w) \/ OnConnectStartUnix(w)
    PROVE  IInv'
<1>1. /\ w \in Threads /\ w # "user" /\ running /\ thread[w] \in Thread
      /\ thread[w].at = "idle" /\ thread[w].on = None /\ thread[w].then = "idle"
  <2>1. Ready(w)
    BY DEF OnStartTcp, OnStartUnix, OnConnectStartTcp, OnConnectStartUnix
  <2>2. QED
    BY <2>1, ReadyWorker
<1>2. /\ UNCHANGED <<role, running, table, copy, current, thread, starts, impl, fault, local>>
      /\ file' \in BOOLEAN /\ lambda' = "none" /\ acceptor' \in {"null", "open", "closed"}
      /\ answers' \in 0 .. 2
  <2>1. /\ answers \in 0 .. 2 /\ file \in BOOLEAN
        /\ acceptor \in {"null", "open", "closed"}
    BY DEF IInv, CommonInv, TypeOK
  <2>2. Answered => answers' \in 0 .. 2
    BY <2>1 DEF Answered
  <2>3. CASE OnStartTcp(w)
    BY <2>1, <2>3 DEF OnStartTcp, transport
  <2>4. CASE OnStartUnix(w)
    BY <2>1, <2>4 DEF OnStartUnix
  <2>5. CASE OnConnectStartTcp(w)
    BY <2>1, <2>2, <2>5 DEF OnConnectStartTcp, transport
  <2>6. CASE OnConnectStartUnix(w)
    BY <2>1, <2>2, <2>6 DEF OnConnectStartUnix, transport
  <2>7. QED
    BY <2>3, <2>4, <2>5, <2>6
<1>3. CASE conn' = conn
  <2>1. TypeOK'
    BY <1>2, <1>3 DEF IInv, CommonInv, TypeOK
  <2>2. QED
    BY <1>2, <1>3, <2>1, Irrelevant
<1>4. CASE conn' # conn
  <2>1. PICK c \in Conns, r \in Connection :
           Free(c) /\ Unused(r) /\ conn' = [conn EXCEPT ![c] = r]
    <3>1. CASE OnStartTcp(w) \/ OnStartUnix(w)
      <4>1. PICK c \in Conns : Free(c) /\ conn' = [conn EXCEPT ![c] = create_raw("accept")]
        BY <1>4, <3>1 DEF OnStartTcp, OnStartUnix
      <4>2. role = "server"
        BY <3>1 DEF OnStartTcp, OnStartUnix
      <4>3. QED
        BY <4>1, <4>2, NewRecords
    <3>2. CASE OnConnectStartTcp(w)
      <4>1. PICK c \in Conns : /\ Free(c)
                               /\ conn' = [conn EXCEPT ![c] = set_timeout(create_raw("resolve"))]
        BY <1>4, <3>2 DEF OnConnectStartTcp
      <4>2. role = "client"
        BY <3>2 DEF OnConnectStartTcp
      <4>3. QED
        BY <4>1, <4>2, NewRecords
    <3>3. CASE OnConnectStartUnix(w)
      <4>1. PICK c \in Conns : /\ Free(c)
                               /\ conn' = [conn EXCEPT ![c] = set_timeout(create_raw("connect"))]
        BY <1>4, <3>3 DEF OnConnectStartUnix
      <4>2. role = "client"
        BY <3>3 DEF OnConnectStartUnix
      <4>3. QED
        BY <4>1, <4>2, NewRecords
    <3>4. QED
      BY <3>1, <3>2, <3>3
  <2>2. TypeOK'
    BY <1>2, <2>1 DEF IInv, CommonInv, TypeOK
  <2>3. conn'[c] = r /\ \A e \in Conns : e # c => conn'[e] = conn[e]
    BY <2>1 DEF IInv, CommonInv, TypeOK
  <2>4. c \notin table /\ c \notin copy /\ \A u \in Threads : thread[u].on # c
    BY <2>1 DEF Free, Alive
  <2>5. Creates(w, {c}, thread[w])
    BY <1>1, <1>2, <2>1, <2>3, <2>4 DEF Creates
  <2>6. QED
    BY <1>1, <1>2, <2>2, <2>5, CreateStep
<1>5. QED
  BY <1>3, <1>4

\* The handler of async_accept preserves the invariant.
LEMMA AcceptedIInv ==
    ASSUME IInv, NEW w \in Workers, NEW c \in Conns, Accepted(w, c) PROVE IInv'
<1>1. /\ w \in Threads /\ w # "user" /\ running /\ thread[w] \in Thread
      /\ thread[w].at = "idle" /\ thread[w].on = None /\ thread[w].then = "idle"
  BY ReadyWorker DEF Accepted
<1>2. /\ role = "server" /\ conn[c].op = "accept" /\ conn[c] \in Connection
      /\ Untouched(c, {}) /\ (conn[c].socket => conn[c].gone = 0)
  <2>1. conn[c].op = "accept" /\ conn[c] \in Connection
    BY DEF Accepted, IInv, CommonInv, TypeOK
  <2>2. role = "server"
    BY <2>1 DEF IInv, CommonInv, Roles
  <2>3. QED
    BY <2>1, <2>2 DEF IInv, CommonInv, Released, ServerInv, Accepting
<1>3. c \notin table /\ c \notin copy /\ \A u \in Threads : thread[u].on # c
  BY <1>2 DEF Untouched
<1>4. UNCHANGED <<control, table, current, answers, fault>>
  BY DEF Accepted
<1>5. CASE conn' = [conn EXCEPT ![c] = NoConnection] /\ UNCHANGED thread
  <2>1. TypeOK' /\ UNCHANGED <<role, running, table, copy, current, starts>>
    BY <1>4, <1>5, NewRecords DEF IInv, CommonInv, TypeOK, control
  <2>2. conn'[c] = NoConnection /\ \A e \in Conns : e # c => conn'[e] = conn[e]
    BY <1>5 DEF IInv, CommonInv, TypeOK
  <2>3. Creates(w, {c}, thread[w])
    BY <1>1, <1>3, <1>5, <2>2, NewRecords DEF Creates
  <2>4. QED
    BY <1>1, <2>1, <2>3, CreateStep
<1>6. ASSUME NEW d \in Conns, Free(d), NEW ok \in BOOLEAN,
             conn' = [conn EXCEPT ![d] = create_raw("accept"),
                         ![c] = IF ok THEN [@ EXCEPT !.op = "none"] ELSE NoConnection],
             thread' = [thread EXCEPT ![w] =
                         IF ok THEN [Idle EXCEPT !.at = "client", !.on = c] ELSE @]
      PROVE  IInv'
  <2> DEFINE q == [conn[c] EXCEPT !.op = "none"]
             r == IF ok THEN q ELSE NoConnection
             g == [Idle EXCEPT !.at = "client", !.on = c]
             h == IF ok THEN g ELSE thread[w]
  <2>1. d # c
    BY <1>2, <1>6 DEF Free
  <2>2. q \in Connection /\ Unused(q) /\ q.op = "none" /\ q.socket
    BY <1>2 DEF Connection, Unused, Untouched
  <2>3. g \in Thread /\ g.at = "client" /\ g.on = c /\ g.then = "idle"
    BY IdleRecord DEF Thread
  <2> HIDE DEF q, g
  <2>4. r \in Connection /\ Unused(r) /\ (ok => r.op = "none" /\ r.socket)
    BY <2>2, NewRecords
  <2>5. /\ h \in Thread /\ h.at \in {"idle", "client"} /\ h.then = "idle"
        /\ h.at = "client" <=> ok
        /\ h.on = IF ok THEN c ELSE None
    BY <1>1, <2>3
  <2>6. thread' = [thread EXCEPT ![w] = h]
    BY <1>6 DEF g
  <2>7. /\ conn'[c] = r /\ conn'[d] = create_raw("accept")
        /\ \A e \in Conns : e # c /\ e # d => conn'[e] = conn[e]
    <3>1. conn \in [Conns -> Connection]
      BY DEF IInv, CommonInv, TypeOK
    <3>2. QED
      BY <1>6, <2>1, <3>1 DEF q
  <2>8. conn' \in [Conns -> Connection]
    <3>1. conn \in [Conns -> Connection] /\ create_raw("accept") \in Connection
      BY NewRecords DEF IInv, CommonInv, TypeOK
    <3>2. conn' = [[conn EXCEPT ![d] = create_raw("accept")] EXCEPT ![c] = r]
      BY <1>6, <2>1, <3>1 DEF q
    <3>3. QED
      BY <2>4, <3>1, <3>2
  <2>9. d \notin table /\ d \notin copy /\ \A u \in Threads : thread[u].on # d
    BY <1>6 DEF Free, Alive
  <2>10. Unused(create_raw("accept"))
    BY <1>2, NewRecords
  <2> HIDE DEF r, h
  <2>11. TypeOK' /\ UNCHANGED <<role, running, table, copy, current, starts>>
    BY <1>4, <2>5, <2>6, <2>8 DEF IInv, CommonInv, TypeOK, control
  <2>12. thread'[w] = h /\ \A u \in Threads : u # w => thread'[u] = thread[u]
    BY <1>1, <2>6 DEF IInv, CommonInv, TypeOK
  <2>13. Creates(w, {c, d}, h)
    <3>1. \A e \in Conns : IF e \in {c, d} THEN Unused(conn'[e]) ELSE conn'[e] = conn[e]
      BY <2>4, <2>7, <2>10
    <3>2. QED
      BY <1>1, <1>2, <1>3, <2>4, <2>5, <2>7, <2>9, <2>12, <3>1, NoneAssumption DEF Creates
  <2>14. QED
    BY <1>1, <2>5, <2>11, <2>13, CreateStep
<1>7. QED
  BY <1>5, <1>6 DEF Accepted

\* A new client of a server that runs is listed.
LEMMA NewClientIInv ==
    ASSUME IInv, NEW w \in Workers, on_new_client(w) PROVE IInv'
<1>1. w \in Threads /\ thread[w].at = "client" /\ thread[w].at \in OnStages
  BY DEF on_new_client, At, Threads, OnStages
<1>2. /\ thread[w] \in Thread /\ thread[w].on \in Conns /\ thread[w].on # None
      /\ conn[thread[w].on] \in Connection /\ Placed(w, thread[w]) /\ w # "user"
  BY <1>1, OnConnection
<1>3. PICK c \in Conns : c = thread[w].on
  BY <1>2
<1>4. /\ role = "server" /\ ServerInv /\ Untouched(c, {w})
      /\ conn[c].op = "none" /\ conn[c].gone = 0 /\ (conn[c].admits => conn[c].socket)
  <2>1. role = "server"
    BY <1>1 DEF IInv, CommonInv, Roles
  <2>2. ServerInv /\ Untouched(c, {w})
    BY <1>1, <1>3, <2>1 DEF IInv, ServerInv, Accepting
  <2>3. conn[c].op = "none"
    BY <1>1, <1>3, <2>2 DEF ServerInv, Accepting, Untouched
  <2>4. QED
    BY <2>1, <2>2, <2>3 DEF IInv, CommonInv, Released, Untouched
<1>5. /\ "user" \in Threads /\ "user" \notin Workers /\ Threads = Workers \cup {"user"}
      /\ None \notin Conns /\ table \subseteq Conns
      /\ \A u \in Threads : Placed(u, thread[u]) /\ thread[u].on \in Conns \cup {None}
  BY NetworkAssumption, NoneAssumption DEF Threads, IInv, CommonInv, TypeOK, Thread
<1>6. CASE ~running
  <2>1. /\ conn' = [conn EXCEPT ![c] = NoConnection] /\ thread' = [thread EXCEPT ![w] = Idle]
        /\ UNCHANGED <<control, table, current, answers, fault>>
    BY <1>3, <1>6 DEF on_new_client
  <2>2. TypeOK' /\ UNCHANGED <<role, running, table, copy, current, starts>>
    BY <2>1, NewRecords, IdleRecord DEF IInv, CommonInv, TypeOK, control
  <2>3. /\ conn'[c] = NoConnection /\ \A e \in Conns : e # c => conn'[e] = conn[e]
        /\ thread'[w] = Idle /\ \A u \in Threads : u # w => thread'[u] = thread[u]
    BY <1>1, <2>1 DEF IInv, CommonInv, TypeOK
  <2>4. c \notin table /\ c \notin copy /\ \A u \in Threads : u # w => thread[u].on # c
    BY <1>4 DEF Untouched
  <2>5. Creates(w, {c}, Idle)
    BY <1>1, <1>3, <2>3, <2>4, NewRecords, IdleRecord DEF Creates
  <2>6. QED
    BY <2>2, <2>5, IdleRecord, CreateStep
<1>7. CASE running
  <2> DEFINE q == [conn[c] EXCEPT !.announced = TRUE]
  <2>1. /\ q \in Connection /\ q.op = "none" /\ ~q.read /\ q.socket /\ q.gone = 0
        /\ q.admits = conn[c].admits
    BY <1>2, <1>3, <1>4 DEF Connection, Untouched
  <2> HIDE DEF q
  <2>2. AppCallback(w, c, q) /\ table' = table \cup {c}
    BY <1>3, <1>7 DEF on_new_client, q
  <2>3. UNCHANGED <<control, current, answers, fault>>
    BY DEF on_new_client
  <2>4. PICK r \in Connection, h \in Thread : CallbackLeaves(w, c, q, r, h)
    BY <1>1, <1>2, <2>1, <2>2, CallbackRecords
  <2>5. /\ r.op = "none" /\ ~r.read /\ r.socket /\ r.gone = 0
        /\ h.at \in {"disconnect", "receiving"} /\ h.on = c /\ h.then = "receiving"
    BY <2>1, <2>4 DEF CallbackLeaves
  <2>6. /\ conn'[c] = r /\ \A e \in Conns : e # c => conn'[e] = conn[e]
        /\ thread'[w] = h /\ \A u \in Threads : u # w => thread'[u] = thread[u]
    BY <1>1, <2>4 DEF IInv, CommonInv, TypeOK, CallbackLeaves
  <2>7. /\ TypeOK' /\ role' = role /\ running' = running /\ copy' = copy /\ current' = current
        /\ table' = table \cup {c}
    <3>1. /\ role' = role /\ running' = running /\ copy' = copy /\ current' = current
          /\ table' = table \cup {c}
      BY <2>2, <2>3 DEF control
    <3>2. thread' \in [Threads -> Thread] /\ conn' \in [Conns -> Connection]
      BY <2>4 DEF IInv, CommonInv, TypeOK, CallbackLeaves
    <3>3. TypeOK'
      BY <2>2, <2>3, <3>1, <3>2 DEF IInv, CommonInv, TypeOK, control
    <3>4. QED
      BY <3>1, <3>3
  <2>8. \A u \in Threads : u # w => thread[u].on # c
    BY <1>4 DEF Untouched
  <2>9. \A u \in Threads : Placed(u, thread'[u])
    <3>1. Placed(w, h)
      BY <1>2, <1>3, <2>5 DEF Placed, OnStages
    <3>2. QED
      BY <1>5, <2>6, <3>1
  <2>10. Roles'
    <3>1. \A e \in Conns : conn'[e].op \in {"none", "accept"}
      BY <1>4, <2>5, <2>6 DEF IInv, CommonInv, Roles
    <3>2. QED
      BY <1>2, <1>4, <1>5, <2>5, <2>6, <2>7, <3>1 DEF IInv, CommonInv, Roles
  <2>11. Released'
    <3>1. ASSUME NEW u \in Threads, thread'[u].at \in {"release", "notify", "notifyNull"}
          PROVE  thread'[u] = thread[u] /\ conn'[thread[u].on] = conn[thread[u].on]
      <4>1. u # w /\ thread'[u] = thread[u]
        BY <2>5, <2>6, <3>1
      <4>2. thread[u].on \in Conns /\ thread[u].on # c
        BY <1>5, <2>8, <3>1, <4>1 DEF Placed, OnStages
      <4>3. QED
        BY <2>6, <4>1, <4>2
    <3>2. QED
      BY <2>5, <2>6, <3>1 DEF IInv, CommonInv, Released
  <2>12. Removal'
    <3>1. thread'["user"] = thread["user"]
      BY <1>2, <1>5, <2>6
    <3>2. QED
      BY <1>4, <1>7, <2>7, <3>1 DEF ServerInv, Removal, Removing
  <2>13. Accepting'
    <3>1. ASSUME NEW e \in Conns, conn'[e].op # "none" PROVE Untouched(e, {})'
      <4>1. e # c /\ conn'[e] = conn[e] /\ Untouched(e, {})
        BY <1>4, <2>5, <2>6, <3>1 DEF ServerInv, Accepting
      <4>2. \A u \in Threads : thread'[u].on # e
        BY <2>5, <2>6, <4>1 DEF Untouched
      <4>3. QED
        BY <2>7, <4>1, <4>2 DEF Untouched
    <3>2. ASSUME NEW u \in Threads, thread'[u].at = "client" PROVE Untouched(thread[u].on, {u})'
      <4>1. u # w /\ thread'[u] = thread[u]
        BY <2>5, <2>6, <3>2
      <4>2. thread[u].on \in Conns /\ thread[u].on # c /\ Untouched(thread[u].on, {u})
        BY <1>4, <1>5, <2>8, <3>2, <4>1 DEF ServerInv, Accepting, Placed, OnStages
      <4>3. \A v \in Threads \ {u} : thread'[v].on # thread'[u].on
        BY <2>5, <2>6, <4>1, <4>2 DEF Untouched
      <4>4. QED
        BY <2>6, <2>7, <4>1, <4>2, <4>3 DEF Untouched
    <3>3. QED
      BY <3>1, <3>2 DEF Accepting
  <2>14. Listed'
    <3>1. \A e \in table : e # c
      BY <1>4 DEF Untouched
    <3>2. ASSUME NEW e \in table, NEW u \in Threads, thread[u].on = e, thread[u].at = "notify"
          PROVE  thread'[u] = thread[u]
      BY <1>1, <2>6, <3>2
    <3>3. QED
      BY <1>4, <1>5, <2>5, <2>6, <2>7, <3>1, <3>2 DEF ServerInv, Listed
  <2>15. Reading'
    <3>1. ASSUME NEW e \in Conns, conn'[e].read, conn'[e].socket PROVE e \in table'
      BY <1>4, <2>6, <2>7, <3>1 DEF ServerInv, Reading
    <3>2. ASSUME NEW u \in Threads, conn'[thread'[u].on].socket,
                 thread'[u].at \in {"deliver", "receiving"} \/ thread'[u].then = "receiving"
          PROVE  thread'[u].on \in table'
      <4>1. CASE u = w
        BY <2>5, <2>6, <2>7, <4>1
      <4>2. CASE u # w
        <5>1. thread'[u] = thread[u] /\ thread[u].on \in Conns /\ thread[u].on # c
          BY <1>5, <2>6, <2>8, <3>2, <4>2 DEF Placed, OnStages
        <5>2. QED
          BY <1>4, <2>6, <2>7, <3>2, <5>1 DEF ServerInv, Reading
      <4>3. QED
        BY <4>1, <4>2
    <3>3. QED
      BY <3>1, <3>2 DEF Reading
  <2>16. Announced'
    BY <1>4, <1>7, <2>6, <2>7 DEF ServerInv, Announced
  <2>17. Unshared'
    <3>1. Alone(c)'
      <4>1. \A u \in Threads : thread'[u].on = c => u = w
        BY <2>6, <2>8
      <4>2. QED
        BY <2>5, <2>6, <4>1 DEF Alone
    <3>2. ASSUME NEW e \in Conns \ {c}, ~conn[e].shared PROVE Alone(e)'
      <4>1. Alone(e) /\ conn'[e] = conn[e]
        BY <1>4, <2>6, <3>2 DEF ServerInv, Unshared
      <4>2. \A u \in Threads : thread'[u].on = e => u # w /\ thread'[u] = thread[u]
        BY <2>5, <2>6
      <4>3. QED
        BY <4>1, <4>2 DEF Alone
    <3>3. QED
      BY <2>6, <3>1, <3>2 DEF Unshared
  <2>18. Counted'
    BY <1>2, <1>4, <1>5, <2>6 DEF IInv, CommonInv, Counted
  <2>19. QED
    BY <2>7, <2>9, <2>10, <2>11, <2>12, <2>13, <2>14, <2>15, <2>16, <2>17, <2>18
       DEF IInv, CommonInv, ServerInv
<1>8. QED
  BY <1>6, <1>7

(***************************************************************************)
(* start() and stop()                                                      *)
(***************************************************************************)

\* What the invariant says of the application's thread outside a connection.
LEMMA UserThread ==
    ASSUME IInv
    PROVE  /\ "user" \in Threads /\ "user" \notin Workers /\ Threads = Workers \cup {"user"}
           /\ None \notin Conns /\ table \subseteq Conns /\ thread["user"] \in Thread
           /\ \A u \in Threads : Placed(u, thread[u]) /\ thread[u].on \in Conns \cup {None}
           /\ thread["user"].at \notin OnStages =>
                 thread["user"].on = None /\ thread["user"].then = "idle"
<1>1. /\ "user" \in Threads /\ "user" \notin Workers /\ Threads = Workers \cup {"user"}
      /\ None \notin Conns /\ table \subseteq Conns /\ thread["user"] \in Thread
      /\ \A u \in Threads : Placed(u, thread[u]) /\ thread[u].on \in Conns \cup {None}
  BY NetworkAssumption, NoneAssumption DEF Threads, IInv, CommonInv, TypeOK, Thread
<1>2. QED
  BY <1>1 DEF Placed

\* start() preserves the invariant: nothing is announced yet.
LEMMA StartIInv ==
    ASSUME IInv, Start PROVE IInv'
<1>1. /\ role = "server" /\ thread["user"].at = "idle" /\ ServerInv
      /\ role' = role /\ table' = table /\ copy' = copy /\ current' = current
      /\ \A u \in Threads : thread'[u] = thread[u]
  BY DEF Start, At, IInv
<1>2. /\ "user" \in Threads /\ Threads = Workers \cup {"user"} /\ table \subseteq Conns
      /\ \A u \in Threads : Placed(u, thread[u]) /\ thread[u].on \in Conns \cup {None}
      /\ thread["user"].then = "idle"
  BY <1>1, UserThread DEF OnStages
<1> DEFINE r(c) == [conn[c] EXCEPT !.announced = FALSE]
<1>3. ASSUME NEW c \in Conns
      PROVE
         /\ r(c) \in Connection /\ ~r(c).announced
         /\ r(c).op = conn[c].op /\ r(c).read = conn[c].read /\ r(c).write = conn[c].write
         /\ r(c).socket = conn[c].socket /\ r(c).admits = conn[c].admits
         /\ r(c).held = conn[c].held /\ r(c).gone = conn[c].gone /\ r(c).shared = conn[c].shared
  <2>1. conn[c] \in Connection
    BY DEF IInv, CommonInv, TypeOK
  <2>2. r(c) \in Connection /\ ~r(c).announced
    BY <2>1 DEF Connection
  <2>3. QED
    BY <2>1, <2>2 DEF Connection
<1>4. conn' = [c \in Conns |-> r(c)]
  BY DEF Start
<1> HIDE DEF r
<1>5. TypeOK'
  <2>1. conn' \in [Conns -> Connection]
    BY <1>3, <1>4
  <2>2. starts' \in 0 .. MaxStarts
    <3>1. starts \in 0 .. MaxStarts
      BY DEF IInv, CommonInv, TypeOK
    <3>2. QED
      BY <3>1, NetworkAssumption DEF Start
  <2>3. QED
    BY <2>1, <2>2 DEF Start, IInv, CommonInv, TypeOK, transport
<1>6. \A c \in Conns :
         /\ ~conn'[c].announced
         /\ conn'[c].op = conn[c].op /\ conn'[c].read = conn[c].read
         /\ conn'[c].write = conn[c].write
         /\ conn'[c].socket = conn[c].socket /\ conn'[c].admits = conn[c].admits
         /\ conn'[c].held = conn[c].held /\ conn'[c].gone = conn[c].gone
         /\ conn'[c].shared = conn[c].shared
  BY <1>3, <1>4
<1>7. Roles'
  BY <1>1, <1>2, <1>6 DEF IInv, CommonInv, Roles
<1>8. Released'
  <2>1. ASSUME NEW u \in Threads, thread[u].at \in {"release", "notify", "notifyNull"}
        PROVE  /\ conn'[thread[u].on].admits = conn[thread[u].on].admits
               /\ conn'[thread[u].on].socket = conn[thread[u].on].socket
    <3>1. thread[u].on \in Conns
      BY <1>2, <2>1 DEF Placed, OnStages
    <3>2. QED
      BY <1>6, <3>1
  <2>2. QED
    BY <1>1, <1>6, <2>1 DEF IInv, CommonInv, Released
<1>9. Removal'
  BY <1>1, <1>2 DEF Removal, Removing
<1>10. Accepting'
  <2>1. ASSUME NEW e \in Conns, conn'[e].op # "none" PROVE Untouched(e, {})'
    <3>1. Untouched(e, {})
      BY <1>1, <1>6, <2>1 DEF ServerInv, Accepting
    <3>2. QED
      BY <1>1, <1>6, <3>1 DEF Untouched
  <2>2. ASSUME NEW u \in Threads, thread'[u].at = "client" PROVE Untouched(thread[u].on, {u})'
    <3>1. Untouched(thread[u].on, {u}) /\ thread[u].on \in Conns
      BY <1>1, <1>2, <2>2 DEF ServerInv, Accepting, Placed, OnStages
    <3>2. QED
      BY <1>1, <1>6, <3>1 DEF Untouched
  <2>3. QED
    BY <2>1, <2>2 DEF Accepting
<1>11. Listed'
  BY <1>1, <1>2, <1>6 DEF ServerInv, Listed
<1>12. Reading'
  <2>1. ASSUME NEW e \in Conns, conn'[e].read, conn'[e].socket PROVE e \in table
    BY <1>1, <1>6, <2>1 DEF ServerInv, Reading
  <2>2. ASSUME NEW u \in Threads, conn'[thread'[u].on].socket,
               thread'[u].at \in {"deliver", "receiving"} \/ thread'[u].then = "receiving"
        PROVE  thread'[u].on \in table
    <3>1. thread'[u] = thread[u] /\ thread[u].on \in Conns
      BY <1>1, <1>2, <2>2 DEF Placed, OnStages
    <3>2. conn[thread[u].on].socket
      BY <1>6, <2>2, <3>1
    <3>3. QED
      BY <1>1, <2>2, <3>1, <3>2 DEF ServerInv, Reading
  <2>3. QED
    BY <1>1, <2>1, <2>2 DEF Reading
<1>13. Announced'
  BY <1>6 DEF Announced
<1>14. Unshared'
  <2>1. ASSUME NEW e \in Conns, ~conn'[e].shared PROVE Alone(e)'
    <3>1. Alone(e)
      BY <1>1, <1>6, <2>1 DEF ServerInv, Unshared
    <3>2. QED
      BY <1>1, <1>6, <3>1 DEF Alone
  <2>2. QED
    BY <2>1 DEF Unshared
<1>15. Counted'
  BY <1>1, <1>2 DEF IInv, CommonInv, Counted
<1>16. QED
  BY <1>1, <1>2, <1>5, <1>7, <1>8, <1>9, <1>10, <1>11, <1>12, <1>13, <1>14, <1>15
     DEF IInv, CommonInv, ServerInv

\* The first steps of stop() preserve the invariant.
LEMMA StopIInv ==
    ASSUME IInv, Stop(TRUE) \/ Stop(FALSE) \/ StopPool PROVE IInv'
<1> DEFINE at == IF thread["user"].at = "idle" THEN "pool" ELSE "join"
<1>1. /\ thread["user"].at \in {"idle", "pool"} /\ role = "server"
      /\ thread["user"].at = "idle" => running
  BY DEF Stop, StopPool, At, IInv, CommonInv, Roles
<1>2. PICK call \in {"stop", "remove", thread["user"].call} :
         thread' = [thread EXCEPT !["user"] = [thread["user"] EXCEPT !.at = at, !.call = call]]
  <2>1. CASE Stop(TRUE) \/ Stop(FALSE)
    <3>1. PICK remove \in BOOLEAN : Stop(remove)
      BY <2>1
    <3>2. QED
      BY <3>1 DEF Stop, At
  <2>2. CASE StopPool
    <3>1. thread["user"] \in Thread
      BY DEF IInv, CommonInv, TypeOK, Threads
    <3>2. [thread["user"] EXCEPT !.at = at] =
             [thread["user"] EXCEPT !.at = at, !.call = thread["user"].call]
      BY <3>1 DEF Thread
    <3>3. thread' = [thread EXCEPT !["user"] = [thread["user"] EXCEPT !.at = at]]
      BY <2>2 DEF StopPool, At
    <3>4. QED
      BY <3>2, <3>3
  <2>3. QED
    BY <2>1, <2>2
<1> DEFINE h == [thread["user"] EXCEPT !.at = at, !.call = call]
<1>3. /\ "user" \in Threads /\ "user" \notin Workers /\ Threads = Workers \cup {"user"}
      /\ table \subseteq Conns /\ thread["user"] \in Thread
      /\ \A u \in Threads : Placed(u, thread[u]) /\ thread[u].on \in Conns \cup {None}
      /\ thread["user"].on = None /\ thread["user"].then = "idle"
  BY <1>1, UserThread DEF OnStages
<1>4. at \in {"pool", "join"}
  OBVIOUS
<1> HIDE DEF at
<1>5. h \in Thread /\ h.at = at /\ h.on = None /\ h.then = "idle" /\ h.call = call
  BY <1>3, <1>4 DEF Thread
<1> HIDE DEF h
<1>6. thread' = [thread EXCEPT !["user"] = h]
  BY <1>2 DEF h
<1>7. /\ UNCHANGED <<role, local, lambda, table, copy, current, impl, answers, starts, conn, fault>>
      /\ file' \in BOOLEAN /\ acceptor' \in {"null", "open", "closed"}
      /\ running' = (at = "pool" /\ running)
  <2>1. /\ acceptor \in {"null", "open", "closed"} /\ file \in BOOLEAN /\ running \in BOOLEAN
    BY DEF IInv, CommonInv, TypeOK
  <2>2. CASE Stop(TRUE) \/ Stop(FALSE)
    <3>1. PICK remove \in BOOLEAN : Stop(remove)
      BY <2>2
    <3>2. file' \in BOOLEAN /\ acceptor' \in {"null", "open", "closed"}
      BY <2>1, <3>1 DEF Stop, CloseTcp, CloseUnix
    <3>3. running /\ at = "pool" /\ running' = running
      BY <3>1 DEF Stop, At, at
    <3>4. QED
      BY <2>1, <3>1, <3>2, <3>3 DEF Stop
  <2>3. CASE StopPool
    BY <2>1, <2>3 DEF StopPool, At, at, transport
  <2>4. QED
    BY <2>2, <2>3
<1>8. TypeOK'
  BY <1>3, <1>5, <1>6, <1>7 DEF IInv, CommonInv, TypeOK
<1>9. /\ thread'["user"] = h /\ \A u \in Threads : u # "user" => thread'[u] = thread[u]
      /\ \A u \in Threads : thread'[u].on = thread[u].on /\ thread'[u].then = thread[u].then
      /\ \A c \in Conns : conn'[c] = conn[c]
      /\ role' = role /\ table' = table /\ copy' = copy /\ current' = current
  BY <1>3, <1>5, <1>6, <1>7 DEF IInv, CommonInv, TypeOK
<1>10. \A u \in Threads : Placed(u, thread'[u])
  <2>1. Placed("user", h)
    BY <1>3, <1>4, <1>5 DEF Placed, OnStages
  <2>2. QED
    BY <1>3, <1>9, <2>1
<1>11. Roles' /\ Released'
  <2>1. Roles'
    BY <1>1, <1>3, <1>4, <1>5, <1>9 DEF IInv, CommonInv, Roles
  <2>2. ASSUME NEW u \in Threads, thread'[u].at \in {"release", "notify", "notifyNull"}
        PROVE  /\ thread'[u] = thread[u] /\ thread[u].on \in Conns
               /\ conn'[thread[u].on] = conn[thread[u].on]
    <3>1. thread'[u] = thread[u]
      BY <1>4, <1>5, <1>9, <2>2
    <3>2. thread[u].on \in Conns
      BY <1>3, <2>2, <3>1 DEF Placed, OnStages
    <3>3. QED
      BY <1>9, <3>1, <3>2
  <2>3. Released'
    BY <1>9, <2>2 DEF IInv, CommonInv, Released
  <2>4. QED
    BY <2>1, <2>3
<1>12. ServerInv'
  <2>1. ServerInv
    BY <1>1 DEF IInv
  <2>2. Removal'
    BY <1>4, <1>5, <1>7, <1>9 DEF Removal, Removing
  <2>3. Accepting'
    <3>1. ASSUME NEW e \in Conns, conn'[e].op # "none" PROVE Untouched(e, {})'
      <4>1. Untouched(e, {})
        BY <1>9, <2>1, <3>1 DEF ServerInv, Accepting
      <4>2. QED
        BY <1>9, <4>1 DEF Untouched
    <3>2. ASSUME NEW u \in Threads, thread'[u].at = "client" PROVE Untouched(thread[u].on, {u})'
      <4>1. thread'[u] = thread[u]
        BY <1>4, <1>5, <1>9, <3>2
      <4>2. Untouched(thread[u].on, {u}) /\ thread[u].on \in Conns
        BY <1>3, <2>1, <3>2, <4>1 DEF ServerInv, Accepting, Placed, OnStages
      <4>3. QED
        BY <1>9, <4>1, <4>2 DEF Untouched
    <3>3. QED
      BY <3>1, <3>2 DEF Accepting
  <2>4. Listed'
    <3>1. \A u \in Threads : thread[u].at = "notify" => thread'[u] = thread[u]
      BY <1>1, <1>9
    <3>2. QED
      BY <1>3, <1>9, <2>1, <3>1 DEF ServerInv, Listed
  <2>5. Reading'
    <3>1. \A u \in Threads : thread'[u].at \in {"deliver", "receiving"} \/ thread'[u].then = "receiving"
                                => thread'[u] = thread[u] /\ thread[u].on \in Conns
      BY <1>3, <1>4, <1>5, <1>9 DEF Placed, OnStages
    <3>2. QED
      BY <1>9, <2>1, <3>1 DEF ServerInv, Reading
  <2>6. Announced'
    BY <1>1, <1>9, <2>1 DEF ServerInv, Announced
  <2>7. Unshared'
    <3>1. ASSUME NEW e \in Conns, ~conn'[e].shared PROVE Alone(e)'
      <4>1. Alone(e) /\ conn'[e] = conn[e]
        BY <1>9, <2>1, <3>1 DEF ServerInv, Unshared
      <4>2. \A u \in Threads : thread'[u].on = e => thread'[u] = thread[u]
        BY <1>5, <1>9, <3>1, NoneAssumption
      <4>3. QED
        BY <4>1, <4>2 DEF Alone
    <3>2. QED
      BY <3>1 DEF Unshared
  <2>8. QED
    BY <2>2, <2>3, <2>4, <2>5, <2>6, <2>7 DEF ServerInv
<1>13. Counted'
  BY <1>1, <1>5, <1>9 DEF IInv, CommonInv, Counted
<1>14. QED
  BY <1>8, <1>10, <1>11, <1>12, <1>13 DEF IInv, CommonInv

\* An io_service that goes drops the operations of a connection and nothing
\* else of it.
LEMMA Discarded ==
    ASSUME NEW k \in Connection
    PROVE  /\ Discard(k) \in Connection /\ Discard(k).op = "none" /\ ~Discard(k).read
           /\ Discard(k).socket = k.socket /\ Discard(k).admits = k.admits
           /\ Discard(k).announced = k.announced /\ Discard(k).gone = k.gone
           /\ Discard(k).shared = k.shared
<1>1. Discard(k) \in Connection
  BY DEF Connection, Discard
<1>2. Discard(k).op = "none" /\ ~Discard(k).read
  BY DEF Connection, Discard
<1>3. QED
  BY <1>1, <1>2 DEF Connection, Discard

\* stop() joins the workers and copies the table.
LEMMA StopJoinIInv ==
    ASSUME IInv, StopJoin PROVE IInv'
<1> DEFINE h == [thread["user"] EXCEPT !.at = "removal"]
           r(c) == Discard(conn[c])
<1>1. /\ role = "server" /\ thread["user"].at = "join" /\ ServerInv
      /\ \A w \in Workers : thread[w].at = "idle"
  BY DEF StopJoin, At, Joined, IInv
<1>2. /\ "user" \in Threads /\ "user" \notin Workers /\ Threads = Workers \cup {"user"}
      /\ table \subseteq Conns /\ thread["user"] \in Thread
      /\ \A u \in Threads : Placed(u, thread[u])
      /\ thread["user"].on = None /\ thread["user"].then = "idle"
  BY <1>1, UserThread DEF OnStages
<1>3. h \in Thread /\ h.at = "removal" /\ h.on = None /\ h.then = "idle"
      /\ h.call = thread["user"].call
  BY <1>2 DEF Thread
<1>4. \A c \in Conns :
         /\ r(c) \in Connection /\ r(c).op = "none" /\ ~r(c).read
         /\ r(c).socket = conn[c].socket /\ r(c).admits = conn[c].admits
         /\ r(c).announced = conn[c].announced
         /\ r(c).gone = conn[c].gone /\ r(c).shared = conn[c].shared
  BY Discarded DEF IInv, CommonInv, TypeOK
<1>5. /\ conn' = [c \in Conns |-> r(c)] /\ thread' = [thread EXCEPT !["user"] = h]
      /\ role' = role /\ running' = running /\ table' = table /\ current' = current
      /\ copy' = IF h.call = "remove" THEN table ELSE {}
  BY <1>3 DEF StopJoin
<1> HIDE DEF r, h
<1>6. TypeOK'
  <2>1. conn' \in [Conns -> Connection]
    BY <1>4, <1>5
  <2>2. copy' \subseteq Conns
    BY <1>2, <1>5
  <2>3. thread' \in [Threads -> Thread]
    BY <1>3, <1>5 DEF IInv, CommonInv, TypeOK
  <2>4. QED
    BY <2>1, <2>2, <2>3 DEF StopJoin, IInv, CommonInv, TypeOK, transport
<1>7. /\ \A u \in Threads : /\ thread'[u].at \notin OnStages /\ thread[u].at \notin OnStages
                            /\ thread'[u].on = None /\ thread'[u].then = "idle"
      /\ thread'["user"] = h /\ \A w \in Workers : thread'[w].at = "idle"
  <2>1. thread'["user"] = h /\ \A w \in Workers : thread'[w] = thread[w]
    BY <1>2, <1>3, <1>5 DEF IInv, CommonInv, TypeOK
  <2>2. QED
    BY <1>1, <1>2, <1>3, <2>1 DEF Placed, OnStages
<1>8. \A c \in Conns :
         /\ conn'[c].op = "none" /\ ~conn'[c].read
         /\ conn'[c].socket = conn[c].socket /\ conn'[c].admits = conn[c].admits
         /\ conn'[c].announced = conn[c].announced
         /\ conn'[c].gone = conn[c].gone /\ conn'[c].shared = conn[c].shared
  BY <1>4, <1>5
<1>9. \A u \in Threads : Placed(u, thread'[u])
  BY <1>2, <1>3, <1>7 DEF Placed, OnStages
<1>10. Roles'
  BY <1>1, <1>2, <1>3, <1>5, <1>7, <1>8 DEF IInv, CommonInv, Roles, OnStages
<1>11. Released'
  BY <1>7, <1>8 DEF IInv, CommonInv, Released, OnStages
<1>12. Removal'
  <2>1. ~running
    BY <1>1 DEF ServerInv, Removal
  <2>2. QED
    BY <1>3, <1>5, <1>7, <1>8, <2>1 DEF Removal
<1>13. Accepting'
  BY <1>7, <1>8 DEF Accepting, OnStages
<1>14. Listed'
  BY <1>1, <1>2, <1>5, <1>7, <1>8 DEF ServerInv, Listed, OnStages
<1>15. Reading'
  BY <1>7, <1>8 DEF Reading, OnStages
<1>16. Announced'
  BY <1>1, <1>5, <1>8 DEF ServerInv, Announced
<1>17. Unshared'
  <2>1. ASSUME NEW e \in Conns, ~conn'[e].shared PROVE Alone(e)'
    <3>1. conn'[e].gone <= 1
      BY <1>1, <1>8, <2>1 DEF ServerInv, Unshared, Alone
    <3>2. QED
      BY <1>7, <3>1, NoneAssumption DEF Alone
  <2>2. QED
    BY <2>1 DEF Unshared
<1>18. Counted'
  BY <1>1, <1>3, <1>7 DEF IInv, CommonInv, Counted
<1>19. QED
  BY <1>5, <1>6, <1>9, <1>10, <1>11, <1>12, <1>13, <1>14, <1>15, <1>16, <1>17, <1>18
     DEF IInv, CommonInv, ServerInv

\* stop(true) disconnects the next connection of the copy.
LEMMA RemoveNextIInv ==
    ASSUME IInv, RemoveNext PROVE IInv'
<1> DEFINE h(c) == [thread["user"] EXCEPT !.at = "disconnect", !.on = c,
                                           !.holds = TRUE, !.then = "removal"]
<1>1. /\ role = "server" /\ thread["user"].at = "removal" /\ Removing /\ ServerInv
  BY DEF RemoveNext, At, IInv, CommonInv, Roles, Removing
<1>2. PICK c \in copy : /\ copy' = copy \ {c}
                        /\ conn' = [conn EXCEPT ![c] = Enter("user", c, conn[c])]
                        /\ thread' = [thread EXCEPT !["user"] = h(c)]
  BY DEF RemoveNext
<1> DEFINE r == Enter("user", c, conn[c])
<1>3. /\ "user" \in Threads /\ "user" \notin Workers /\ Threads = Workers \cup {"user"}
      /\ table \subseteq Conns /\ thread["user"] \in Thread
      /\ \A u \in Threads : Placed(u, thread[u])
      /\ thread["user"].on = None /\ thread["user"].then = "idle"
  BY <1>1, UserThread DEF OnStages
<1>4. c \in Conns /\ conn[c] \in Connection
  BY DEF IInv, CommonInv, TypeOK
<1>5. /\ h(c) \in Thread /\ h(c).at = "disconnect" /\ h(c).on = c /\ h(c).then = "removal"
      /\ h(c).call = thread["user"].call
  BY <1>3, <1>4 DEF Thread
<1>6. /\ r \in Connection /\ r.op = conn[c].op /\ r.read = conn[c].read
      /\ r.socket = conn[c].socket /\ r.admits = conn[c].admits
      /\ r.announced = conn[c].announced /\ r.gone = conn[c].gone
      /\ conn[c].shared => r.shared
  BY <1>3, <1>4, EnterRecord
<1>7. conn' = [conn EXCEPT ![c] = r]
  BY <1>2
<1> HIDE DEF r, h
<1>8. TypeOK'
  <2>1. conn' \in [Conns -> Connection] /\ thread' \in [Threads -> Thread]
    BY <1>2, <1>5, <1>6, <1>7 DEF IInv, CommonInv, TypeOK
  <2>2. copy' \subseteq Conns
    BY <1>2 DEF IInv, CommonInv, TypeOK
  <2>3. QED
    BY <2>1, <2>2 DEF RemoveNext, IInv, CommonInv, TypeOK, transport
<1>9. /\ conn'[c] = r /\ \A d \in Conns : d # c => conn'[d] = conn[d]
      /\ thread'["user"] = h(c) /\ \A w \in Workers : thread'[w] = thread[w]
      /\ role' = role /\ running' = running /\ table' = table /\ current' = current
      /\ copy' = copy \ {c}
  BY <1>2, <1>3, <1>4, <1>7 DEF RemoveNext, IInv, CommonInv, TypeOK
<1>10. \A w \in Workers : /\ thread'[w].at = "idle" /\ thread'[w].on = None
                          /\ thread'[w].then = "idle"
  BY <1>1, <1>3, <1>9 DEF ServerInv, Removal, Placed, OnStages
<1>11. conn[c].op = "none"
  BY <1>1, <1>4 DEF ServerInv, Accepting, Untouched
<1>12. \A u \in Threads : Placed(u, thread'[u])
  BY <1>3, <1>4, <1>5, <1>9, <1>10, NoneAssumption DEF Placed, OnStages
<1>13. Roles'
  <2>1. \A d \in Conns : conn'[d].op = conn[d].op
    BY <1>6, <1>9
  <2>2. QED
    BY <1>1, <1>3, <1>5, <1>9, <1>10, <2>1 DEF IInv, CommonInv, Roles
<1>14. Released'
  <2>1. \A d \in Conns : /\ conn'[d].admits => conn'[d].socket
                         /\ conn'[d].socket => conn'[d].gone = 0
    BY <1>6, <1>9 DEF IInv, CommonInv, Released
  <2>2. \A u \in Threads : thread'[u].at \notin {"release", "notify", "notifyNull"}
    BY <1>3, <1>5, <1>9, <1>10
  <2>3. QED
    BY <2>1, <2>2 DEF Released
<1>15. Removal'
  <2>1. \A d \in Conns : ~conn'[d].read
    BY <1>1, <1>6, <1>9 DEF ServerInv, Removal
  <2>2. thread'["user"].call = "remove" => table \subseteq copy' \cup {c}
    <3>1. thread["user"].call = "remove" => table \subseteq copy
      BY <1>1, <1>3, NoneAssumption DEF ServerInv, Removal
    <3>2. QED
      BY <1>5, <1>9, <3>1
  <2>3. QED
    BY <1>1, <1>5, <1>9, <1>10, <2>1, <2>2 DEF ServerInv, Removal
<1>16. Accepting'
  <2>1. ASSUME NEW e \in Conns, conn'[e].op # "none" PROVE Untouched(e, {})'
    <3>1. e # c /\ conn'[e] = conn[e] /\ Untouched(e, {})
      BY <1>1, <1>6, <1>9, <1>11, <2>1 DEF ServerInv, Accepting
    <3>2. \A u \in Threads : thread'[u].on # e
      BY <1>3, <1>5, <1>9, <1>10, <2>1, <3>1, NoneAssumption
    <3>3. QED
      BY <1>9, <3>1, <3>2 DEF Untouched
  <2>2. \A u \in Threads : thread'[u].at # "client"
    BY <1>3, <1>5, <1>9, <1>10
  <2>3. QED
    BY <2>1, <2>2 DEF Accepting
<1>17. Listed'
  <2>1. \A u \in Threads : thread[u].at # "notify"
    BY <1>1, <1>3 DEF ServerInv, Removal
  <2>2. \A e \in table : conn[e].socket
    BY <1>1, <2>1 DEF ServerInv, Listed
  <2>3. \A e \in table : conn'[e].socket
    BY <1>3, <1>6, <1>9, <2>2
  <2>4. QED
    BY <1>9, <2>3 DEF Listed
<1>18. Reading'
  <2>1. \A d \in Conns : ~conn'[d].read
    BY <1>1, <1>6, <1>9 DEF ServerInv, Removal
  <2>2. \A u \in Threads : /\ thread'[u].at \notin {"deliver", "receiving"}
                           /\ thread'[u].then # "receiving"
    BY <1>3, <1>5, <1>9, <1>10
  <2>3. QED
    BY <2>1, <2>2 DEF Reading
<1>19. Announced'
  <2>1. ASSUME NEW e \in Conns, conn'[e].announced, conn'[e].gone = 0
        PROVE  conn[e].announced /\ conn[e].gone = 0
    <3>1. CASE e = c
      BY <1>6, <1>9, <2>1, <3>1
    <3>2. CASE e # c
      BY <1>9, <2>1, <3>2
    <3>3. QED
      BY <3>1, <3>2
  <2>2. QED
    BY <1>1, <1>9, <2>1 DEF ServerInv, Announced
<1>20. Unshared'
  <2>1. ASSUME NEW e \in Conns, ~conn'[e].shared PROVE Alone(e)'
    <3>1. conn[e].gone <= 1 /\ conn'[e].gone = conn[e].gone
      BY <1>1, <1>6, <1>9, <2>1 DEF ServerInv, Unshared, Alone
    <3>2. \A u \in Threads : thread'[u].on = e => u = "user"
      BY <1>3, <1>10, NoneAssumption
    <3>3. QED
      BY <1>5, <1>9, <3>1, <3>2 DEF Alone
  <2>2. QED
    BY <2>1 DEF Unshared
<1>21. Counted'
  BY <1>1, <1>5, <1>9 DEF IInv, CommonInv, Counted
<1>22. QED
  BY <1>8, <1>9, <1>12, <1>13, <1>14, <1>15, <1>16, <1>17, <1>18, <1>19, <1>20, <1>21
     DEF IInv, CommonInv, ServerInv

\* stop() clears the table and returns.
LEMMA ClearTableIInv ==
    ASSUME IInv, ClearTable PROVE IInv'
<1>1. role = "server" /\ thread["user"].at = "removal" /\ Removing /\ ServerInv
  BY DEF ClearTable, At, IInv, CommonInv, Roles, Removing
<1>2. /\ "user" \in Threads /\ "user" \notin Workers /\ Threads = Workers \cup {"user"}
      /\ \A u \in Threads : Placed(u, thread[u])
      /\ thread["user"].on = None /\ thread["user"].then = "idle"
  BY <1>1, UserThread DEF OnStages
<1>3. /\ table' = {} /\ thread' = [thread EXCEPT !["user"] = Idle]
      /\ role' = role /\ running' = running /\ copy' = copy /\ current' = current
  BY DEF ClearTable, control
<1>4. TypeOK'
  BY <1>3, IdleRecord DEF ClearTable, IInv, CommonInv, TypeOK, control
<1>5. /\ \A u \in Threads : /\ thread'[u].at = "idle" /\ thread'[u].on = None
                            /\ thread'[u].then = "idle"
      /\ thread'["user"] = Idle /\ \A c \in Conns : conn'[c] = conn[c]
  <2>1. thread'["user"] = Idle /\ \A w \in Workers : thread'[w] = thread[w]
    BY <1>2, <1>3 DEF IInv, CommonInv, TypeOK
  <2>2. \A w \in Workers : thread[w].at = "idle" /\ thread[w].on = None /\ thread[w].then = "idle"
    BY <1>1, <1>2 DEF ServerInv, Removal, Placed, OnStages
  <2>3. QED
    BY <1>2, <2>1, <2>2, IdleRecord DEF ClearTable
<1>6. \A u \in Threads : Placed(u, thread'[u])
  BY <1>2, <1>5 DEF Placed, OnStages
<1>7. Roles'
  BY <1>1, <1>2, <1>3, <1>5 DEF IInv, CommonInv, Roles
<1>8. Released'
  BY <1>5 DEF IInv, CommonInv, Released
<1>9. ~running /\ \A c \in Conns : ~conn'[c].read
  BY <1>1, <1>5 DEF ServerInv, Removal
<1>10. Removal'
  BY <1>2, <1>5 DEF Removal, Removing
<1>11. Accepting'
  <2>1. ASSUME NEW e \in Conns, conn'[e].op # "none" PROVE Untouched(e, {})'
    <3>1. conn'[e] = conn[e] /\ Untouched(e, {})
      BY <1>1, <1>5, <2>1 DEF ServerInv, Accepting
    <3>2. QED
      BY <1>3, <1>5, <3>1, NoneAssumption DEF Untouched
  <2>2. QED
    BY <1>5, <2>1 DEF Accepting
<1>12. Listed' /\ Reading' /\ Announced'
  BY <1>2, <1>3, <1>5, <1>9 DEF Listed, Reading, Announced
<1>13. Unshared'
  <2>1. ASSUME NEW e \in Conns, ~conn'[e].shared PROVE Alone(e)'
    <3>1. conn'[e].gone <= 1
      BY <1>1, <1>5, <2>1 DEF ServerInv, Unshared, Alone
    <3>2. QED
      BY <1>5, <3>1, NoneAssumption DEF Alone
  <2>2. QED
    BY <2>1 DEF Unshared
<1>14. Counted'
  BY <1>5, IdleRecord DEF Counted
<1>15. QED
  BY <1>4, <1>6, <1>7, <1>8, <1>10, <1>11, <1>12, <1>13, <1>14 DEF IInv, CommonInv, ServerInv

(***************************************************************************)
(* The client                                                              *)
(***************************************************************************)

\* A step of thread t of a client that neither opens nor closes a connection.
Client(t, h) ==
    /\ role = "client" /\ role' = role /\ table' = table /\ copy' = copy
    /\ thread' = [thread EXCEPT ![t] = h]
    /\ \A c \in Conns : /\ conn'[c].op # "accept" /\ conn'[c].admits = conn[c].admits
                        /\ conn'[c].socket = conn[c].socket /\ conn'[c].gone = conn[c].gone
    /\ Placed(t, h) /\ h.then # "removal"
    /\ IF t = "user" THEN h.call = "connect" => starts' < MaxStarts ELSE starts' = starts
    /\ h.at \notin {"client", "pool", "removal", "release", "notify", "notifyNull"}

LEMMA ClientStep ==
    ASSUME IInv, TypeOK', NEW t \in Threads, NEW h \in Thread, Client(t, h)
    PROVE  IInv'
<1>1. /\ role = "client" /\ role' = role /\ table' = table /\ copy' = copy
      /\ thread'[t] = h /\ \A u \in Threads : u # t => thread'[u] = thread[u]
  BY DEF Client, IInv, CommonInv, TypeOK
<1>2. /\ "user" \in Threads
      /\ \A u \in Threads : Placed(u, thread[u]) /\ thread[u].on \in Conns \cup {None}
  BY UserThread
<1>3. Roles'
  BY <1>1, <1>2 DEF Client, IInv, CommonInv, Roles
<1>4. Released'
  <2>1. ASSUME NEW u \in Threads, thread'[u].at \in {"release", "notify", "notifyNull"}
        PROVE  thread'[u] = thread[u] /\ thread[u].on \in Conns
    <3>1. thread'[u] = thread[u]
      BY <1>1, <2>1 DEF Client
    <3>2. QED
      BY <1>2, <2>1, <3>1 DEF Placed, OnStages
  <2>2. \A c \in Conns : /\ conn'[c].admits = conn[c].admits
                         /\ conn'[c].socket = conn[c].socket /\ conn'[c].gone = conn[c].gone
    BY DEF Client
  <2>3. \A c \in Conns : /\ conn'[c].admits => conn'[c].socket
                         /\ conn'[c].socket => conn'[c].gone = 0
    BY <2>2 DEF IInv, CommonInv, Released
  <2>4. QED
    BY <2>1, <2>2, <2>3 DEF IInv, CommonInv, Released
<1>5. \A u \in Threads : Placed(u, thread'[u])
  BY <1>1, <1>2 DEF Client
<1>6. Counted'
  BY <1>1, <1>2 DEF Client, IInv, CommonInv, Counted
<1>7. QED
  BY <1>1, <1>3, <1>4, <1>5, <1>6 DEF IInv, CommonInv

\* clear() preserves the invariant up to the destruction of the transport.
LEMMA ClearIInv ==
    ASSUME IInv, Clear("connect") \/ Clear("destroy") \/ Forget \/ ResetImpl
    PROVE  IInv'
<1>1. /\ role = "client" /\ "user" \in Threads /\ "user" \notin Workers
      /\ thread["user"] \in Thread /\ None \notin Conns
      /\ \A c \in Conns : conn[c] \in Connection /\ conn[c].op # "accept"
      /\ thread["user"].at \in {"idle", "forget", "reset"}
      /\ thread["user"].on = None /\ thread["user"].then = "idle"
  <2>1. thread["user"].at \in {"idle", "forget", "reset"} /\ role = "client"
    BY DEF Clear, Forget, ResetImpl, At, IInv, CommonInv, Roles, TypeOK
  <2>2. \A c \in Conns : conn[c] \in Connection /\ conn[c].op # "accept"
    BY <2>1 DEF IInv, CommonInv, Roles, TypeOK
  <2>3. QED
    BY <2>1, <2>2, UserThread DEF OnStages
<1>2. CASE Forget \/ ResetImpl
  <2> DEFINE at == IF Forget THEN "reset" ELSE "join"
             h == [thread["user"] EXCEPT !.at = at]
  <2>1. at \in {"reset", "join"} /\ thread' = [thread EXCEPT !["user"] = h]
    BY <1>2 DEF Forget, ResetImpl, At
  <2> HIDE DEF at
  <2>2. /\ h \in Thread /\ h.at = at /\ h.on = None /\ h.then = "idle"
        /\ h.call = thread["user"].call
    BY <1>1, <2>1 DEF Thread
  <2> HIDE DEF h
  <2>3. /\ TypeOK' /\ role' = role /\ table' = table /\ copy' = copy /\ starts' = starts
        /\ \A c \in Conns : conn'[c] = conn[c]
    BY <1>2, <2>1, <2>2 DEF Forget, ResetImpl, IInv, CommonInv, TypeOK, control, transport
  <2>4. Placed("user", h)
    BY <1>1, <2>1, <2>2 DEF Placed, OnStages
  <2>5. Client("user", h)
    BY <1>1, <2>1, <2>2, <2>3, <2>4 DEF Client, IInv, CommonInv, Counted
  <2>6. QED
    BY <1>1, <2>2, <2>3, <2>5, ClientStep
<1>3. ASSUME NEW call \in {"connect", "destroy"}, Clear(call) PROVE IInv'
  <2>1. call = "connect" => starts < MaxStarts
    BY <1>3 DEF Clear
  <2>2. CASE current = None
    <3> DEFINE h == [thread["user"] EXCEPT !.at = "reset", !.call = call]
    <3>1. thread' = [thread EXCEPT !["user"] = h] /\ UNCHANGED conn
      BY <1>3, <2>2 DEF Clear
    <3>2. h \in Thread /\ h.at = "reset" /\ h.on = None /\ h.then = "idle" /\ h.call = call
      BY <1>1, <1>3 DEF Thread
    <3> HIDE DEF h
    <3>3. /\ TypeOK' /\ role' = role /\ table' = table /\ copy' = copy /\ starts' = starts
          /\ \A c \in Conns : conn'[c] = conn[c]
      BY <1>3, <3>1, <3>2 DEF Clear, IInv, CommonInv, TypeOK, control
    <3>4. Placed("user", h)
      BY <1>1, <3>2 DEF Placed, OnStages
    <3>5. Client("user", h)
      BY <1>1, <2>1, <3>1, <3>2, <3>3, <3>4 DEF Client
    <3>6. QED
      BY <1>1, <3>2, <3>3, <3>5, ClientStep
  <2>3. CASE current # None
    <3> DEFINE r == Enter("user", current, conn[current])
               h == [at |-> "disconnect", on |-> current, holds |-> TRUE, then |-> "forget",
                     call |-> call]
    <3>1. current \in Conns
      BY <2>3 DEF IInv, CommonInv, TypeOK
    <3>2. conn' = [conn EXCEPT ![current] = r] /\ thread' = [thread EXCEPT !["user"] = h]
      BY <1>3, <2>3 DEF Clear
    <3>3. /\ h \in Thread /\ h.at = "disconnect" /\ h.on # None /\ h.then = "forget"
          /\ h.call = call
      BY <1>3, <2>3, <3>1 DEF Thread
    <3>4. /\ r \in Connection /\ r.op = conn[current].op /\ r.admits = conn[current].admits
          /\ r.socket = conn[current].socket /\ r.gone = conn[current].gone
      BY <1>1, <3>1, EnterRecord
    <3> HIDE DEF r, h
    <3>5. TypeOK' /\ role' = role /\ table' = table /\ copy' = copy /\ starts' = starts
      BY <1>3, <3>2, <3>3, <3>4 DEF Clear, IInv, CommonInv, TypeOK, control
    <3>6. conn'[current] = r /\ \A c \in Conns : c # current => conn'[c] = conn[c]
      BY <3>1, <3>2 DEF IInv, CommonInv, TypeOK
    <3>7. \A c \in Conns : /\ conn'[c].op # "accept" /\ conn'[c].admits = conn[c].admits
                           /\ conn'[c].socket = conn[c].socket /\ conn'[c].gone = conn[c].gone
      BY <1>1, <3>1, <3>4, <3>6
    <3>8. Placed("user", h)
      BY <1>1, <3>3 DEF Placed, OnStages
    <3>9. Client("user", h)
      BY <1>1, <2>1, <3>2, <3>3, <3>5, <3>7, <3>8 DEF Client
    <3>10. QED
      BY <1>1, <3>3, <3>5, <3>9, ClientStep
  <2>4. QED
    BY <2>2, <2>3
<1>4. QED
  BY <1>2, <1>3

\* clear() joins the worker and connect() starts a new one.
LEMMA ClearJoinIInv ==
    ASSUME IInv, ClearJoin PROVE IInv'
<1> DEFINE r(c) == Discard(conn[c])
<1>1. \A c \in Conns :
         /\ r(c) \in Connection /\ r(c).op = "none" /\ r(c).admits = conn[c].admits
         /\ r(c).socket = conn[c].socket /\ r(c).gone = conn[c].gone
  BY Discarded DEF IInv, CommonInv, TypeOK
<1>2. conn' = [c \in Conns |-> r(c)] /\ thread' = [thread EXCEPT !["user"] = Idle]
  BY DEF ClearJoin
<1> HIDE DEF r
<1>3. /\ role = "client" /\ role' = role /\ table' = table /\ copy' = copy
      /\ "user" \in Threads /\ "user" \notin Workers
  BY UserThread DEF ClearJoin
<1>4. TypeOK'
  <2>1. conn' \in [Conns -> Connection] /\ thread' \in [Threads -> Thread]
    BY <1>1, <1>2, IdleRecord DEF IInv, CommonInv, TypeOK
  <2>2. starts' \in 0 .. MaxStarts
    <3>1. starts \in 0 .. MaxStarts
      BY DEF IInv, CommonInv, TypeOK
    <3>2. starts' = starts \/ (starts' = starts + 1 /\ starts < MaxStarts)
      BY DEF ClearJoin, IInv, CommonInv, Counted
    <3>3. QED
      BY <3>1, <3>2, NetworkAssumption
  <2>3. /\ lambda' \in {"none", "posted"} /\ impl' \in BOOLEAN /\ running' \in BOOLEAN
        /\ UNCHANGED <<role, local, file, acceptor, table, copy, current, fault>>
    <3>1. impl \in BOOLEAN /\ running \in BOOLEAN
      BY DEF IInv, CommonInv, TypeOK
    <3>2. QED
      BY <3>1 DEF ClearJoin, transport
  <2>4. answers' \in 0 .. 2
    BY DEF ClearJoin
  <2>5. QED
    BY <2>1, <2>2, <2>3, <2>4 DEF IInv, CommonInv, TypeOK
<1>5. \A c \in Conns : /\ conn'[c].op # "accept" /\ conn'[c].admits = conn[c].admits
                       /\ conn'[c].socket = conn[c].socket /\ conn'[c].gone = conn[c].gone
  BY <1>1, <1>2
<1>6. Placed("user", Idle)
  BY <1>3, IdleRecord DEF Placed, OnStages
<1>7. Client("user", Idle)
  BY <1>2, <1>3, <1>5, <1>6, IdleRecord DEF Client
<1>8. QED
  BY <1>3, <1>4, <1>7, IdleRecord, ClientStep

\* The handlers of a client that connects preserve the invariant.
LEMMA ConnectIInv ==
    ASSUME IInv, NEW w \in Workers, NEW c \in Conns, Resolved(w, c) \/ ConnectStep(w, c)
    PROVE  IInv'
<1>1. /\ w \in Threads /\ w # "user" /\ running /\ thread[w] \in Thread
      /\ thread[w].at = "idle" /\ thread[w].on = None /\ thread[w].then = "idle"
      /\ thread = [thread EXCEPT ![w] = thread[w]] /\ Placed(w, thread[w])
  <2>1. Ready(w)
    BY DEF Resolved, ConnectStep
  <2>2. QED
    BY <2>1, ReadyWorker DEF IInv, CommonInv, TypeOK
<1>2. /\ role = "client" /\ conn[c] \in Connection
      /\ \A d \in Conns : conn[d].op # "accept"
  <2>1. conn[c].op \in {"resolve", "connect"}
    BY DEF Resolved, ConnectStep
  <2>2. QED
    BY <2>1 DEF IInv, CommonInv, Roles, TypeOK
<1>3. /\ UNCHANGED <<control, table, current, fault>> /\ answers' \in 0 .. 2
  <2>1. answers \in 0 .. 2
    BY DEF IInv, CommonInv, TypeOK
  <2>2. Answered => answers' \in 0 .. 2
    BY <2>1 DEF Answered
  <2>3. QED
    BY <2>1, <2>2 DEF Resolved, ConnectStep
<1>4. PICK r \in Connection, h \in Thread :
         /\ conn' = [conn EXCEPT ![c] = r] /\ thread' = [thread EXCEPT ![w] = h]
         /\ r.op # "accept" /\ r.admits = conn[c].admits
         /\ r.socket = conn[c].socket /\ r.gone = conn[c].gone
         /\ h.at \in {"idle", "established"} /\ h.then = "idle"
         /\ h.on = IF h.at = "idle" THEN None ELSE c
  <2>1. CASE Resolved(w, c)
    <3>1. PICK op \in {"connect", "none"} : conn' = [conn EXCEPT ![c] = [conn[c] EXCEPT !.op = op]]
      BY <2>1 DEF Resolved
    <3> DEFINE r == [conn[c] EXCEPT !.op = op]
    <3>2. /\ r \in Connection /\ r.op = op /\ r.admits = conn[c].admits
          /\ r.socket = conn[c].socket /\ r.gone = conn[c].gone
      BY <1>2 DEF Connection
    <3>3. thread' = [thread EXCEPT ![w] = thread[w]]
      BY <1>1, <2>1 DEF Resolved
    <3> HIDE DEF r
    <3>4. QED
      BY <1>1, <3>1, <3>2, <3>3 DEF r
  <2>2. CASE ConnectStep(w, c)
    <3> DEFINE q == [conn[c] EXCEPT !.op = "none"]
               timer == IF q.timer = "armed" THEN "off" ELSE q.timer
               r == [q EXCEPT !.timer = timer]
               h == [Idle EXCEPT !.at = "established", !.on = c]
    <3>1. /\ q \in Connection /\ q.op = "none" /\ q.admits = conn[c].admits
          /\ q.socket = conn[c].socket /\ q.gone = conn[c].gone
      BY <1>2 DEF Connection
    <3>2. conn' = [conn EXCEPT ![c] = r]
      BY <2>2 DEF ConnectStep, cancel_timeout
    <3> HIDE DEF q
    <3>3. timer \in {"off", "armed", "queued"}
      BY <3>1 DEF Connection
    <3> HIDE DEF timer
    <3>4. /\ r \in Connection /\ r.op = "none" /\ r.admits = conn[c].admits
          /\ r.socket = conn[c].socket /\ r.gone = conn[c].gone
      BY <3>1, <3>3 DEF Connection
    <3>5. h \in Thread /\ h.at = "established" /\ h.on = c /\ h.then = "idle"
      BY IdleRecord DEF Thread
    <3>6. \/ thread' = [thread EXCEPT ![w] = h]
          \/ thread' = [thread EXCEPT ![w] = thread[w]]
      BY <1>1, <2>2 DEF ConnectStep
    <3> HIDE DEF r, h
    <3>7. QED
      BY <1>1, <3>2, <3>4, <3>5, <3>6
  <2>3. QED
    BY <2>1, <2>2
<1>5. /\ TypeOK' /\ role' = role /\ table' = table /\ copy' = copy /\ starts' = starts
  BY <1>3, <1>4 DEF IInv, CommonInv, TypeOK, control
<1>6. conn'[c] = r /\ \A d \in Conns : d # c => conn'[d] = conn[d]
  BY <1>4 DEF IInv, CommonInv, TypeOK
<1>7. \A d \in Conns : /\ conn'[d].op # "accept" /\ conn'[d].admits = conn[d].admits
                       /\ conn'[d].socket = conn[d].socket /\ conn'[d].gone = conn[d].gone
  BY <1>2, <1>4, <1>6
<1>8. Placed(w, h)
  BY <1>4, NoneAssumption DEF Placed, OnStages
<1>9. Client(w, h)
  BY <1>1, <1>2, <1>4, <1>5, <1>7, <1>8 DEF Client
<1>10. QED
  BY <1>1, <1>5, <1>9, ClientStep

\* on_connect_impl preserves the invariant.
LEMMA ConnectedIInv ==
    ASSUME IInv, NEW w \in Workers, on_connect_impl(w) PROVE IInv'
<1>1. w \in Threads /\ thread[w].at = "established" /\ thread[w].at \in OnStages
  BY DEF on_connect_impl, At, Threads, OnStages
<1>2. /\ thread[w] \in Thread /\ thread[w].on \in Conns /\ thread[w].on # None
      /\ conn[thread[w].on] \in Connection /\ Placed(w, thread[w]) /\ w # "user"
  BY <1>1, OnConnection
<1>3. role = "client" /\ \A d \in Conns : conn[d].op # "accept"
  <2>1. role = "client"
    BY <1>1 DEF IInv, CommonInv, Roles, TypeOK
  <2>2. QED
    BY <2>1 DEF IInv, CommonInv, Roles
<1>4. /\ UNCHANGED <<control, table, fault>> /\ answers' \in 0 .. 2
      /\ current' \in Conns \cup {None}
  <2>1. answers \in 0 .. 2 /\ current \in Conns \cup {None}
    BY DEF IInv, CommonInv, TypeOK
  <2>2. Answered => answers' \in 0 .. 2
    BY <2>1 DEF Answered
  <2>3. QED
    BY <1>2, <2>1, <2>2 DEF on_connect_impl
<1>5. PICK c \in Conns : c = thread[w].on
  BY <1>2
<1>6. PICK r \in Connection, h \in Thread :
         /\ conn' = [conn EXCEPT ![c] = r] /\ thread' = [thread EXCEPT ![w] = h]
         /\ r.op = conn[c].op /\ r.admits = conn[c].admits
         /\ r.socket = conn[c].socket /\ r.gone = conn[c].gone
         /\ h.at \in {"idle", "disconnect", "receiving"} /\ h.then \in {"idle", "receiving"}
         /\ h.at = "idle" => h.on = None /\ h.then = "idle"
         /\ h.at # "idle" => h.on = c
  <2>1. CASE impl
    <3>1. PICK r \in Connection, h \in Thread : CallbackLeaves(w, c, conn[c], r, h)
      BY <1>1, <1>2, <1>5, <2>1, CallbackRecords DEF on_connect_impl
    <3>2. QED
      BY <3>1 DEF CallbackLeaves
  <2>2. CASE ~impl
    <3>1. conn' = [conn EXCEPT ![c] = conn[c]] /\ thread' = [thread EXCEPT ![w] = Idle]
      BY <2>2 DEF on_connect_impl, IInv, CommonInv, TypeOK
    <3>2. QED
      BY <1>2, <1>5, <3>1, IdleRecord
  <2>3. QED
    BY <2>1, <2>2
<1>7. /\ TypeOK' /\ role' = role /\ table' = table /\ copy' = copy /\ starts' = starts
  BY <1>4, <1>6 DEF IInv, CommonInv, TypeOK, control
<1>8. conn'[c] = r /\ \A d \in Conns : d # c => conn'[d] = conn[d]
  BY <1>6 DEF IInv, CommonInv, TypeOK
<1>9. \A d \in Conns : /\ conn'[d].op # "accept" /\ conn'[d].admits = conn[d].admits
                       /\ conn'[d].socket = conn[d].socket /\ conn'[d].gone = conn[d].gone
  BY <1>3, <1>6, <1>8
<1>10. Placed(w, h)
  BY <1>6, NoneAssumption DEF Placed, OnStages
<1>11. Client(w, h)
  BY <1>2, <1>3, <1>6, <1>7, <1>9, <1>10 DEF Client
<1>12. QED
  BY <1>1, <1>7, <1>11, ClientStep

(***************************************************************************)
(* The theorems                                                            *)
(***************************************************************************)

\* Every action preserves the invariant.
LEMMA NextIInv == IInv /\ [Next]_vars => IInv'
<1> SUFFICES ASSUME IInv, [Next]_vars PROVE IInv'
  OBVIOUS
<1>1. CASE \/ Start \/ Stop(TRUE) \/ Stop(FALSE) \/ StopPool \/ StopJoin \/ RemoveNext
           \/ ClearTable
  BY <1>1, StartIInv, StopIInv, StopJoinIInv, RemoveNextIInv, ClearTableIInv
<1>2. CASE Clear("connect") \/ Clear("destroy") \/ Forget \/ ResetImpl \/ ClearJoin
  BY <1>2, ClearIInv, ClearJoinIInv
<1>3. CASE \E t \in Threads : Disconnect(t) \/ Release(t) \/ NotifyDisconnect(t)
  BY <1>3, DisconnectIInv, ReleaseIInv, NotifyIInv
<1>4. ASSUME NEW w \in Workers,
             \/ OnStartTcp(w) \/ OnStartUnix(w) \/ on_new_client(w)
             \/ OnConnectStartTcp(w) \/ OnConnectStartUnix(w) \/ on_connect_impl(w)
             \/ Deliver(w) \/ Receive(w) \/ ReadOn(w)
      PROVE  IInv'
  BY <1>4, StartsIInv, NewClientIInv, ConnectedIInv, DeliverIInv, ReceiveIInv, ReadOnIInv
<1>5. ASSUME NEW w \in Workers, NEW c \in Conns,
             \/ AcceptedTcp(w, c) \/ AcceptedUnix(w, c) \/ ReadDone(w, c) \/ WriteDone(w, c)
             \/ Resolved(w, c) \/ ConnectStep(w, c) \/ TimerFires(w, c) \/ Post(w, c)
      PROVE  IInv'
  BY <1>5, AcceptedIInv, ReadDoneIInv, WriteDoneIInv, ConnectIInv, TimerIInv, PostIInv
     DEF AcceptedTcp, AcceptedUnix
<1>6. CASE \E c \in Conns : TimerExpires(c) \/ AppRelease(c)
  BY <1>6, TimerIInv
<1>7. CASE UNCHANGED vars
  <2>1. UNCHANGED <<role, running, table, copy, current, starts, conn, thread>>
    BY <1>7 DEF vars
  <2>2. UNCHANGED <<local, file, impl, lambda, acceptor, answers, fault>>
    BY <1>7 DEF vars
  <2>3. TypeOK
    BY DEF IInv, CommonInv
  <2>4. TypeOK'
    BY <2>1, <2>2, <2>3 DEF TypeOK
  <2>5. QED
    BY <2>1, <2>4, Irrelevant
<1>8. QED
  BY <1>1, <1>2, <1>3, <1>4, <1>5, <1>6, <1>7 DEF Next

\* The inductive invariant holds of every behaviour of a server or a client.
THEOREM Invariance == Spec => []IInv
BY InitIInv, NextIInv, PTL DEF Spec

\* Every variable keeps its type, whatever the interleaving of handlers, of
\* the application and of stop() or clear().
THEOREM TypeCorrect == Spec => []TypeOK
<1>1. IInv => TypeOK
  BY DEF IInv, CommonInv
<1>2. QED
  BY <1>1, Invariance, PTL

\* The server's table has no dead entry, and a connection that is read from
\* and has its socket is listed (server::on_new_client, on_client_disconnected).
THEOREM LiveTable == Spec => []TableIsLive
<1>1. IInv => TableIsLive
  BY DEF IInv, CommonInv, Roles, ServerInv, Listed, Reading, TypeOK, TableIsLive
<1>2. QED
  BY <1>1, Invariance, PTL

\* When stop(true) clears the table, every connection that was given to the
\* application has had its disconnect observers called.
THEOREM RemovalNotifies == Spec => []StopNotifiesAll
<1>1. IInv => StopNotifiesAll
  <2>1. SUFFICES ASSUME IInv, thread["user"].at = "removal", thread["user"].call = "remove",
                        copy = {}, NEW c \in Conns, conn[c].announced
                 PROVE  conn[c].gone > 0
    BY DEF StopNotifiesAll, At
  <2>2. ServerInv /\ Removing
    BY <2>1 DEF IInv, CommonInv, Roles, Removing
  <2>3. thread["user"].on = None
    BY <2>1, UserThread DEF OnStages
  <2>4. c \notin table
    BY <2>1, <2>2, <2>3, NoneAssumption DEF ServerInv, Removal
  <2>5. conn[c].gone # 0
    BY <2>1, <2>2, <2>4 DEF ServerInv, Announced
  <2>6. conn[c] \in Connection
    BY <2>1 DEF IInv, CommonInv, TypeOK
  <2>7. QED
    BY <2>5, <2>6 DEF Connection
<1>2. QED
  BY <1>1, Invariance, PTL

\* A server's connection that was never in the hands of two threads at a time
\* is disconnected once and is not used after its destruction.
THEOREM SingleThreaded == Spec => []OneThreadIsSafe
<1>1. IInv => OneThreadIsSafe
  <2>1. SUFFICES ASSUME IInv, role = "server", NEW c \in Conns, ~conn[c].shared
                 PROVE  /\ conn[c].gone <= 1
                        /\ \A w \in Workers : thread[w].at = "deliver" /\ thread[w].on = c
                                                => Alive(c)
    BY DEF OneThreadIsSafe
  <2>2. ServerInv /\ Alone(c)
    BY <2>1 DEF IInv, ServerInv, Unshared
  <2>3. ASSUME NEW w \in Workers, thread[w].at = "deliver", thread[w].on = c PROVE c \in table
    <3>1. w \in Threads /\ conn[c].socket
      BY <2>2, <2>3 DEF Alone, Threads
    <3>2. QED
      BY <2>2, <2>3, <3>1 DEF ServerInv, Reading
  <2>4. QED
    BY <2>2, <2>3 DEF Alone, Alive
<1>2. QED
  BY <1>1, Invariance, PTL
=============================================================================
