--------------------------- MODULE LoggingProofs ---------------------------
(***************************************************************************)
(* Proofs about the logger and the watchdog over its files, for any number *)
(* of threads, messages, destinations and files, and any bounds.           *)
(***************************************************************************)
EXTENDS LogFilesWatchdog, FiniteSetTheorems, FunctionTheorems, TLAPS

(***************************************************************************)
(* The inductive invariant of the logger, in parts                         *)
(***************************************************************************)
Appender == [dest : Destinations, impl : Nat]
SinkOptions == UNION {[OptionsOf(d) -> BOOLEAN] : d \in BoostDestinations}
SinkType == [dest : BoostDestinations, async : BOOLEAN, option : SinkOptions]
Creating == [at : {"created"}, lv : LogLevels, id : Messages]
Writing == [at : {"write"}, id : Messages, i : Nat, n : Nat]

LoggerTypes ==
    /\ appenders \in Seq(Appender)
    /\ boostImpl \in Nat /\ option \in [OptionNames -> BOOLEAN]
    /\ sink \in SinkType \cup {NoSink}
    /\ writer \in [Writers -> {Idle} \cup Creating \cup Writing]
    /\ created \in 0 .. MaxMessages
    /\ records \in Seq(Messages)
    /\ out \in [Messages -> [Destinations -> Nat]]
    /\ ledger \in [Messages -> SUBSET Nat]

BoostAppenders == {i \in DOMAIN appenders : appenders[i].dest \in BoostDestinations}

\* There is a sink once a boost destination has been added; it has that destination
\* and those options of the logger that are for it, which may not be changed any more.
SinkMade ==
    /\ (boostImpl = 0) <=> (sink = NoSink)
    /\ sink # NoSink => \A o \in OptionsOf(sink.dest) : sink.option[o] = option[o]
    /\ (sink = NoSink) <=> (BoostAppenders = {})
    /\ sink = NoSink => records = <<>>
    /\ OneBoost => \A i \in BoostAppenders : appenders[i].dest = sink.dest

\* Each message is in the hands of one thread.
Messaging ==
    /\ \A w \in Writers : writer[w] # Idle => writer[w].id <= created
    /\ \A v, w \in Writers : writer[v] # Idle /\ writer[w] # Idle /\ writer[v].id = writer[w].id
                                => v = w
    /\ \A w \in Writers : writer[w].at = "created" => ledger[writer[w].id] = {}
    /\ \A m \in Messages : m > created => ledger[m] = {}
    /\ \A m \in Messages : ledger[m] \subseteq DOMAIN appenders

\* The places of x among the first n elements of q.
Places(q, n, x) == {i \in 1 .. n : q[i] = x}

\* How often a message has reached a destination or will from the sink's queue.
Reach(o, s, r, m, d) == o[m][d] + (IF s.dest # d THEN 0 ELSE Cardinality(Places(r, Len(r), m)))

\* The appenders of I that are for a destination, and how many they are.
For(a, I, d) == {i \in I : a[i].dest = d}
Among(a, I, d) == Cardinality(For(a, I, d))

InWriteOf(wr, m) == \E w \in Writers : wr[w].at = "write" /\ wr[w].id = m

\* write() walks along the appenders there are, which the message is owed to.
Positions ==
    fault = "none" => \A w \in Writers : writer[w].at = "write" =>
       /\ ledger[writer[w].id] = 1 .. writer[w].n
       /\ writer[w].n = Len(appenders) /\ writer[w].i \in 1 .. writer[w].n + 1

\* It has served the appenders before its position, and no other.
Served ==
    OneBoost /\ fault = "none" =>
       /\ \A w \in Writers : writer[w].at = "write" =>
             \A d \in Destinations : Reach(out, sink, records, writer[w].id, d)
                                        = Among(appenders, 1 .. writer[w].i - 1, d)
       /\ \A m \in Messages : ~InWriteOf(writer, m) =>
             \A d \in Destinations : Reach(out, sink, records, m, d) = Among(appenders, ledger[m], d)

LoggerInv == LoggerTypes /\ SinkMade /\ Messaging /\ Positions /\ Served

(***************************************************************************)
(* The inductive invariant of the watchdog, in parts                       *)
(***************************************************************************)
Others == {-i : i \in 1 .. Len(Foreign)}
Entries == Own \cup Others
Times == 0 .. MaxClock
SeenType == UNION {[D -> Times] : D \in SUBSET Entries}
Scanning == [at : {"scan"}, watch : Watches, seen : SeenType, left : SUBSET Entries]
Acting == [at : {"act"}, watch : Watches, seen : SeenType, todo : SUBSET Entries]

FileTypes ==
    /\ program \in {"logs", "watched"} /\ pattern \in Patterns
    /\ clock \in Times /\ mtime \in [Own -> Times \cup {Gone}]
    /\ foreign \subseteq Others
    /\ opened \in Nat /\ open \in Nat
    /\ tied \in BOOLEAN /\ overlapped \in BOOLEAN
    /\ pending \subseteq Watches
    /\ pass \in [Threads -> {NoPass} \cup Scanning \cup Acting]
    /\ \A t \in Threads : pass[t].at = "act" => pass[t].todo \subseteq DOMAIN pass[t].seen
    /\ program = "logs" => pending = {} /\ \A t \in Threads : pass[t] = NoPass

\* The file that is open is the last one, and files are as old as their numbers say.
FilesOrdered ==
    program = "watched" =>
       /\ open <= NextFile
       /\ \A f \in Present : f <= open /\ mtime[f] <= clock
       /\ \A f, g \in Present : f < g => mtime[f] <= mtime[g]

\* What a pass remembers of their times agrees with that, though it was read earlier.
SeenOrder(p) ==
    p.at # "idle" =>
       \A f \in DOMAIN p.seen \cap Own :
          /\ f <= open /\ p.seen[f] <= clock
          /\ \A g \in Present : /\ f < g => p.seen[f] <= mtime[g]
                                /\ g < f => mtime[g] <= p.seen[f]
          /\ \A g \in DOMAIN p.seen \cap Own : f < g => p.seen[f] <= p.seen[g]

\* A pass spares a file that was not older, if it deletes one.
Spares(p) ==
    p.at = "act" => \A f \in p.todo : \E g \in DOMAIN p.seen \ p.todo : p.seen[f] <= p.seen[g]

\* What a pass has listed, its pattern matches.
MatchedOnly(p) == /\ p.at # "idle" => \A f \in DOMAIN p.seen : Matched(f)
                  /\ p.at = "scan" => \A f \in p.left : Matched(f)

PassesOrdered == \A t \in Threads : SeenOrder(pass[t]) /\ Spares(pass[t]) /\ MatchedOnly(pass[t])
ForeignMatched == \A f \in Others \ foreign : Matched(f)

\* There are max_files newer files than f.
Newer(P, f) == {g \in P : f < g}
Outnumbered(f) == Cardinality(Newer(Matching, f)) >= MaxFiles

\* While time stamps differ and what matches is the log's: a file that is to be deleted,
\* or was deleted by the other thread's pass, has max_files newer ones.
KeepsNewer(p) ==
    /\ p.at = "act" => \A f \in p.todo : Outnumbered(f)
    /\ p.at = "scan" => \A f \in DOMAIN p.seen : f \in Matching \/ Outnumbered(f)
NewerKept == Mistaken = {} /\ ~tied => \A t \in Threads : KeepsNewer(pass[t])

\* While passes do not overlap: what a pass has seen is there, and what it is not
\* going to delete is enough.
KeepsRest(p) ==
    /\ p.at = "scan" => DOMAIN p.seen \subseteq Matching
    /\ p.at = "act" /\ p.todo # {} => Cardinality((Matching \cap DOMAIN p.seen) \ p.todo) >= MaxFiles
RestKept ==
    ~overlapped =>
       /\ \A t, u \in Threads : pass[t].at # "idle" /\ pass[u].at # "idle" => t = u
       /\ \A t \in Threads : KeepsRest(pass[t])

WatchInv == /\ FileTypes /\ FilesOrdered /\ PassesOrdered /\ ForeignMatched
            /\ NewerKept /\ RestKept

IInv == LoggerInv /\ WatchInv

(***************************************************************************)
(* Counting the places of an element in a sequence                         *)
(***************************************************************************)

\* The places are finitely many; among no elements there is none.
LEMMA PlacesFinite ==
    ASSUME NEW q, NEW n \in Nat, NEW x
    PROVE  /\ IsFiniteSet(Places(q, n, x))
           /\ Cardinality(Places(q, n, x)) \in Nat
           /\ n = 0 => Cardinality(Places(q, n, x)) = 0
<1>1. IsFiniteSet(1 .. n) /\ Places(q, n, x) \subseteq 1 .. n
  BY FS_Interval DEF Places
<1>2. IsFiniteSet(Places(q, n, x))
  BY <1>1, FS_Subset
<1>3. n = 0 => Places(q, n, x) = {}
  BY DEF Places
<1>4. QED
  BY <1>2, <1>3, FS_CardinalityType, FS_EmptySet

\* One element more is one place more, or none.
LEMMA PlacesNext ==
    ASSUME NEW q, NEW n \in Nat, NEW x
    PROVE  Cardinality(Places(q, n + 1, x)) =
              Cardinality(Places(q, n, x)) + (IF q[n + 1] = x THEN 1 ELSE 0)
<1>1. IsFiniteSet(Places(q, n, x)) /\ Cardinality(Places(q, n, x)) \in Nat
  BY PlacesFinite
<1>2. n + 1 \notin Places(q, n, x)
  BY DEF Places
<1>3. Cardinality(Places(q, n, x) \cup {n + 1}) = Cardinality(Places(q, n, x)) + 1
  BY <1>1, <1>2, FS_AddElement
<1>4. Places(q, n + 1, x) = IF q[n + 1] = x THEN Places(q, n, x) \cup {n + 1}
                                            ELSE Places(q, n, x)
  BY DEF Places
<1>5. QED
  BY <1>1, <1>3, <1>4

\* Appending y adds a place of y and of nothing else.
LEMMA PlacesAppend ==
    ASSUME NEW S, NEW q \in Seq(S), NEW y \in S, NEW x
    PROVE  Cardinality(Places(Append(q, y), Len(Append(q, y)), x)) =
              Cardinality(Places(q, Len(q), x)) + (IF y = x THEN 1 ELSE 0)
<1> DEFINE r == Append(q, y)
<1>1. /\ Len(q) \in Nat /\ Len(r) = Len(q) + 1
      /\ r[Len(q) + 1] = y /\ \A i \in 1 .. Len(q) : r[i] = q[i]
  OBVIOUS
<1> HIDE DEF r
<1>2. Places(r, Len(q), x) = Places(q, Len(q), x)
  BY <1>1 DEF Places
<1>3. Cardinality(Places(r, Len(q) + 1, x)) =
         Cardinality(Places(r, Len(q), x)) + (IF r[Len(q) + 1] = x THEN 1 ELSE 0)
  BY <1>1, PlacesNext
<1>4. QED
  BY <1>1, <1>2, <1>3 DEF r

\* Taking the head away takes a place of it away and of nothing else.
LEMMA PlacesTail ==
    ASSUME NEW S, NEW q \in Seq(S), q # <<>>, NEW x
    PROVE  /\ Head(q) \in S /\ Tail(q) \in Seq(S)
           /\ Cardinality(Places(q, Len(q), x)) =
                 Cardinality(Places(Tail(q), Len(Tail(q)), x))
                    + (IF Head(q) = x THEN 1 ELSE 0)
<1> DEFINE r == Tail(q)
           P == Places(q, Len(q), x)
           R == Places(r, Len(r), x)
           f == [i \in R |-> i + 1]
<1>1. /\ r \in Seq(S) /\ Len(r) = Len(q) - 1 /\ Len(q) \in Nat \ {0} /\ Len(r) \in Nat
      /\ \A i \in 1 .. Len(r) : r[i] = q[i + 1]
      /\ Head(q) \in S /\ Head(q) = q[1]
  OBVIOUS
<1> HIDE DEF r
<1>2. \A i \in P \ {1} : i - 1 \in R /\ f[i - 1] = i
  BY <1>1 DEF Places
<1>3. f \in Bijection(R, P \ {1})
  <2>1. \A i \in R : f[i] \in P \ {1}
    BY <1>1 DEF Places
  <2>2. \A i, j \in R : f[i] = f[j] => i = j
    BY <1>1 DEF Places
  <2>3. QED
    BY <1>2, <2>1, <2>2, Fun_IsBij
<1>4. IsFiniteSet(P) /\ Cardinality(P) \in Nat /\ IsFiniteSet(R) /\ Cardinality(R) \in Nat
  BY <1>1, PlacesFinite
<1>5. Cardinality(P \ {1}) = Cardinality(R)
  <2>1. ExistsBijection(R, P \ {1})
    BY <1>3 DEF ExistsBijection
  <2> HIDE DEF P, R, f
  <2>2. QED
    BY <1>4, <2>1, FS_Bijection
<1>6. 1 \in P <=> Head(q) = x
  BY <1>1 DEF Places
<1> HIDE DEF P, R, f
<1>7. Cardinality(P \ {1}) = IF 1 \in P THEN Cardinality(P) - 1 ELSE Cardinality(P)
  BY <1>4, FS_RemoveElement
<1>8. Cardinality(P) = Cardinality(R) + (IF Head(q) = x THEN 1 ELSE 0)
  BY <1>4, <1>5, <1>6, <1>7
<1>9. QED
  BY <1>1, <1>8 DEF r, P, R

\* An empty queue has no places.
LEMMA PlacesEmpty == \A x : Cardinality(Places(<<>>, Len(<<>>), x)) = 0
<1> SUFFICES ASSUME NEW x PROVE Cardinality(Places(<<>>, Len(<<>>), x)) = 0
  OBVIOUS
<1>1. Places(<<>>, Len(<<>>), x) = {}
  BY DEF Places
<1>2. QED
  BY <1>1, FS_EmptySet

(***************************************************************************)
(* Counting the appenders of a destination                                 *)
(***************************************************************************)

\* Among finitely many appenders a destination is a number of times.
LEMMA AmongFinite ==
    ASSUME NEW a, NEW n \in Nat, NEW d
    PROVE  /\ IsFiniteSet(For(a, 1 .. n, d))
           /\ Among(a, 1 .. n, d) \in Nat
<1>1. IsFiniteSet(1 .. n) /\ For(a, 1 .. n, d) \subseteq 1 .. n
  BY FS_Interval DEF For
<1>2. IsFiniteSet(For(a, 1 .. n, d))
  BY <1>1, FS_Subset
<1>3. QED
  BY <1>2, FS_CardinalityType DEF Among

\* Among no appenders there is none.
LEMMA AmongNone == ASSUME NEW a, NEW d PROVE Among(a, {}, d) = 0
<1>1. For(a, {}, d) = {}
  BY DEF For
<1>2. QED
  BY <1>1, FS_EmptySet DEF Among

\* One appender more counts for its destination.
LEMMA AmongNext ==
    ASSUME NEW a, NEW n \in Nat, NEW d
    PROVE  Among(a, 1 .. n + 1, d) = Among(a, 1 .. n, d) + (IF a[n + 1].dest = d THEN 1 ELSE 0)
<1> DEFINE P == For(a, 1 .. n, d)
           Q == For(a, 1 .. n + 1, d)
<1>1. IsFiniteSet(P) /\ Cardinality(P) \in Nat
  BY AmongFinite DEF Among
<1>2. n + 1 \notin P
  BY DEF For
<1>3. Q = IF a[n + 1].dest = d THEN P \cup {n + 1} ELSE P
  BY DEF For
<1>4. Among(a, 1 .. n, d) = Cardinality(P) /\ Among(a, 1 .. n + 1, d) = Cardinality(Q)
  BY DEF Among
<1> HIDE DEF P, Q
<1>5. Cardinality(P \cup {n + 1}) = Cardinality(P) + 1
  BY <1>1, <1>2, FS_AddElement
<1>6. QED
  BY <1>1, <1>3, <1>4, <1>5

\* Fewer appenders count for no more.
LEMMA AmongLess ==
    ASSUME NEW a, NEW m \in Nat, NEW n \in Nat, m <= n, NEW d
    PROVE  Among(a, 1 .. m, d) <= Among(a, 1 .. n, d)
<1>1. For(a, 1 .. m, d) \subseteq For(a, 1 .. n, d)
  BY DEF For
<1>2. IsFiniteSet(For(a, 1 .. n, d))
  BY AmongFinite
<1>3. QED
  BY <1>1, <1>2, FS_Subset DEF Among

(***************************************************************************)
(* What has reached a destination                                          *)
(***************************************************************************)
OutType == [Messages -> [Destinations -> Nat]]
Given(o, k, e) == [o EXCEPT ![k][e] = @ + 1]
Queued(r, k) == Append(r, k)

\* It is a number.
LEMMA ReachType ==
    ASSUME NEW o \in OutType, NEW s, NEW r \in Seq(Messages), NEW m \in Messages, NEW d \in Destinations
    PROVE  Reach(o, s, r, m, d) \in Nat /\ o[m][d] \in Nat /\ Cardinality(Places(r, Len(r), m)) \in Nat
<1>1. o[m][d] \in Nat /\ Len(r) \in Nat
  BY DEF OutType
<1>2. Cardinality(Places(r, Len(r), m)) \in Nat
  BY <1>1, PlacesFinite
<1>3. QED
  BY <1>1, <1>2 DEF Reach

\* A destination gets a message.
LEMMA OutCount ==
    ASSUME NEW o \in OutType, NEW k \in Messages, NEW e \in Destinations
    PROVE  /\ Given(o, k, e) \in OutType
           /\ \A m \in Messages, d \in Destinations :
                 Given(o, k, e)[m][d] = o[m][d] + (IF m = k /\ d = e THEN 1 ELSE 0)
<1>1. o[k] \in [Destinations -> Nat] /\ o[k][e] \in Nat
  BY DEF OutType
<1> DEFINE row == [o[k] EXCEPT ![e] = o[k][e] + 1]
<1>2. row \in [Destinations -> Nat] /\ \A d \in Destinations : row[d] = o[k][d] + (IF d = e THEN 1 ELSE 0)
  <2>1. \A d \in Destinations : o[k][d] \in Nat
    BY <1>1
  <2>2. QED
    BY <1>1, <2>1
<1>3. Given(o, k, e) = [o EXCEPT ![k] = row]
  BY DEF OutType, Given
<1> HIDE DEF row
<1>4. [o EXCEPT ![k] = row] \in OutType
  BY <1>2 DEF OutType
<1>5. ASSUME NEW m \in Messages, NEW d \in Destinations
      PROVE  [o EXCEPT ![k] = row][m][d] = o[m][d] + (IF m = k /\ d = e THEN 1 ELSE 0)
  <2>1. [o EXCEPT ![k] = row][m] = IF m = k THEN row ELSE o[m]
    BY DEF OutType
  <2>2. o[m][d] \in Nat
    BY DEF OutType
  <2>3. QED
    BY <1>2, <2>1, <2>2
<1>6. QED
  BY <1>3, <1>4, <1>5

\* So the message has reached it once more.
LEMMA ReachOut ==
    ASSUME NEW o \in OutType, NEW s, NEW r \in Seq(Messages), NEW k \in Messages, NEW e \in Destinations,
           NEW m \in Messages, NEW d \in Destinations
    PROVE  Reach(Given(o, k, e), s, r, m, d)
              = Reach(o, s, r, m, d) + (IF m = k /\ d = e THEN 1 ELSE 0)
<1> DEFINE p == Given(o, k, e)
<1>1. p[m][d] = o[m][d] + (IF m = k /\ d = e THEN 1 ELSE 0)
  BY OutCount
<1>2. o[m][d] \in Nat /\ Cardinality(Places(r, Len(r), m)) \in Nat
  BY ReachType
<1> HIDE DEF p
<1>3. Reach(p, s, r, m, d) = Reach(o, s, r, m, d) + (IF m = k /\ d = e THEN 1 ELSE 0)
  BY <1>1, <1>2 DEF Reach
<1>4. QED
  BY <1>3 DEF p

\* A message that is in the queue of the sink has reached the sink's destination.
LEMMA ReachQueued ==
    ASSUME NEW o \in OutType, NEW s, NEW r \in Seq(Messages), NEW k \in Messages,
           NEW e \in Destinations, s.dest = e, NEW m \in Messages, NEW d \in Destinations
    PROVE  Reach(o, s, Queued(r, k), m, d)
              = Reach(o, s, r, m, d) + (IF m = k /\ d = e THEN 1 ELSE 0)
<1> DEFINE q == Append(r, k)
<1>1. Cardinality(Places(q, Len(q), m)) = Cardinality(Places(r, Len(r), m)) + (IF k = m THEN 1 ELSE 0)
  BY PlacesAppend
<1>2. o[m][d] \in Nat /\ Cardinality(Places(r, Len(r), m)) \in Nat
  BY ReachType
<1> HIDE DEF q
<1>3. Reach(o, s, q, m, d) = Reach(o, s, r, m, d) + (IF m = k /\ d = e THEN 1 ELSE 0)
  BY <1>1, <1>2 DEF Reach
<1>4. QED
  BY <1>3 DEF q, Queued

\* Writing it changes nothing of that.
LEMMA ReachTaken ==
    ASSUME NEW o \in OutType, NEW s, s.dest \in Destinations,
           NEW r \in Seq(Messages), r # <<>>,
           NEW m \in Messages, NEW d \in Destinations
    PROVE  /\ Head(r) \in Messages /\ Tail(r) \in Seq(Messages)
           /\ Reach(Given(o, Head(r), s.dest), s, Tail(r), m, d) = Reach(o, s, r, m, d)
<1> DEFINE q == Tail(r)
           k == Head(r)
<1>1. /\ k \in Messages /\ q \in Seq(Messages)
      /\ Cardinality(Places(r, Len(r), m)) = Cardinality(Places(q, Len(q), m)) + (IF k = m THEN 1 ELSE 0)
  BY PlacesTail
<1> HIDE DEF q, k
<1>2. /\ o[m][d] \in Nat /\ Cardinality(Places(q, Len(q), m)) \in Nat
  BY <1>1, ReachType
<1>3. Reach(Given(o, k, s.dest), s, q, m, d)
        = Reach(o, s, q, m, d) + (IF m = k /\ d = s.dest THEN 1 ELSE 0)
  BY <1>1, ReachOut
<1>4. Reach(o, s, r, m, d) = Reach(o, s, q, m, d) + (IF m = k /\ d = s.dest THEN 1 ELSE 0)
  BY <1>1, <1>2 DEF Reach
<1>5. QED
  BY <1>1, <1>3, <1>4 DEF q, k

(***************************************************************************)
(* The steps of the logger preserve its invariant                          *)
(***************************************************************************)

\* A writer that is not idle.
LEMMA WriterFacts ==
    ASSUME LoggerTypes, NEW w \in Writers
    PROVE  /\ writer[w].at \in {"idle", "created", "write"}
           /\ writer[w] = Idle <=> writer[w].at = "idle"
           /\ writer[w].at = "created" => writer[w] \in Creating /\ writer[w].id \in Messages
           /\ writer[w].at = "write" => /\ writer[w] \in Writing /\ writer[w].id \in Messages
                                        /\ writer[w].i \in Nat /\ writer[w].n \in Nat
<1>1. writer[w] \in {Idle} \cup Creating \cup Writing
  BY DEF LoggerTypes
<1>2. QED
  BY <1>1 DEF Idle, Creating, Writing

\* Steps that leave the destinations, the writers and the records alone.
LEMMA LoggerKept ==
    ASSUME LoggerInv, fault' = "none" => fault = "none",
           UNCHANGED <<option, boostImpl, appenders, sink, writer, created, records, out, ledger>>
    PROVE  LoggerInv'
<1>0. /\ option' = option /\ boostImpl' = boostImpl /\ appenders' = appenders /\ sink' = sink
      /\ writer' = writer /\ created' = created /\ records' = records /\ out' = out /\ ledger' = ledger
  OBVIOUS
<1>1. LoggerTypes'
  BY <1>0 DEF LoggerInv, LoggerTypes
<1>2. BoostAppenders' = BoostAppenders /\ OneBoost' = OneBoost
  BY <1>0 DEF BoostAppenders, OneBoost
<1>3. SinkMade'
  BY <1>0, <1>2 DEF LoggerInv, SinkMade
<1>4. Messaging'
  BY <1>0 DEF LoggerInv, Messaging
<1>5. Positions' /\ Served'
  BY <1>0, <1>2 DEF LoggerInv, Positions, Served
<1>6. QED
  BY <1>1, <1>3, <1>4, <1>5 DEF LoggerInv

\* The options are changed only while there is no sink.
LEMMA OptionStep ==
    ASSUME LoggerInv, NEW o \in OptionNames, set_option(o)
    PROVE  LoggerInv'
<1>0. /\ boostImpl = 0 /\ option' = [option EXCEPT ![o] = ~option[o]]
      /\ UNCHANGED <<boostImpl, appenders, sink, writer, created, records, out, ledger, fault>>
  BY DEF set_option, writeVars
<1>1. option' \in [OptionNames -> BOOLEAN]
  BY <1>0 DEF LoggerInv, LoggerTypes
<1>2. LoggerTypes'
  BY <1>0, <1>1 DEF LoggerInv, LoggerTypes
<1>3. BoostAppenders' = BoostAppenders /\ OneBoost' = OneBoost
  BY <1>0 DEF BoostAppenders, OneBoost
<1>4. SinkMade'
  BY <1>0, <1>3 DEF LoggerInv, SinkMade
<1>5. Messaging'
  BY <1>0 DEF LoggerInv, Messaging
<1>6. Positions' /\ Served'
  BY <1>0, <1>3 DEF LoggerInv, Positions, Served
<1>7. QED
  BY <1>2, <1>4, <1>5, <1>6 DEF LoggerInv

\* A new sink has the options of its destination.
LEMMA NewSinkFacts ==
    ASSUME option \in [OptionNames -> BOOLEAN], NEW d \in BoostDestinations, NEW async \in BOOLEAN
    PROVE  /\ NewSink(d, async) \in SinkType /\ NewSink(d, async).dest = d
           /\ \A o \in OptionsOf(d) : NewSink(d, async).option[o] = option[o]
<1> DEFINE f == [o \in OptionsOf(d) |-> option[o]]
<1>1. OptionsOf(d) \subseteq OptionNames
  BY DEF OptionsOf, OptionNames
<1>2. f \in [OptionsOf(d) -> BOOLEAN] /\ \A o \in OptionsOf(d) : f[o] = option[o]
  BY <1>1
<1>3. NewSink(d, async) = [dest |-> d, async |-> async, option |-> f]
  BY DEF NewSink
<1> HIDE DEF f
<1>4. f \in SinkOptions
  BY <1>2 DEF SinkOptions
<1>5. QED
  BY <1>2, <1>3, <1>4 DEF SinkType

\* A destination more, while nobody writes.
LEMMA AppendersGrow ==
    ASSUME LoggerTypes, Messaging, NEW a \in Appender, appenders' = Append(appenders, a)
    PROVE  /\ appenders' \in Seq(Appender) /\ Len(appenders') = Len(appenders) + 1
           /\ Len(appenders) \in Nat /\ DOMAIN appenders = 1 .. Len(appenders)
           /\ DOMAIN appenders' = 1 .. Len(appenders) + 1
           /\ appenders'[Len(appenders) + 1] = a
           /\ \A i \in DOMAIN appenders : appenders'[i] = appenders[i]
           /\ \A m \in Messages : \A d : Among(appenders', ledger[m], d) = Among(appenders, ledger[m], d)
           /\ BoostAppenders' = IF a.dest \in BoostDestinations
                                THEN BoostAppenders \cup {Len(appenders) + 1} ELSE BoostAppenders
           /\ Len(appenders) + 1 \notin BoostAppenders
           /\ IsFiniteSet(BoostAppenders) /\ Cardinality(BoostAppenders) \in Nat
           /\ OneBoost' <=> IF a.dest \in BoostDestinations THEN BoostAppenders = {} ELSE OneBoost
<1>1. /\ appenders' \in Seq(Appender) /\ Len(appenders') = Len(appenders) + 1
      /\ Len(appenders) \in Nat /\ DOMAIN appenders = 1 .. Len(appenders)
      /\ DOMAIN appenders' = 1 .. Len(appenders) + 1
      /\ appenders'[Len(appenders) + 1] = a
      /\ \A i \in DOMAIN appenders : appenders'[i] = appenders[i]
  BY DEF LoggerTypes
<1>2. ASSUME NEW m \in Messages, NEW d
      PROVE  Among(appenders', ledger[m], d) = Among(appenders, ledger[m], d)
  <2>1. \A i \in ledger[m] : appenders'[i] = appenders[i]
    BY <1>1 DEF Messaging
  <2>2. QED
    BY <2>1 DEF Among, For
<1>3. BoostAppenders' = IF a.dest \in BoostDestinations
                        THEN BoostAppenders \cup {Len(appenders) + 1} ELSE BoostAppenders
  BY <1>1 DEF BoostAppenders
<1>4. Len(appenders) + 1 \notin BoostAppenders
  BY <1>1 DEF BoostAppenders
<1>5. IsFiniteSet(BoostAppenders)
  <2>1. IsFiniteSet(1 .. Len(appenders)) /\ BoostAppenders \subseteq 1 .. Len(appenders)
    BY <1>1, FS_Interval DEF BoostAppenders
  <2>2. QED
    BY <2>1, FS_Subset
<1>6. Cardinality(BoostAppenders) \in Nat
  BY <1>5, FS_CardinalityType
<1>7. OneBoost' <=> IF a.dest \in BoostDestinations THEN BoostAppenders = {} ELSE OneBoost
  <2>1. /\ OneBoost <=> Cardinality(BoostAppenders) <= 1
        /\ OneBoost' <=> Cardinality(BoostAppenders') <= 1
    BY DEF OneBoost, BoostAppenders
  <2>2. Cardinality(BoostAppenders \cup {Len(appenders) + 1}) = Cardinality(BoostAppenders) + 1
    BY <1>4, <1>5, FS_AddElement
  <2>3. (Cardinality(BoostAppenders) = 0) <=> (BoostAppenders = {})
    BY <1>5, FS_EmptySet
  <2>4. CASE a.dest \in BoostDestinations
    <3>1. Cardinality(BoostAppenders') = Cardinality(BoostAppenders) + 1
      BY <1>3, <2>2, <2>4
    <3>2. OneBoost' <=> BoostAppenders = {}
      BY <1>6, <2>1, <2>3, <3>1
    <3>3. QED
      BY <2>4, <3>2
  <2>5. CASE a.dest \notin BoostDestinations
    BY <1>3, <2>1, <2>5
  <2>6. QED
    BY <2>4, <2>5
<1>8. QED
  BY <1>1, <1>2, <1>3, <1>4, <1>5, <1>6, <1>7

\* A destination is added: messages under way meet a fault, and the others are owed to
\* the destinations there were.
LEMMA DestinationStep ==
    ASSUME LoggerInv, NEW a \in Appender, appenders' = Append(appenders, a),
           fault' = IF \E w \in Writers : writer[w].at = "write" THEN "appenders" ELSE fault,
           UNCHANGED <<option, writer, created, out, ledger>>,
           \/ a.dest \notin BoostDestinations /\ UNCHANGED <<sink, records, boostImpl>>
           \/ /\ a.dest \in BoostDestinations
              /\ \E async \in BOOLEAN : sink' = NewSink(a.dest, async)
              /\ records' = <<>> /\ boostImpl' = boostImpl + 1
    PROVE  LoggerInv'
<1>0. LoggerTypes /\ SinkMade /\ Messaging /\ Positions /\ Served
  BY DEF LoggerInv
<1>1. /\ appenders' \in Seq(Appender) /\ Len(appenders') = Len(appenders) + 1
      /\ Len(appenders) \in Nat /\ DOMAIN appenders = 1 .. Len(appenders)
      /\ DOMAIN appenders' = 1 .. Len(appenders) + 1
      /\ appenders'[Len(appenders) + 1] = a
      /\ \A i \in DOMAIN appenders : appenders'[i] = appenders[i]
  BY <1>0, AppendersGrow
<1>2. \A m \in Messages : \A d : Among(appenders', ledger[m], d) = Among(appenders, ledger[m], d)
  BY <1>0, AppendersGrow
<1>3. /\ BoostAppenders' = IF a.dest \in BoostDestinations
                           THEN BoostAppenders \cup {Len(appenders) + 1} ELSE BoostAppenders
      /\ OneBoost' <=> IF a.dest \in BoostDestinations THEN BoostAppenders = {} ELSE OneBoost
  BY <1>0, AppendersGrow
<1>4. /\ option' = option /\ writer' = writer /\ created' = created /\ out' = out /\ ledger' = ledger
  OBVIOUS
<1>5. /\ boostImpl' \in Nat /\ sink' \in SinkType \cup {NoSink} /\ records' \in Seq(Messages)
      /\ a.dest \in BoostDestinations =>
            /\ boostImpl' # 0 /\ sink' # NoSink /\ sink'.dest = a.dest /\ records' = <<>>
            /\ \A o \in OptionsOf(a.dest) : sink'.option[o] = option[o]
      /\ a.dest \notin BoostDestinations =>
            boostImpl' = boostImpl /\ sink' = sink /\ records' = records
  <2>1. CASE a.dest \notin BoostDestinations
    BY <1>0, <2>1 DEF LoggerTypes
  <2>2. CASE a.dest \in BoostDestinations
    <3>1. PICK async \in BOOLEAN : sink' = NewSink(a.dest, async)
      BY <2>2
    <3>2. /\ sink' \in SinkType /\ sink'.dest = a.dest
          /\ \A o \in OptionsOf(a.dest) : sink'.option[o] = option[o]
      BY <1>0, <2>2, <3>1, NewSinkFacts DEF LoggerTypes
    <3>3. sink' # NoSink
      BY <2>2, <3>2 DEF NoSink, BoostDestinations
    <3>4. boostImpl' \in Nat /\ boostImpl' # 0 /\ records' = <<>> /\ records' \in Seq(Messages)
      <4>1. boostImpl' = boostImpl + 1 /\ boostImpl \in Nat /\ records' = <<>>
        BY <1>0, <2>2 DEF LoggerTypes
      <4>2. QED
        BY <4>1
    <3>5. QED
      BY <2>2, <3>2, <3>3, <3>4
  <2>3. QED
    BY <2>1, <2>2
<1>6. LoggerTypes'
  BY <1>0, <1>1, <1>4, <1>5 DEF LoggerTypes
<1>7. SinkMade'
  <2>1. CASE a.dest \notin BoostDestinations
    <3>1. \A i \in BoostAppenders : appenders'[i] = appenders[i]
      BY <1>1 DEF BoostAppenders
    <3>2. QED
      BY <1>0, <1>3, <1>4, <1>5, <2>1, <3>1 DEF SinkMade
  <2>2. CASE a.dest \in BoostDestinations
    <3>1. OneBoost' => BoostAppenders' = {Len(appenders) + 1}
      BY <1>3, <2>2
    <3>2. QED
      BY <1>1, <1>3, <1>4, <1>5, <2>2, <3>1 DEF SinkMade
  <2>3. QED
    BY <2>1, <2>2
<1>8. Messaging'
  <2>1. DOMAIN appenders \subseteq DOMAIN appenders'
    BY <1>1
  <2>2. QED
    BY <1>0, <1>4, <2>1 DEF Messaging
<1>9. Positions' /\ Served'
  <2>0. Positions'
    BY <1>4 DEF Positions
  <2> SUFFICES ASSUME OneBoost', fault' = "none"
               PROVE  /\ \A w \in Writers : writer'[w].at # "write"
                      /\ \A m \in Messages, d \in Destinations :
                            Reach(out', sink', records', m, d) = Among(appenders', ledger'[m], d)
    BY <2>0 DEF Served
  <2>1. \A w \in Writers : writer[w].at # "write" /\ writer'[w].at # "write"
    BY <1>4
  <2>2. OneBoost /\ fault = "none"
    <3>1. BoostAppenders = {} => Cardinality(BoostAppenders) = 0
      BY FS_EmptySet
    <3>2. OneBoost <=> Cardinality(BoostAppenders) <= 1
      BY DEF OneBoost, BoostAppenders
    <3>3. QED
      BY <1>3, <2>1, <3>1, <3>2
  <2>3. ASSUME NEW m \in Messages, NEW d \in Destinations
        PROVE  Reach(out', sink', records', m, d) = Among(appenders', ledger'[m], d)
    <3>1. ~InWriteOf(writer, m)
      BY <2>1 DEF InWriteOf
    <3>2. Reach(out, sink, records, m, d) = Among(appenders', ledger'[m], d)
      BY <1>0, <1>2, <1>4, <2>2, <3>1 DEF Served
    <3>3. Reach(out', sink', records', m, d) = Reach(out, sink, records, m, d)
      <4>1. CASE a.dest \notin BoostDestinations
        BY <1>4, <1>5, <4>1
      <4>2. CASE a.dest \in BoostDestinations
        <5>1. sink = NoSink /\ records = <<>> /\ records' = <<>>
          BY <1>0, <1>3, <1>5, <4>2 DEF SinkMade
        <5>2. Cardinality(Places(records', Len(records'), m)) = 0
          BY <5>1, PlacesEmpty
        <5>3. sink.dest # d
          BY <5>1 DEF NoSink, Destinations, BoostDestinations
        <5>4. QED
          BY <1>4, <5>2, <5>3 DEF Reach
      <4>3. QED
        BY <4>1, <4>2
    <3>4. QED
      BY <3>2, <3>3
  <2>4. QED
    BY <2>1, <2>3
<1>10. QED
  BY <1>6, <1>7, <1>8, <1>9 DEF LoggerInv

\* What only the writers change: the destinations and the sink stay as they are.
LEMMA SinkKept ==
    ASSUME SinkMade, UNCHANGED <<option, boostImpl, appenders, sink>>,
           sink = NoSink => records' = records
    PROVE  SinkMade' /\ BoostAppenders' = BoostAppenders /\ (OneBoost' <=> OneBoost)
<1>1. BoostAppenders' = BoostAppenders /\ (OneBoost' <=> OneBoost)
  BY DEF BoostAppenders, OneBoost
<1>2. QED
  BY <1>1 DEF SinkMade

\* A thread makes a message.
LEMMA CreateStep ==
    ASSUME LoggerInv, NEW w \in Writers, NEW lv \in LogLevels, create_message(w, lv)
    PROVE  LoggerInv'
<1>0. LoggerTypes /\ SinkMade /\ Messaging /\ Positions /\ Served
  BY DEF LoggerInv
<1> DEFINE j == [at |-> "created", lv |-> lv, id |-> created + 1]
<1>1. /\ fault = "none" /\ writer[w].at = "idle" /\ created < MaxMessages /\ created' = created + 1
      /\ writer' = [writer EXCEPT ![w] = j]
      /\ UNCHANGED <<option, boostImpl, appenders, sink, records, out, ledger, fault>>
  BY DEF create_message, configVars
<1>2. created + 1 \in Messages /\ created' \in 0 .. MaxMessages /\ created \in Nat
  BY <1>0, <1>1, LoggerAssumption DEF LoggerTypes, Messages
<1>3. j \in Creating /\ j.at = "created" /\ j.id = created + 1 /\ j # Idle
  BY <1>2 DEF Creating, Idle
<1> HIDE DEF j
<1>4. /\ writer'[w] = j /\ \A v \in Writers \ {w} : writer'[v] = writer[v]
      /\ writer' \in [Writers -> {Idle} \cup Creating \cup Writing]
  BY <1>0, <1>1, <1>3 DEF LoggerTypes
<1>5. LoggerTypes'
  BY <1>0, <1>1, <1>2, <1>4 DEF LoggerTypes
<1>6. SinkMade' /\ BoostAppenders' = BoostAppenders /\ (OneBoost' <=> OneBoost)
  BY <1>0, <1>1, SinkKept
<1>7. Messaging'
  <2>1. \A v \in Writers : writer'[v] # Idle =>
           writer'[v].id <= created' /\ (v # w => writer[v] # Idle /\ writer'[v].id <= created)
    <3>1. created + 1 <= created'
      BY <1>1, <1>2
    <3>2. \A v \in Writers \ {w} : writer[v] # Idle => writer[v].id <= created /\ writer[v].id \in Messages
      BY <1>0, WriterFacts DEF Messaging
    <3>3. \A v \in Writers \ {w} : writer[v] # Idle => writer[v].id <= created'
      BY <1>1, <1>2, <3>2 DEF Messages
    <3>4. QED
      BY <1>3, <1>4, <3>1, <3>2, <3>3
  <2>2. \A u, v \in Writers : writer'[u] # Idle /\ writer'[v] # Idle /\ writer'[u].id = writer'[v].id
                                => u = v
    <3>1. \A v \in Writers \ {w} : writer'[v] # Idle => writer'[v].id # writer'[w].id
      <4>1. created + 1 > created
        BY <1>2
      <4>2. QED
        BY <1>2, <1>3, <1>4, <2>1, <4>1
    <3>2. QED
      BY <1>0, <1>4, <3>1 DEF Messaging
  <2>3. \A m \in Messages : m > created' => ledger'[m] = {}
    BY <1>0, <1>1, <1>2 DEF Messaging, Messages
  <2>4. ledger[created + 1] = {}
    BY <1>0, <1>2 DEF Messaging
  <2>5. \A v \in Writers : writer'[v].at = "created" => ledger'[writer'[v].id] = {}
    BY <1>0, <1>1, <1>3, <1>4, <2>4 DEF Messaging
  <2>6. \A m \in Messages : ledger'[m] \subseteq DOMAIN appenders'
    BY <1>0, <1>1 DEF Messaging
  <2>7. QED
    BY <2>1, <2>2, <2>3, <2>5, <2>6 DEF Messaging
<1>8. Positions' /\ Served'
  <2>1. \A v \in Writers : writer'[v].at = "write" => v # w /\ writer'[v] = writer[v]
    BY <1>3, <1>4
  <2>2. \A m \in Messages : InWriteOf(writer, m) => InWriteOf(writer', m)
    BY <1>1, <1>4 DEF InWriteOf
  <2>3. out' = out /\ sink' = sink /\ records' = records /\ appenders' = appenders
        /\ ledger' = ledger /\ fault' = fault
    BY <1>1
  <2>4. QED
    BY <1>0, <1>6, <2>1, <2>2, <2>3 DEF Positions, Served
<1>9. QED
  BY <1>5, <1>6, <1>7, <1>8 DEF LoggerInv

\* The threads' messages stay apart when one of them goes on with its own, or ends.
LEMMA WriterGoesOn ==
    ASSUME LoggerTypes, Messaging, NEW w \in Writers, writer[w].at # "idle",
           writer'[w] \in {Idle} \cup Creating \cup Writing,
           writer'[w] # Idle => writer'[w].id = writer[w].id /\ writer'[w].at = "write",
           \A v \in Writers \ {w} : writer'[v] = writer[v],
           \A m \in Messages \ {writer[w].id} : ledger'[m] = ledger[m],
           ledger'[writer[w].id] \subseteq DOMAIN appenders,
           UNCHANGED <<created, appenders>>
    PROVE  /\ Messaging'
           /\ \A m \in Messages \ {writer[w].id} : InWriteOf(writer', m) <=> InWriteOf(writer, m)
           /\ \A v \in Writers \ {w} : writer[v].at # "idle" =>
                 writer[v].id \in Messages \ {writer[w].id} /\ ledger'[writer[v].id] = ledger[writer[v].id]
           /\ InWriteOf(writer', writer[w].id) <=> writer'[w].at = "write"
<1>1. /\ writer[w] # Idle /\ writer[w].id \in Messages /\ writer[w].id <= created
      /\ \A v \in Writers : writer[v].at # "idle" =>
            /\ writer[v] # Idle /\ writer[v].id \in Messages /\ writer[v].id <= created
            /\ (v # w => writer[v].id # writer[w].id)
  BY WriterFacts DEF Messaging
<1>2. \A v \in Writers \ {w} : writer[v].at # "idle" =>
         writer[v].id \in Messages \ {writer[w].id} /\ ledger'[writer[v].id] = ledger[writer[v].id]
  BY <1>1
<1>3. writer'[w].at = "idle" <=> writer'[w] = Idle
  BY DEF Idle, Creating, Writing
<1>4. \A m \in Messages \ {writer[w].id} : InWriteOf(writer', m) <=> InWriteOf(writer, m)
  BY <1>3 DEF InWriteOf, Idle
<1>5. InWriteOf(writer', writer[w].id) <=> writer'[w].at = "write"
  BY <1>1, <1>3 DEF InWriteOf
<1>6. Messaging'
  <2>1. \A v \in Writers : writer'[v] # Idle => writer[v] # Idle /\ writer'[v].id = writer[v].id
    BY <1>1
  <2>2. /\ \A v \in Writers : writer'[v] # Idle => writer'[v].id <= created'
        /\ \A u, v \in Writers : writer'[u] # Idle /\ writer'[v] # Idle /\ writer'[u].id = writer'[v].id
                                    => u = v
    BY <2>1 DEF Messaging
  <2>3. \A v \in Writers : writer'[v].at = "created" => ledger'[writer'[v].id] = {}
    <3>1. \A v \in Writers : writer'[v].at = "created" => v # w /\ writer[v].at = "created"
      BY <1>3
    <3>2. QED
      BY <1>2, <3>1 DEF Messaging
  <2>4. \A m \in Messages : m > created' => ledger'[m] = {}
    <3>1. ~(writer[w].id > created)
      <4>1. created \in Nat /\ writer[w].id \in Nat
        BY <1>1, LoggerAssumption DEF LoggerTypes, Messages
      <4>2. QED
        BY <1>1, <4>1
    <3>2. QED
      BY <3>1 DEF Messaging
  <2>5. \A m \in Messages : ledger'[m] \subseteq DOMAIN appenders'
    BY DEF Messaging
  <2>6. QED
    BY <2>2, <2>3, <2>4, <2>5 DEF Messaging
<1>7. QED
  BY <1>2, <1>4, <1>5, <1>6

\* write() begins, or turns the message away.
LEMMA WriteStep ==
    ASSUME LoggerInv, NEW w \in Writers, write(w)
    PROVE  LoggerInv'
<1>0. LoggerTypes /\ SinkMade /\ Messaging /\ Positions /\ Served
  BY DEF LoggerInv
<1> DEFINE m == writer[w].id
           j == [at |-> "write", id |-> m, i |-> 1, n |-> Len(appenders)]
<1>1. /\ fault = "none" /\ writer[w].at = "created"
      /\ UNCHANGED <<option, boostImpl, appenders, sink, created, records, out, fault>>
      /\ \/ /\ writer' = [writer EXCEPT ![w] = j]
            /\ ledger' = [ledger EXCEPT ![m] = DOMAIN appenders]
         \/ writer' = [writer EXCEPT ![w] = Idle] /\ ledger' = ledger
  BY <1>0 DEF write, configVars, LoggerTypes
<1>2. m \in Messages /\ Len(appenders) \in Nat /\ DOMAIN appenders = 1 .. Len(appenders)
  BY <1>0, <1>1, WriterFacts DEF LoggerTypes
<1>3. /\ j \in Writing /\ j.at = "write" /\ j.id = m /\ j.i = 1 /\ j.n = Len(appenders)
      /\ Idle.at = "idle"
  BY <1>2 DEF Writing, Idle
<1> HIDE DEF j
<1>4. /\ writer'[w] \in {Idle, j} /\ \A v \in Writers \ {w} : writer'[v] = writer[v]
      /\ writer' \in [Writers -> {Idle} \cup Creating \cup Writing]
  BY <1>0, <1>1, <1>3 DEF LoggerTypes
<1>5. /\ ledger' \in [Messages -> SUBSET Nat]
      /\ \A k \in Messages \ {m} : ledger'[k] = ledger[k]
      /\ ledger[m] = {} /\ ledger'[m] \subseteq DOMAIN appenders
      /\ writer'[w] = Idle => ledger'[m] = {}
      /\ writer'[w] # Idle => ledger'[m] = 1 .. Len(appenders)
  <2>1. ledger[m] = {}
    BY <1>0, <1>1 DEF Messaging
  <2>2. DOMAIN appenders \in SUBSET Nat
    BY <1>2
  <2>3. j # Idle
    BY <1>3
  <2>4. CASE writer' = [writer EXCEPT ![w] = j] /\ ledger' = [ledger EXCEPT ![m] = DOMAIN appenders]
    <3>1. writer'[w] = j
      BY <1>0, <2>4 DEF LoggerTypes
    <3>2. QED
      BY <1>0, <1>2, <2>1, <2>2, <2>3, <2>4, <3>1 DEF LoggerTypes
  <2>5. CASE writer' = [writer EXCEPT ![w] = Idle] /\ ledger' = ledger
    <3>1. writer'[w] = Idle
      BY <1>0, <2>5 DEF LoggerTypes
    <3>2. QED
      BY <1>0, <1>2, <2>1, <2>5, <3>1 DEF LoggerTypes
  <2>6. QED
    BY <1>1, <2>4, <2>5
<1>6. LoggerTypes'
  BY <1>0, <1>1, <1>4, <1>5 DEF LoggerTypes
<1>7. SinkMade' /\ (OneBoost' <=> OneBoost)
  BY <1>0, <1>1, SinkKept
<1>8. /\ Messaging'
      /\ \A k \in Messages \ {m} : InWriteOf(writer', k) <=> InWriteOf(writer, k)
      /\ \A v \in Writers \ {w} : writer[v].at # "idle" =>
            writer[v].id \in Messages \ {m} /\ ledger'[writer[v].id] = ledger[writer[v].id]
      /\ InWriteOf(writer', m) <=> writer'[w].at = "write"
  <2>1. writer'[w] # Idle => writer'[w].id = m /\ writer'[w].at = "write"
    BY <1>3, <1>4
  <2>2. writer'[w] \in {Idle} \cup Creating \cup Writing
    BY <1>3, <1>4
  <2>3. QED
    BY <1>0, <1>1, <1>4, <1>5, <2>1, <2>2, WriterGoesOn
<1>9. Positions'
  <2> SUFFICES ASSUME NEW v \in Writers, writer'[v].at = "write"
               PROVE  /\ ledger'[writer'[v].id] = 1 .. writer'[v].n
                      /\ writer'[v].n = Len(appenders') /\ writer'[v].i \in 1 .. writer'[v].n + 1
    BY DEF Positions
  <2>1. CASE v = w
    <3>1. writer'[w] = j /\ writer'[w] # Idle
      BY <1>3, <1>4, <2>1
    <3>2. 1 \in 1 .. Len(appenders) + 1 /\ appenders' = appenders
      BY <1>1, <1>2
    <3>3. QED
      BY <1>3, <1>5, <2>1, <3>1, <3>2
  <2>2. CASE v # w
    BY <1>0, <1>1, <1>4, <1>8, <2>2 DEF Positions
  <2>3. QED
    BY <2>1, <2>2
<1>10. Served'
  <2> SUFFICES ASSUME OneBoost', fault' = "none" PROVE Served'
    BY DEF Served
  <2>1. OneBoost /\ fault = "none"
    BY <1>1, <1>7
  <2>2. out' = out /\ sink' = sink /\ records' = records /\ appenders' = appenders
    BY <1>1
  <2>3. ~InWriteOf(writer, m)
    BY <1>0, <1>1, <1>8, WriterFacts DEF InWriteOf
  <2>4. \A d \in Destinations : Reach(out, sink, records, m, d) = 0
    <3>1. \A d \in Destinations : Reach(out, sink, records, m, d) = Among(appenders, ledger[m], d)
      BY <1>0, <1>2, <2>1, <2>3 DEF Served
    <3>2. \A d : Among(appenders, {}, d) = 0
      BY AmongNone
    <3>3. QED
      BY <1>5, <3>1, <3>2
  <2>5. ASSUME NEW v \in Writers, writer'[v].at = "write"
        PROVE  \A d \in Destinations : Reach(out', sink', records', writer'[v].id, d)
                                           = Among(appenders', 1 .. writer'[v].i - 1, d)
    <3>1. CASE v = w
      <4>1. writer'[w] = j
        BY <1>3, <1>4, <2>5, <3>1
      <4>2. 1 .. 1 - 1 = {}
        OBVIOUS
      <4>3. \A d \in Destinations : Among(appenders, 1 .. j.i - 1, d) = 0
        BY <1>3, <4>2, AmongNone
      <4>4. QED
        BY <1>3, <2>2, <2>4, <3>1, <4>1, <4>3
    <3>2. CASE v # w
      BY <1>0, <1>4, <1>8, <2>1, <2>2, <2>5, <3>2 DEF Served
    <3>3. QED
      BY <3>1, <3>2
  <2>6. ASSUME NEW k \in Messages, ~InWriteOf(writer', k), NEW d \in Destinations
        PROVE  Reach(out', sink', records', k, d) = Among(appenders', ledger'[k], d)
    <3>1. CASE k = m
      <4>1. ledger'[m] = {}
        BY <1>3, <1>4, <1>5, <1>8, <2>6, <3>1
      <4>2. QED
        BY <2>2, <2>4, <3>1, <4>1, AmongNone
    <3>2. CASE k # m
      BY <1>0, <1>5, <1>8, <2>1, <2>2, <2>6, <3>2 DEF Served
    <3>3. QED
      BY <3>1, <3>2
  <2>7. QED
    BY <2>5, <2>6 DEF Served
<1>11. QED
  BY <1>6, <1>7, <1>8, <1>9, <1>10 DEF LoggerInv

\* The next appender gets the message, once.
LEMMA AppenderStep ==
    ASSUME LoggerInv, NEW w \in Writers, WriteAppender(w)
    PROVE  LoggerInv'
<1>0. /\ LoggerTypes /\ SinkMade /\ Messaging /\ Positions /\ Served
      /\ out \in OutType /\ records \in Seq(Messages)
  BY DEF LoggerInv, LoggerTypes, OutType
<1> DEFINE m == writer[w].id
           p == writer[w].i
           a == appenders[p]
<1>1. /\ fault = "none" /\ writer[w].at = "write" /\ p <= writer[w].n
      /\ IF a.dest \in BoostDestinations THEN boost_write(m, a) ELSE direct_write(m, a)
      /\ writer' = [writer EXCEPT ![w].i = p + 1]
      /\ UNCHANGED <<option, boostImpl, appenders, sink, created, ledger>>
  BY <1>0 DEF WriteAppender, configVars, LoggerTypes
<1>2. writer[w] \in Writing /\ m \in Messages /\ p \in Nat /\ writer[w].n \in Nat
  BY <1>0, <1>1, WriterFacts
<1>3. /\ ledger[m] = 1 .. writer[w].n /\ writer[w].n = Len(appenders)
      /\ p \in 1 .. writer[w].n /\ p + 1 \in 1 .. writer[w].n + 1
  <2>1. ledger[m] = 1 .. writer[w].n /\ writer[w].n = Len(appenders) /\ p \in 1 .. writer[w].n + 1
    BY <1>0, <1>1 DEF Positions
  <2>2. QED
    BY <1>1, <1>2, <2>1
<1>4. /\ p \in DOMAIN appenders /\ a.dest \in Destinations
      /\ a.dest \in BoostDestinations => sink \in SinkType /\ sink.dest \in Destinations
      /\ a.dest \in BoostDestinations /\ OneBoost => sink.dest = a.dest
  <2>1. p \in DOMAIN appenders /\ a \in Appender
    BY <1>0, <1>3 DEF LoggerTypes
  <2>2. a.dest \in BoostDestinations => p \in BoostAppenders
    BY <2>1 DEF BoostAppenders
  <2>3. a.dest \in BoostDestinations => sink \in SinkType
    BY <1>0, <2>2 DEF SinkMade, LoggerTypes
  <2>4. a.dest \in Destinations /\ (sink \in SinkType => sink.dest \in Destinations)
    BY <2>1 DEF Appender, SinkType, Destinations
  <2>5. a.dest \in BoostDestinations /\ OneBoost => sink.dest = a.dest
    BY <1>0, <2>2 DEF SinkMade
  <2>6. QED
    BY <2>1, <2>3, <2>4, <2>5
<1>5. /\ writer'[w] \in Writing /\ writer'[w].at = "write" /\ writer'[w].id = m
      /\ writer'[w].i = p + 1 /\ writer'[w].n = writer[w].n /\ writer'[w] # Idle
      /\ \A v \in Writers \ {w} : writer'[v] = writer[v]
      /\ writer' \in [Writers -> {Idle} \cup Creating \cup Writing]
  <2> DEFINE j == [writer[w] EXCEPT !.i = p + 1]
  <2>1. /\ j \in Writing /\ j.at = "write" /\ j.id = m /\ j.i = p + 1 /\ j.n = writer[w].n
        /\ j # Idle
    BY <1>2 DEF Writing, Idle
  <2>2. writer' = [writer EXCEPT ![w] = j]
    BY <1>0, <1>1 DEF LoggerTypes
  <2> HIDE DEF j
  <2>3. QED
    BY <1>0, <2>1, <2>2 DEF LoggerTypes
<1>6. /\ Messaging'
      /\ \A k \in Messages \ {m} : InWriteOf(writer', k) <=> InWriteOf(writer, k)
      /\ \A v \in Writers \ {w} : writer[v].at # "idle" =>
            writer[v].id \in Messages \ {m} /\ ledger'[writer[v].id] = ledger[writer[v].id]
      /\ InWriteOf(writer', m) <=> writer'[w].at = "write"
  <2>1. /\ \A k \in Messages \ {m} : ledger'[k] = ledger[k]
        /\ ledger'[m] \subseteq DOMAIN appenders
    BY <1>0, <1>1, <1>2 DEF Messaging
  <2>2. QED
    BY <1>0, <1>1, <1>5, <2>1, WriterGoesOn
<1>7. \/ fault' # "none" /\ out' = out /\ records' = records
      \/ /\ fault' = fault /\ a.dest \in BoostDestinations
         /\ records' = Queued(records, m) /\ out' = out
      \/ /\ fault' = fault /\ a.dest \in BoostDestinations
         /\ records' = records /\ out' = Given(out, m, sink.dest)
      \/ /\ fault' = fault /\ a.dest \notin BoostDestinations
         /\ records' = records /\ out' = Given(out, m, a.dest)
  BY <1>1 DEF boost_write, direct_write, Given, Queued
<1>8. out' \in OutType /\ records' \in Seq(Messages) /\ (sink = NoSink => records' = records)
  <2>1. Queued(records, m) \in Seq(Messages)
    BY <1>0, <1>2 DEF Queued
  <2>2. \A e \in Destinations : Given(out, m, e) \in OutType
    BY <1>0, <1>2, OutCount
  <2>3. sink = NoSink => a.dest \notin BoostDestinations
    BY <1>4 DEF SinkType, NoSink, BoostDestinations
  <2>4. QED
    BY <1>0, <1>4, <1>7, <2>1, <2>2, <2>3
<1>9. LoggerTypes'
  BY <1>0, <1>1, <1>5, <1>8 DEF LoggerTypes, OutType
<1>10. SinkMade' /\ (OneBoost' <=> OneBoost)
  BY <1>0, <1>1, <1>8, SinkKept
<1>11. Positions'
  <2> SUFFICES ASSUME NEW v \in Writers, writer'[v].at = "write"
               PROVE  /\ ledger'[writer'[v].id] = 1 .. writer'[v].n
                      /\ writer'[v].n = Len(appenders') /\ writer'[v].i \in 1 .. writer'[v].n + 1
    BY DEF Positions
  <2>1. CASE v = w
    BY <1>1, <1>3, <1>5, <2>1
  <2>2. CASE v # w
    BY <1>0, <1>1, <1>5, <2>2 DEF Positions
  <2>3. QED
    BY <2>1, <2>2
<1>12. Served'
  <2> SUFFICES ASSUME OneBoost', fault' = "none" PROVE Served'
    BY DEF Served
  <2>1. OneBoost /\ appenders' = appenders /\ sink' = sink /\ ledger' = ledger
    BY <1>1, <1>10
  <2>2. \A k \in Messages, d \in Destinations :
           Reach(out', sink', records', k, d)
              = Reach(out, sink, records, k, d) + (IF k = m /\ d = a.dest THEN 1 ELSE 0)
    <3> SUFFICES ASSUME NEW k \in Messages, NEW d \in Destinations
                 PROVE  Reach(out', sink, records', k, d)
                           = Reach(out, sink, records, k, d) + (IF k = m /\ d = a.dest THEN 1 ELSE 0)
      BY <2>1
    <3>1. ASSUME NEW e \in Destinations, sink.dest = e
          PROVE  Reach(out, sink, Queued(records, m), k, d)
                    = Reach(out, sink, records, k, d) + (IF k = m /\ d = e THEN 1 ELSE 0)
      <4>1. out \in OutType /\ records \in Seq(Messages) /\ m \in Messages
        BY <1>0, <1>2
      <4>2. QED
        BY <3>1, <4>1, ReachQueued
    <3>2. ASSUME NEW e \in Destinations
          PROVE  Reach(Given(out, m, e), sink, records, k, d)
                    = Reach(out, sink, records, k, d) + (IF k = m /\ d = e THEN 1 ELSE 0)
      BY <1>0, <1>2, ReachOut
    <3>3. QED
      BY <1>4, <1>7, <2>1, <3>1, <3>2
  <2>3. ASSUME NEW v \in Writers, writer'[v].at = "write", NEW d \in Destinations
        PROVE  Reach(out', sink', records', writer'[v].id, d)
                  = Among(appenders', 1 .. writer'[v].i - 1, d)
    <3>1. CASE v = w
      <4>1. Reach(out, sink, records, m, d) = Among(appenders, 1 .. p - 1, d)
        BY <1>0, <1>1, <2>1 DEF Served
      <4>2. p - 1 \in Nat /\ (p - 1) + 1 = p /\ (p + 1) - 1 = p
        BY <1>3
      <4>3. Among(appenders, 1 .. p, d) = Among(appenders, 1 .. p - 1, d) + (IF a.dest = d THEN 1 ELSE 0)
        <5>1. Among(appenders, 1 .. (p - 1) + 1, d)
                 = Among(appenders, 1 .. p - 1, d) + (IF appenders[(p - 1) + 1].dest = d THEN 1 ELSE 0)
          BY <4>2, AmongNext
        <5>2. QED
          BY <4>2, <5>1
      <4>4. Reach(out', sink', records', m, d)
              = Reach(out, sink, records, m, d) + (IF a.dest = d THEN 1 ELSE 0)
        BY <1>2, <2>2
      <4>5. writer'[v].id = m /\ 1 .. writer'[v].i - 1 = 1 .. p
        BY <1>5, <3>1, <4>2
      <4>6. QED
        BY <2>1, <4>1, <4>3, <4>4, <4>5
    <3>2. CASE v # w
      <4>1. writer[v].at = "write" /\ writer'[v] = writer[v] /\ writer[v].id \in Messages \ {m}
        BY <1>5, <1>6, <2>3, <3>2
      <4>2. Reach(out, sink, records, writer[v].id, d) = Among(appenders, 1 .. writer[v].i - 1, d)
        BY <1>0, <1>1, <2>1, <4>1 DEF Served
      <4>3. Reach(out, sink, records, writer[v].id, d) \in Nat
        BY <1>0, <4>1, ReachType
      <4>4. QED
        BY <2>1, <2>2, <4>1, <4>2, <4>3
    <3>3. QED
      BY <3>1, <3>2
  <2>4. ASSUME NEW k \in Messages, ~InWriteOf(writer', k), NEW d \in Destinations
        PROVE  Reach(out', sink', records', k, d) = Among(appenders', ledger'[k], d)
    <3>1. k # m /\ ~InWriteOf(writer, k)
      BY <1>5, <1>6, <2>4
    <3>2. Reach(out, sink, records, k, d) = Among(appenders, ledger[k], d)
      BY <1>0, <1>1, <2>1, <3>1 DEF Served
    <3>3. Reach(out, sink, records, k, d) \in Nat
      BY <1>0, ReachType
    <3>4. QED
      BY <2>1, <2>2, <3>1, <3>2, <3>3
  <2>5. QED
    BY <2>3, <2>4 DEF Served
<1>13. QED
  BY <1>6, <1>9, <1>10, <1>11, <1>12 DEF LoggerInv

\* write() ends after the last appender, or when one throws; the message is owed to
\* those that have got it.
LEMMA WriteOver ==
    ASSUME LoggerInv, NEW w \in Writers, AppenderThrows(w) \/ WriteEnd(w)
    PROVE  LoggerInv'
<1>0. LoggerTypes /\ SinkMade /\ Messaging /\ Positions /\ Served
  BY DEF LoggerInv
<1> DEFINE m == writer[w].id
           p == writer[w].i
<1>1. /\ fault = "none" /\ writer[w].at = "write" /\ writer' = [writer EXCEPT ![w] = Idle]
      /\ UNCHANGED <<option, boostImpl, appenders, sink, created, records, out, fault>>
      /\ \/ p <= writer[w].n /\ ledger' = [ledger EXCEPT ![m] = 1 .. p - 1]
         \/ p > writer[w].n /\ ledger' = ledger
  BY DEF AppenderThrows, WriteEnd, configVars
<1>2. writer[w] \in Writing /\ m \in Messages /\ p \in Nat /\ writer[w].n \in Nat
  BY <1>0, <1>1, WriterFacts
<1>3. /\ ledger[m] = 1 .. writer[w].n /\ writer[w].n = Len(appenders)
      /\ p \in 1 .. writer[w].n + 1 /\ DOMAIN appenders = 1 .. Len(appenders)
  BY <1>0, <1>1 DEF Positions, LoggerTypes
<1>4. /\ ledger' \in [Messages -> SUBSET Nat] /\ ledger'[m] = 1 .. p - 1
      /\ ledger'[m] \subseteq DOMAIN appenders
      /\ \A k \in Messages \ {m} : ledger'[k] = ledger[k]
  <2>1. 1 .. p - 1 \in SUBSET Nat /\ 1 .. p - 1 \subseteq DOMAIN appenders
    BY <1>2, <1>3
  <2>2. CASE ledger' = [ledger EXCEPT ![m] = 1 .. p - 1]
    BY <1>0, <1>2, <2>1, <2>2 DEF LoggerTypes
  <2>3. CASE p > writer[w].n /\ ledger' = ledger
    <3>1. p - 1 = writer[w].n
      BY <1>2, <1>3, <2>3
    <3>2. QED
      BY <1>0, <1>3, <2>1, <2>3, <3>1 DEF LoggerTypes
  <2>4. QED
    BY <1>1, <2>2, <2>3
<1>5. /\ writer'[w] = Idle /\ \A v \in Writers \ {w} : writer'[v] = writer[v]
      /\ writer' \in [Writers -> {Idle} \cup Creating \cup Writing]
  BY <1>0, <1>1 DEF LoggerTypes
<1>6. /\ Messaging'
      /\ \A k \in Messages \ {m} : InWriteOf(writer', k) <=> InWriteOf(writer, k)
      /\ \A v \in Writers \ {w} : writer[v].at # "idle" =>
            writer[v].id \in Messages \ {m} /\ ledger'[writer[v].id] = ledger[writer[v].id]
  BY <1>0, <1>1, <1>4, <1>5, WriterGoesOn
<1>7. LoggerTypes'
  BY <1>0, <1>1, <1>4, <1>5 DEF LoggerTypes
<1>8. SinkMade' /\ (OneBoost' <=> OneBoost)
  BY <1>0, <1>1, SinkKept
<1>9. \A v \in Writers : writer'[v].at = "write" => v # w /\ writer'[v] = writer[v]
  BY <1>5 DEF Idle
<1>10. Positions'
  BY <1>0, <1>1, <1>6, <1>9 DEF Positions
<1>11. Served'
  <2> SUFFICES ASSUME OneBoost', fault' = "none" PROVE Served'
    BY DEF Served
  <2>1. OneBoost /\ out' = out /\ sink' = sink /\ records' = records /\ appenders' = appenders
    BY <1>1, <1>8
  <2>2. \A v \in Writers : writer'[v].at = "write" =>
           \A d \in Destinations : Reach(out', sink', records', writer'[v].id, d)
                                      = Among(appenders', 1 .. writer'[v].i - 1, d)
    BY <1>0, <1>1, <1>9, <2>1 DEF Served
  <2>3. \A k \in Messages : ~InWriteOf(writer', k) =>
           \A d \in Destinations : Reach(out', sink', records', k, d) = Among(appenders', ledger'[k], d)
    <3> SUFFICES ASSUME NEW k \in Messages, ~InWriteOf(writer', k), NEW d \in Destinations
                 PROVE  Reach(out, sink, records, k, d) = Among(appenders, ledger'[k], d)
      BY <2>1
    <3>1. CASE k = m
      BY <1>0, <1>1, <1>4, <2>1, <3>1 DEF Served
    <3>2. CASE k # m
      BY <1>0, <1>1, <1>4, <1>6, <2>1, <3>2 DEF Served
    <3>3. QED
      BY <3>1, <3>2
  <2>4. QED
    BY <2>2, <2>3 DEF Served
<1>12. QED
  BY <1>6, <1>7, <1>8, <1>10, <1>11 DEF LoggerInv

\* The sink writes a record of its queue.
LEMMA RecordStep ==
    ASSUME LoggerInv, TakeRecord
    PROVE  LoggerInv'
<1>0. /\ LoggerTypes /\ SinkMade /\ Messaging /\ Positions /\ Served
      /\ out \in OutType /\ records \in Seq(Messages)
  BY DEF LoggerInv, LoggerTypes, OutType
<1>1. /\ fault = "none" /\ records # <<>> /\ records' = Tail(records)
      /\ out' = Given(out, Head(records), sink.dest)
      /\ UNCHANGED <<option, boostImpl, appenders, sink, writer, created, ledger, fault>>
  BY DEF TakeRecord, configVars, writeVars, Given
<1>2. sink # NoSink /\ sink.dest \in Destinations
  BY <1>0, <1>1 DEF SinkMade, LoggerTypes, SinkType, Destinations
<1>3. Head(records) \in Messages /\ records' \in Seq(Messages)
  BY <1>0, <1>1
<1>4. out' \in OutType
  BY <1>0, <1>1, <1>2, <1>3, OutCount
<1>5. LoggerTypes'
  BY <1>0, <1>1, <1>3, <1>4 DEF LoggerTypes, OutType
<1>6. SinkMade' /\ (OneBoost' <=> OneBoost)
  BY <1>0, <1>1, <1>2, SinkKept
<1>7. Messaging' /\ Positions'
  BY <1>0, <1>1 DEF Messaging, Positions
<1>8. \A m \in Messages, d \in Destinations :
         Reach(out', sink', records', m, d) = Reach(out, sink, records, m, d)
  BY <1>0, <1>1, <1>2, ReachTaken
<1>9. Served'
  <2>1. writer' = writer /\ appenders' = appenders /\ ledger' = ledger /\ fault' = fault
    BY <1>1
  <2>2. \A w \in Writers : writer[w].at = "write" => writer[w].id \in Messages
    BY <1>0, WriterFacts
  <2>3. QED
    BY <1>0, <1>6, <1>8, <2>1, <2>2 DEF Served
<1>10. QED
  BY <1>5, <1>6, <1>7, <1>9 DEF LoggerInv

\* A logger without destinations, or with a log file, has written nothing yet.
LEMMA LoggerInitInv ==
    ASSUME LoggerInit({}) \/ LoggerInit({"file"})
    PROVE  LoggerInv
<1>0. /\ option = [o \in OptionNames |-> FALSE]
      /\ \/ boostImpl = 0 /\ appenders = <<>> /\ sink = NoSink
         \/ /\ boostImpl = 1 /\ appenders = <<[dest |-> "file", impl |-> 1]>>
            /\ sink = NewSink("file", TRUE)
      /\ writer = [w \in Writers |-> Idle] /\ created = 0 /\ records = <<>>
      /\ out = [m \in Messages |-> [d \in Destinations |-> 0]] /\ ledger = [m \in Messages |-> {}]
  BY DEF LoggerInit
<1>1. \A w \in Writers : writer[w] = Idle /\ writer[w].at = "idle"
  BY <1>0 DEF Idle
<1>2. /\ [dest |-> "file", impl |-> 1] \in Appender /\ NoSink.dest = "none"
      /\ NewSink("file", TRUE) \in SinkType /\ NewSink("file", TRUE).dest = "file"
      /\ \A o \in OptionsOf("file") : NewSink("file", TRUE).option[o] = option[o]
  <2>1. [dest |-> "file", impl |-> 1] \in Appender /\ NoSink.dest = "none"
    BY DEF Appender, Destinations, BoostDestinations, NoSink
  <2>2. option \in [OptionNames -> BOOLEAN] /\ "file" \in BoostDestinations
    BY <1>0 DEF BoostDestinations
  <2>3. QED
    BY <2>1, <2>2, NewSinkFacts
<1>3. LoggerTypes
  <2>1. appenders \in Seq(Appender) /\ sink \in SinkType \cup {NoSink} /\ boostImpl \in Nat
    <3> DEFINE a == [dest |-> "file", impl |-> 1]
               s == NewSink("file", TRUE)
    <3>1. \/ boostImpl = 0 /\ appenders = <<>> /\ sink = NoSink
          \/ boostImpl = 1 /\ appenders = <<a>> /\ sink = s
      BY <1>0
    <3>2. a \in Appender /\ s \in SinkType
      BY <1>2
    <3> HIDE DEF a, s
    <3>3. CASE boostImpl = 0 /\ appenders = <<>> /\ sink = NoSink
      BY <3>3
    <3>4. CASE boostImpl = 1 /\ appenders = <<a>> /\ sink = s
      <4>1. <<a>> \in Seq(Appender)
        BY <3>2
      <4>2. QED
        BY <3>2, <3>4, <4>1
    <3>5. QED
      BY <3>1, <3>3, <3>4
  <2>2. option \in [OptionNames -> BOOLEAN] /\ created \in 0 .. MaxMessages /\ records \in Seq(Messages)
    BY <1>0, LoggerAssumption
  <2>3. /\ writer \in [Writers -> {Idle} \cup Creating \cup Writing]
        /\ out \in [Messages -> [Destinations -> Nat]] /\ ledger \in [Messages -> SUBSET Nat]
    BY <1>0
  <2>4. QED
    BY <2>1, <2>2, <2>3 DEF LoggerTypes
<1>4. SinkMade
  <2>1. CASE boostImpl = 0 /\ appenders = <<>> /\ sink = NoSink
    BY <1>0, <2>1 DEF SinkMade, BoostAppenders
  <2>2. CASE /\ boostImpl = 1 /\ appenders = <<[dest |-> "file", impl |-> 1]>>
             /\ sink = NewSink("file", TRUE)
    <3>1. DOMAIN appenders = {1} /\ appenders[1].dest = "file"
      BY <2>2
    <3>2. BoostAppenders = {1}
      BY <3>1 DEF BoostAppenders, BoostDestinations
    <3>3. /\ sink # NoSink /\ sink.dest = "file"
          /\ \A o \in OptionsOf("file") : sink.option[o] = option[o]
      BY <1>2, <2>2
    <3>4. sink # NoSink => \A o \in OptionsOf(sink.dest) : sink.option[o] = option[o]
      BY <3>3
    <3>5. BoostAppenders # {} /\ \A i \in BoostAppenders : appenders[i].dest = sink.dest
      BY <3>1, <3>2, <3>3
    <3>6. boostImpl # 0
      <4>1. boostImpl = 1
        BY <2>2
      <4>2. QED
        BY <4>1
    <3>7. QED
      BY <3>3, <3>4, <3>5, <3>6 DEF SinkMade
  <2>3. QED
    BY <1>0, <2>1, <2>2
<1>5. Messaging /\ Positions
  BY <1>0, <1>1 DEF Messaging, Positions
<1>6. Served
  <2>1. \A m \in Messages, d \in Destinations :
           Reach(out, sink, records, m, d) = 0 /\ Among(appenders, ledger[m], d) = 0
    <3> SUFFICES ASSUME NEW m \in Messages, NEW d \in Destinations
                 PROVE  Reach(out, sink, records, m, d) = 0 /\ Among(appenders, ledger[m], d) = 0
      OBVIOUS
    <3>1. out[m][d] = 0 /\ ledger[m] = {}
      BY <1>0
    <3>2. Cardinality(Places(records, Len(records), m)) = 0
      BY <1>0, PlacesEmpty
    <3>3. QED
      BY <3>1, <3>2, AmongNone DEF Reach
  <2>2. QED
    BY <1>1, <2>1 DEF Served
<1>7. QED
  BY <1>3, <1>4, <1>5, <1>6 DEF LoggerInv

\* What the invariant is for.
LEMMA LoggerInvWritten == ASSUME LoggerInv PROVE WrittenOnce
<1>0. /\ LoggerTypes /\ SinkMade /\ Messaging /\ Positions /\ Served
  BY DEF LoggerInv
<1> SUFFICES ASSUME OneBoost, fault = "none"
             PROVE  \A m \in Messages, d \in Destinations :
                       /\ Reached(m, d) <= Owed(m, d)
                       /\ ~InWrite(m) => Reached(m, d) = Owed(m, d)
  BY <1>0 DEF WrittenOnce, SinkMade
<1> TAKE m \in Messages, d \in Destinations
<1>1. Reached(m, d) = Reach(out, sink, records, m, d)
  <2>1. DOMAIN records = 1 .. Len(records)
    BY <1>0 DEF LoggerTypes
  <2>2. {i \in DOMAIN records : records[i] = m} = Places(records, Len(records), m)
    BY <2>1 DEF Places
  <2>3. QED
    BY <2>2 DEF Reached, Reach
<1>2. Owed(m, d) = Among(appenders, ledger[m], d)
  BY DEF Owed, Among, For
<1>3. InWrite(m) <=> InWriteOf(writer, m)
  BY DEF InWrite, InWriteOf
<1>4. CASE ~InWrite(m)
  <2>1. Reached(m, d) = Owed(m, d)
    BY <1>0, <1>1, <1>2, <1>3, <1>4 DEF Served
  <2>2. Reached(m, d) \in Nat
    <3>1. out \in OutType /\ records \in Seq(Messages)
      BY <1>0 DEF LoggerTypes, OutType
    <3>2. QED
      BY <1>1, <3>1, ReachType
  <2>3. QED
    BY <2>1, <2>2
<1>5. CASE InWrite(m)
  <2>1. PICK w \in Writers : writer[w].at = "write" /\ writer[w].id = m
    BY <1>5 DEF InWrite
  <2>2. /\ Reached(m, d) = Among(appenders, 1 .. writer[w].i - 1, d)
        /\ ledger[m] = 1 .. writer[w].n /\ writer[w].i \in 1 .. writer[w].n + 1
        /\ writer[w].n \in Nat
    BY <1>0, <1>1, <2>1, WriterFacts DEF Served, Positions
  <2>3. writer[w].i - 1 \in Nat /\ writer[w].i - 1 <= writer[w].n
    BY <2>2
  <2>4. QED
    BY <1>2, <1>5, <2>2, <2>3, AmongLess
<1>6. QED
  BY <1>4, <1>5

(***************************************************************************)
(* Files and passes                                                        *)
(***************************************************************************)

\* The numbers of the files and the other entries.
LEMMA EntryFacts ==
    /\ Own \subseteq Nat \ {0} /\ IsFiniteSet(Own) /\ MaxClock \in Nat
    /\ \A f \in Entries : f \in Int /\ (f \in Own <=> f > 0) /\ (f \notin Own => f < 0 /\ f \in Others)
    /\ \A f \in Others : f \in Int /\ f < 0 /\ -f \in 1 .. Len(Foreign) /\ f \notin Own
    /\ Gone \notin Times
<1>1. MaxMessages \in Nat /\ MaxClock \in Nat /\ Len(Foreign) \in Nat
  BY LoggerAssumption, WatchdogAssumption
<1>2. Own \subseteq Nat \ {0} /\ IsFiniteSet(Own)
  BY <1>1, FS_Interval DEF Own
<1>3. \A f \in Others : f \in Int /\ f < 0 /\ -f \in 1 .. Len(Foreign)
  BY <1>1 DEF Others
<1>4. Gone \notin Times
  BY <1>1 DEF Gone, Times
<1>5. QED
  BY <1>1, <1>2, <1>3, <1>4 DEF Entries

\* Files that are there have a time.
PresentTyped ==
    /\ Present \subseteq Own /\ IsFiniteSet(Present)
    /\ \A f \in Present : mtime[f] \in Times /\ mtime[f] \in Nat /\ f \in Nat \ {0}
    /\ clock \in Nat /\ clock \in Times /\ open \in Nat /\ NextFile \in Nat

LEMMA PresentFacts == FileTypes => PresentTyped
<1> SUFFICES ASSUME FileTypes PROVE PresentTyped
  OBVIOUS
<1>1. Present \subseteq Own /\ IsFiniteSet(Present)
  BY EntryFacts, FS_Subset DEF Present
<1>2. \A f \in Present : mtime[f] \in Times
  BY <1>1 DEF FileTypes, Present
<1>3. Times \subseteq Nat /\ MaxMessages \in Nat
  BY EntryFacts, LoggerAssumption DEF Times
<1>4. NextFile \in Nat
  BY <1>3 DEF FileTypes, NextFile
<1>5. QED
  BY <1>1, <1>2, <1>3, <1>4, EntryFacts DEF FileTypes, PresentTyped

\* The directory has finitely many entries.
LEMMA EntriesFinite == IsFiniteSet(Entries)
<1>1. IsFiniteSet(1 .. Len(Foreign))
  BY WatchdogAssumption, FS_Interval
<1>2. IsFiniteSet(Others)
  <2>1. Others = {-i : i \in 1 .. Len(Foreign)}
    BY DEF Others
  <2>2. Others \subseteq -Len(Foreign) .. -1
    BY WatchdogAssumption DEF Others
  <2>3. IsFiniteSet(-Len(Foreign) .. -1)
    BY WatchdogAssumption, FS_Interval
  <2>4. QED
    BY <2>2, <2>3, FS_Subset
<1>3. QED
  BY <1>2, EntryFacts, FS_Union DEF Entries

\* So has the listing of those that match.
MatchingTyped ==
    /\ Matching \subseteq Entries /\ IsFiniteSet(Matching)
    /\ \A f \in Matching : f \in Int /\ Matched(f)

LEMMA MatchingFacts == FileTypes => MatchingTyped
<1> SUFFICES ASSUME FileTypes PROVE MatchingTyped
  OBVIOUS
<1>1. \A f \in Matching : f \in Present \cup foreign /\ Matched(f)
  BY DEF Matching
<1>2. Present \subseteq Own /\ foreign \subseteq Others
  BY PresentFacts DEF PresentTyped, FileTypes
<1>3. Matching \subseteq Entries
  BY <1>1, <1>2 DEF Entries
<1>4. IsFiniteSet(Matching)
  BY <1>3, EntriesFinite, FS_Subset
<1>5. QED
  BY <1>1, <1>3, <1>4, EntryFacts DEF MatchingTyped

\* Files that are added to the directory are added to those that match.
LEMMA MatchingGrows ==
    ASSUME UNCHANGED <<pattern, foreign>>, Present \subseteq Present'
    PROVE  Matching \subseteq Matching' /\ Mistaken' = Mistaken /\ \A f : Matched(f)' <=> Matched(f)
<1>1. \A f : Matched(f)' <=> Matched(f)
  BY DEF Matched
<1>2. QED
  BY <1>1 DEF Matching, Mistaken

\* Nothing else changes them.
LEMMA MatchingSame ==
    ASSUME UNCHANGED <<pattern, foreign, mtime>>
    PROVE  Matching' = Matching /\ Mistaken' = Mistaken /\ Present' = Present
BY DEF Matching, Mistaken, Matched, Present

\* If nothing is mistaken for them, what matches are the log's files.
LEMMA OwnMatched ==
    ASSUME Mistaken = {}, NEW f \in Entries, Matched(f)
    PROVE  f \in Own
<1> SUFFICES ASSUME f \notin Own PROVE FALSE
  OBVIOUS
<1>1. f \in Int /\ f < 0 /\ -f \in 1 .. Len(Foreign)
  BY EntryFacts
<1>2. -f \in DOMAIN Foreign
  BY <1>1, WatchdogAssumption
<1>3. MatchingName[pattern][-f]
  BY <1>1 DEF Matched
<1>4. QED
  BY <1>2, <1>3 DEF Mistaken

\* What a pass remembers.
LEMMA SeenFacts ==
    ASSUME NEW s \in SeenType
    PROVE  /\ DOMAIN s \subseteq Entries /\ s \in [DOMAIN s -> Times]
           /\ \A f \in DOMAIN s : s[f] \in Nat /\ s[f] \in Times
<1>1. Times \subseteq Nat
  BY EntryFacts DEF Times
<1>2. PICK D \in SUBSET Entries : s \in [D -> Times]
  BY DEF SeenType
<1>3. QED
  BY <1>1, <1>2

LEMMA SeenMade ==
    ASSUME NEW D \in SUBSET Entries, NEW s \in [D -> Times]
    PROVE  s \in SeenType
BY DEF SeenType

\* What a pass is.
LEMMA PassKinds ==
    ASSUME NEW p \in {NoPass} \cup Scanning \cup Acting
    PROVE  /\ p.at \in {"idle", "scan", "act"}
           /\ p = NoPass <=> p.at = "idle"
           /\ p.at = "scan" => p \in Scanning /\ p.seen \in SeenType /\ p.left \subseteq Entries /\ p.watch \in Watches
           /\ p.at = "act" => p \in Acting /\ p.seen \in SeenType /\ p.todo \subseteq Entries /\ p.watch \in Watches
           /\ p.at # "idle" => p.seen \in SeenType
BY DEF NoPass, Scanning, Acting

LEMMA PassFacts ==
    ASSUME FileTypes, NEW t \in Threads
    PROVE  /\ pass[t].at \in {"idle", "scan", "act"}
           /\ pass[t] = NoPass <=> pass[t].at = "idle"
           /\ pass[t].at = "scan" => /\ pass[t] \in Scanning /\ pass[t].seen \in SeenType
                                     /\ pass[t].left \subseteq Entries /\ pass[t].watch \in Watches
           /\ pass[t].at = "act" => /\ pass[t] \in Acting /\ pass[t].seen \in SeenType
                                    /\ pass[t].todo \subseteq Entries /\ pass[t].watch \in Watches
                                    /\ pass[t].todo \subseteq DOMAIN pass[t].seen
           /\ pass[t].at # "idle" => pass[t].seen \in SeenType
<1>1. pass[t] \in {NoPass} \cup Scanning \cup Acting
  BY DEF FileTypes
<1>2. QED
  BY <1>1, PassKinds DEF FileTypes

\* More files are enough if fewer are.
LEMMA EnoughFiles ==
    ASSUME NEW A, NEW B, IsFiniteSet(B), A \subseteq B, Cardinality(A) >= MaxFiles
    PROVE  Cardinality(B) >= MaxFiles
<1>1. IsFiniteSet(A) /\ Cardinality(A) <= Cardinality(B)
  BY FS_Subset
<1>2. Cardinality(A) \in Nat /\ Cardinality(B) \in Nat
  BY <1>1, FS_CardinalityType
<1>3. QED
  BY <1>1, <1>2, WatchdogAssumption

\* Newer files among more files.
LEMMA NewerMore ==
    ASSUME NEW P, NEW Q, IsFiniteSet(Q), P \subseteq Q, NEW f, Cardinality(Newer(P, f)) >= MaxFiles
    PROVE  Cardinality(Newer(Q, f)) >= MaxFiles
<1>1. Newer(P, f) \subseteq Newer(Q, f) /\ Newer(Q, f) \subseteq Q
  BY DEF Newer
<1>2. IsFiniteSet(Newer(Q, f))
  BY <1>1, FS_Subset
<1>3. QED
  BY <1>1, <1>2, EnoughFiles

\* A program that does not watch its files has no pass.
LEMMA UnwatchedStep ==
    ASSUME WatchInv, FileTypes', program = "logs", UNCHANGED <<program, pattern, foreign, pass>>
    PROVE  WatchInv'
<1>1. \A t \in Threads : pass[t] = NoPass /\ pass'[t] = NoPass
  BY DEF WatchInv, FileTypes
<1>2. NoPass.at = "idle"
  BY DEF NoPass
<1>3. FilesOrdered'
  BY DEF FilesOrdered
<1>4. PassesOrdered'
  BY <1>1, <1>2 DEF PassesOrdered, SeenOrder, Spares, MatchedOnly
<1>5. ForeignMatched'
  BY DEF WatchInv, ForeignMatched, Matched
<1>6. NewerKept' /\ RestKept'
  BY <1>1, <1>2 DEF NewerKept, RestKept, KeepsNewer, KeepsRest
<1>7. QED
  BY <1>3, <1>4, <1>5, <1>6 DEF WatchInv

\* Steps of the clock and the sink: files are added, or the last one is written.
LEMMA FilesGrow ==
    ASSUME WatchInv, FileTypes', program = "watched",
           UNCHANGED <<program, pattern, foreign, pass, tied, overlapped>>,
           clock <= clock', open <= open', open' <= NextFile', Present \subseteq Present',
           \A g \in Present' : \/ g \in Present /\ mtime'[g] = mtime[g]
                               \/ mtime'[g] = clock /\ open <= g /\ g <= open'
    PROVE  WatchInv'
<1>0. FileTypes /\ FilesOrdered /\ PassesOrdered /\ ForeignMatched /\ NewerKept /\ RestKept
  BY DEF WatchInv
<1>1. /\ \A f \in Present : mtime[f] \in Nat /\ f \in Nat
      /\ clock \in Nat /\ open \in Nat
  BY <1>0, PresentFacts DEF PresentTyped
<1>2. /\ \A f \in Present' : mtime'[f] \in Nat /\ f \in Nat
      /\ clock' \in Nat /\ open' \in Nat /\ IsFiniteSet(Matching')
  <2>1. (FileTypes' => PresentTyped') /\ (FileTypes' => MatchingTyped')
    BY PresentFacts, MatchingFacts, PTL
  <2>2. QED
    BY <2>1 DEF PresentTyped, MatchingTyped
<1>3. FilesOrdered'
  <2>1. \A f \in Present : f <= open /\ mtime[f] <= clock
    BY <1>0 DEF FilesOrdered
  <2>2. \A f \in Present' : f <= open' /\ mtime'[f] <= clock /\ mtime'[f] <= clock'
    BY <1>1, <1>2, <2>1
  <2>3. \A f, g \in Present' : f < g => mtime'[f] <= mtime'[g]
    BY <1>0, <1>1, <1>2, <2>1, <2>2 DEF FilesOrdered
  <2>4. QED
    BY <2>2, <2>3 DEF FilesOrdered
<1>4. PassesOrdered'
  <2> SUFFICES ASSUME NEW t \in Threads
               PROVE  SeenOrder(pass[t])' /\ Spares(pass[t])' /\ MatchedOnly(pass[t])'
    BY DEF PassesOrdered
  <2>1. SeenOrder(pass[t]) /\ Spares(pass[t]) /\ MatchedOnly(pass[t])
    BY <1>0 DEF PassesOrdered
  <2>2. Spares(pass[t])' /\ MatchedOnly(pass[t])'
    BY <2>1 DEF Spares, MatchedOnly, Matched
  <2>3. SeenOrder(pass[t])'
    <3> DEFINE s == pass[t].seen
    <3> SUFFICES ASSUME pass[t].at # "idle", NEW f \in DOMAIN s \cap Own
                 PROVE  /\ f <= open' /\ s[f] <= clock'
                        /\ \A g \in Present' : /\ f < g => s[f] <= mtime'[g]
                                               /\ g < f => mtime'[g] <= s[f]
                        /\ \A g \in DOMAIN s \cap Own : f < g => s[f] <= s[g]
      BY DEF SeenOrder
    <3>1. s[f] \in Nat /\ f \in Int
      <4>1. s \in SeenType
        BY <1>0, PassFacts
      <4>2. QED
        BY <4>1, SeenFacts, EntryFacts
    <3>2. /\ f <= open /\ s[f] <= clock
          /\ \A g \in Present : /\ f < g => s[f] <= mtime[g]
                                /\ g < f => mtime[g] <= s[f]
          /\ \A g \in DOMAIN s \cap Own : f < g => s[f] <= s[g]
      BY <2>1 DEF SeenOrder
    <3> HIDE DEF s
    <3>3. f <= open' /\ s[f] <= clock'
      BY <1>1, <1>2, <3>1, <3>2
    <3>4. ASSUME NEW g \in Present'
          PROVE  (f < g => s[f] <= mtime'[g]) /\ (g < f => mtime'[g] <= s[f])
      BY <1>1, <1>2, <3>1, <3>2
    <3>5. QED
      BY <3>2, <3>3, <3>4
  <2>4. QED
    BY <2>2, <2>3
<1>5. ForeignMatched'
  BY <1>0 DEF ForeignMatched, Matched
<1>6. Matching \subseteq Matching' /\ Mistaken' = Mistaken
  BY MatchingGrows
<1>7. \A f : Outnumbered(f) => Outnumbered(f)'
  BY <1>2, <1>6, NewerMore DEF Outnumbered
<1>8. NewerKept'
  BY <1>0, <1>6, <1>7 DEF NewerKept, KeepsNewer
<1>9. RestKept'
  <2> SUFFICES ASSUME ~overlapped, NEW t \in Threads
               PROVE  KeepsRest(pass[t])'
    BY <1>0 DEF RestKept
  <2>1. KeepsRest(pass[t])
    BY <1>0 DEF RestKept
  <2> DEFINE A == (Matching \cap DOMAIN pass[t].seen) \ pass[t].todo
             B == (Matching' \cap DOMAIN pass[t].seen) \ pass[t].todo
  <2>2. IsFiniteSet(B)
    <3>1. B \subseteq Matching'
      OBVIOUS
    <3>2. QED
      BY <1>2, <3>1, FS_Subset
  <2>3. A \subseteq B
    BY <1>6
  <2>4. Cardinality(A) >= MaxFiles => Cardinality(B) >= MaxFiles
    BY <2>2, <2>3, EnoughFiles
  <2>5. QED
    BY <1>6, <2>1, <2>4 DEF KeepsRest
<1>10. QED
  BY <1>3, <1>4, <1>5, <1>8, <1>9 DEF WatchInv

\* A step of the pass of one thread that leaves the files alone.
LEMMA PassStep ==
    ASSUME WatchInv, NEW t \in Threads, NEW q \in {NoPass} \cup Scanning \cup Acting,
           pass' = [pass EXCEPT ![t] = q],
           UNCHANGED <<program, pattern, clock, mtime, foreign, opened, open>>,
           pending' \subseteq Watches, tied' \in BOOLEAN, overlapped' \in BOOLEAN,
           tied => tied', overlapped => overlapped',
           q.at = "act" => q.todo \subseteq DOMAIN q.seen,
           program = "logs" => q = NoPass /\ pending' = {},
           SeenOrder(q), Spares(q), MatchedOnly(q),
           Mistaken = {} /\ ~tied' => KeepsNewer(q),
           ~overlapped' =>
              KeepsRest(q) /\ (q.at # "idle" => \A u \in Threads \ {t} : pass[u].at = "idle")
    PROVE  WatchInv'
<1>0. FileTypes /\ FilesOrdered /\ PassesOrdered /\ ForeignMatched /\ NewerKept /\ RestKept
  BY DEF WatchInv
<1>1. pass'[t] = q /\ \A u \in Threads \ {t} : pass'[u] = pass[u]
  BY <1>0 DEF FileTypes
<1>2. Present' = Present /\ NextFile' = NextFile /\ Matching' = Matching /\ Mistaken' = Mistaken
  BY MatchingSame DEF NextFile
<1>3. FileTypes'
  <2>1. pass' \in [Threads -> {NoPass} \cup Scanning \cup Acting]
    BY <1>0 DEF FileTypes
  <2>2. \A u \in Threads : pass'[u].at = "act" => pass'[u].todo \subseteq DOMAIN pass'[u].seen
    BY <1>0, <1>1 DEF FileTypes
  <2>3. program = "logs" => \A u \in Threads : pass'[u] = NoPass
    BY <1>0, <1>1 DEF FileTypes
  <2>4. QED
    BY <1>0, <2>1, <2>2, <2>3 DEF FileTypes
<1>4. FilesOrdered'
  BY <1>0, <1>2 DEF FilesOrdered
<1>5. PassesOrdered'
  <2>1. \A u \in Threads : SeenOrder(pass'[u]) /\ Spares(pass'[u]) /\ MatchedOnly(pass'[u])
    BY <1>0, <1>1 DEF PassesOrdered
  <2> SUFFICES ASSUME NEW u \in Threads
               PROVE  SeenOrder(pass[u])' /\ Spares(pass[u])' /\ MatchedOnly(pass[u])'
    BY DEF PassesOrdered
  <2>2. SeenOrder(pass[u])'
    BY <1>2, <2>1 DEF SeenOrder
  <2>3. Spares(pass[u])' /\ MatchedOnly(pass[u])'
    BY <2>1 DEF Spares, MatchedOnly, Matched
  <2>4. QED
    BY <2>2, <2>3
<1>6. ForeignMatched'
  BY <1>0 DEF ForeignMatched, Matched
<1>7. NewerKept'
  <2> SUFFICES ASSUME Mistaken = {}, ~tied', NEW u \in Threads PROVE KeepsNewer(pass[u])'
    BY <1>2 DEF NewerKept
  <2>1. KeepsNewer(pass'[u])
    BY <1>0, <1>1 DEF NewerKept
  <2>2. QED
    BY <1>2, <2>1 DEF KeepsNewer, Outnumbered
<1>8. RestKept'
  <2> SUFFICES ASSUME ~overlapped'
               PROVE  /\ \A u, v \in Threads : pass'[u].at # "idle" /\ pass'[v].at # "idle" => u = v
                      /\ \A u \in Threads : KeepsRest(pass[u])'
    BY DEF RestKept
  <2>1. \A u, v \in Threads : pass'[u].at # "idle" /\ pass'[v].at # "idle" => u = v
    BY <1>0, <1>1 DEF RestKept
  <2>2. ASSUME NEW u \in Threads PROVE KeepsRest(pass[u])'
    <3>1. KeepsRest(pass'[u])
      BY <1>0, <1>1 DEF RestKept
    <3>2. QED
      BY <1>2, <3>1 DEF KeepsRest
  <2>3. QED
    BY <2>1, <2>2
<1>9. QED
  BY <1>3, <1>4, <1>5, <1>6, <1>7, <1>8 DEF WatchInv

\* A pass that is over keeps nothing.
LEMMA NoPassFacts == /\ NoPass.at = "idle" /\ SeenOrder(NoPass) /\ Spares(NoPass)
                     /\ MatchedOnly(NoPass) /\ KeepsNewer(NoPass) /\ KeepsRest(NoPass)
BY DEF NoPass, SeenOrder, Spares, MatchedOnly, KeepsNewer, KeepsRest

\* A pass begins.
LEMMA BeginStep ==
    ASSUME WatchInv, NEW t \in Threads, NEW k \in Watches, PassBegin(t, k),
           pending' \subseteq pending, program = "logs" => FALSE
    PROVE  WatchInv'
<1>0. FileTypes /\ RestKept
  BY DEF WatchInv
<1> DEFINE q == [at |-> "scan", watch |-> k, seen |-> <<>>, left |-> Matching]
<1>1. /\ pass[t].at = "idle" /\ pass' = [pass EXCEPT ![t] = q]
      /\ overlapped' = (overlapped \/ \E u \in Threads \ {t} : pass[u].at # "idle")
      /\ UNCHANGED <<program, pattern, clock, mtime, foreign, opened, open, tied>>
  BY DEF PassBegin, configWatchVars, sinkVars
<1>2. \A f \in Matching : f \in Entries /\ Matched(f)
  BY <1>0, MatchingFacts DEF MatchingTyped
<1>3. /\ q.at = "scan" /\ q.seen = <<>> /\ q.left = Matching /\ q.watch = k /\ DOMAIN q.seen = {}
      /\ q \in Scanning
  <2>1. <<>> \in SeenType
    <3>1. <<>> \in [{} -> Times]
      OBVIOUS
    <3>2. QED
      BY <3>1, SeenMade
  <2>2. Matching \subseteq Entries
    BY <1>2
  <2>3. QED
    BY <2>1, <2>2 DEF Scanning
<1> HIDE DEF q
<1>4. SeenOrder(q) /\ Spares(q) /\ MatchedOnly(q) /\ KeepsNewer(q) /\ KeepsRest(q)
  BY <1>2, <1>3 DEF SeenOrder, Spares, MatchedOnly, KeepsNewer, KeepsRest
<1>5. tied' \in BOOLEAN /\ overlapped' \in BOOLEAN /\ pending' \subseteq Watches
  <2>1. tied' \in BOOLEAN /\ pending' \subseteq Watches
    BY <1>0, <1>1 DEF FileTypes
  <2>2. overlapped' \in BOOLEAN
    BY <1>1, Zenon
  <2>3. QED
    BY <2>1, <2>2
<1>6. overlapped => overlapped'
  BY <1>1
<1>7. ~overlapped' => \A u \in Threads \ {t} : pass[u].at = "idle"
  BY <1>1
<1>8. QED
  BY <1>1, <1>3, <1>4, <1>5, <1>6, <1>7, PassStep

\* A pass is over, or threw.
LEMMA EndStep ==
    ASSUME WatchInv, NEW t \in Threads, PassEnd(t) \/ PassThrows(t)
    PROVE  WatchInv'
<1>0. FileTypes
  BY DEF WatchInv
<1>1. /\ pass' = [pass EXCEPT ![t] = NoPass] /\ pass[t].at # "idle"
      /\ UNCHANGED <<program, pattern, clock, mtime, foreign, opened, open, tied, overlapped>>
      /\ pending' \subseteq pending \cup {"periodic"}
  BY DEF PassEnd, PassThrows, configWatchVars, sinkVars
<1>2. program # "logs"
  BY <1>0, <1>1, NoPassFacts DEF FileTypes
<1>3. pending' \subseteq Watches
  BY <1>0, <1>1 DEF FileTypes, Watches
<1>4. tied' \in BOOLEAN /\ overlapped' \in BOOLEAN
  BY <1>0, <1>1 DEF FileTypes
<1>5. QED
  BY <1>1, <1>2, <1>3, <1>4, NoPassFacts, PassStep

\* A file is asked for its time.
LEMMA ScanStep ==
    ASSUME WatchInv, NEW t \in Threads, ScanFile(t)
    PROVE  WatchInv'
<1>0. FileTypes /\ FilesOrdered /\ PassesOrdered /\ NewerKept /\ RestKept
  BY DEF WatchInv
<1> DEFINE p == pass[t]
<1>1. PICK f \in p.left \cup Matching :
         /\ f \notin DOMAIN p.seen
         /\ SetPass(t, [p EXCEPT !.left = p.left \ {f},
                                 !.seen = IF f \in Present \cup foreign THEN Noted(p.seen, f) ELSE p.seen])
  BY DEF ScanFile
<1> DEFINE s == IF f \in Present \cup foreign THEN Noted(p.seen, f) ELSE p.seen
           q == [p EXCEPT !.left = p.left \ {f}, !.seen = s]
<1>2. /\ p.at = "scan" /\ pass' = [pass EXCEPT ![t] = q]
      /\ UNCHANGED <<program, pattern, clock, mtime, foreign, opened, open, tied, overlapped, pending>>
  BY <1>1 DEF ScanFile, SetPass, configWatchVars, sinkVars
<1>3. /\ p \in Scanning /\ p.seen \in SeenType /\ p.left \subseteq Entries
      /\ SeenOrder(p) /\ MatchedOnly(p)
  BY <1>0, <1>2, PassFacts DEF PassesOrdered
<1>4. f \in Entries /\ Matched(f) /\ f \in Int
  <2>1. f \in Entries /\ Matched(f)
    BY <1>0, <1>2, <1>3, MatchingFacts DEF MatchedOnly, MatchingTyped
  <2>2. QED
    BY <2>1, EntryFacts
<1>5. /\ DOMAIN p.seen \subseteq Entries /\ p.seen \in [DOMAIN p.seen -> Times]
      /\ \A g \in DOMAIN p.seen : p.seen[g] \in Nat /\ g \in Int
  BY <1>3, SeenFacts, EntryFacts
<1>6. program = "watched"
  BY <1>0, <1>2, NoPassFacts DEF FileTypes
<1>7. PresentTyped
  BY <1>0, PresentFacts
<1>8. ASSUME f \in Present \cup foreign
      PROVE  /\ DOMAIN s = DOMAIN p.seen \cup {f} /\ s[f] = WriteTime(f)
             /\ \A g \in DOMAIN p.seen : s[g] = p.seen[g]
             /\ s[f] \in Times /\ s[f] \in Nat /\ s \in SeenType
             /\ f \in Own => f \in Present /\ s[f] = mtime[f] /\ f <= open /\ s[f] <= clock
  <2>1. s = [g \in DOMAIN p.seen \cup {f} |-> IF g = f THEN WriteTime(f) ELSE p.seen[g]]
    BY <1>8 DEF Noted
  <2>2. DOMAIN s = DOMAIN p.seen \cup {f} /\ s[f] = WriteTime(f) /\ \A g \in DOMAIN p.seen : s[g] = p.seen[g]
    BY <1>1, <2>1
  <2>3. f \in Own => f \in Present /\ WriteTime(f) = mtime[f] /\ WriteTime(f) \in Times
    <3>1. f \in Own => f \in Present /\ ~(f < 0)
      BY <1>0, <1>4, <1>8, EntryFacts DEF FileTypes
    <3>2. QED
      BY <1>7, <3>1 DEF PresentTyped, WriteTime
  <2>4. f \notin Own => WriteTime(f) \in Times
    <3>1. f \notin Own => f < 0 /\ -f \in 1 .. Len(Foreign)
      BY <1>4, EntryFacts
    <3>2. f \notin Own => Foreign[-f].time \in Times
      BY <3>1, WatchdogAssumption DEF Times
    <3>3. QED
      BY <3>1, <3>2 DEF WriteTime
  <2>5. f \in Own => f <= open /\ WriteTime(f) <= clock
    BY <1>0, <1>6, <2>3 DEF FilesOrdered
  <2>6. WriteTime(f) \in Times /\ WriteTime(f) \in Nat
    BY <2>3, <2>4, EntryFacts DEF Times
  <2>7. s \in SeenType
    <3>1. s \in [DOMAIN p.seen \cup {f} -> Times]
      <4> DEFINE D == DOMAIN p.seen \cup {f}
                 v(g) == IF g = f THEN WriteTime(f) ELSE p.seen[g]
      <4>1. ASSUME NEW g \in D PROVE v(g) \in Times
        <5>1. CASE g = f
          BY <2>6, <5>1
        <5>2. CASE g # f
          BY <1>5, <5>2
        <5>3. QED
          BY <5>1, <5>2
      <4>2. s = [g \in D |-> v(g)]
        BY <2>1
      <4> HIDE DEF D, v, s
      <4>3. s \in [D -> Times]
        BY <4>1, <4>2
      <4>4. QED
        BY <4>3 DEF D
    <3>2. DOMAIN p.seen \cup {f} \in SUBSET Entries
      BY <1>4, <1>5
    <3>3. QED
      BY <3>1, <3>2, SeenMade
  <2>8. QED
    BY <2>2, <2>3, <2>5, <2>6, <2>7
<1>9. s \in SeenType
  BY <1>3, <1>8
<1>10. q \in Scanning /\ q.at = "scan" /\ q.seen = s /\ q.left = p.left \ {f}
  <2> HIDE DEF s
  <2>1. QED
    BY <1>3, <1>9 DEF Scanning
<1>11. DOMAIN s \subseteq DOMAIN p.seen \cup {f} /\ \A g \in DOMAIN s : Matched(g)
  BY <1>2, <1>3, <1>4, <1>8 DEF MatchedOnly
<1> HIDE DEF q
<1>12. SeenOrder(q)
  <2>1. CASE f \notin Present \cup foreign
    <3>1. s = p.seen
      BY <2>1
    <3>2. QED
      BY <1>2, <1>3, <1>10, <3>1 DEF SeenOrder
  <2>2. CASE f \in Present \cup foreign
    <3>1. \A g \in DOMAIN p.seen \cap Own :
             /\ g <= open /\ p.seen[g] <= clock
             /\ \A h \in Present : /\ g < h => p.seen[g] <= mtime[h]
                                   /\ h < g => mtime[h] <= p.seen[g]
             /\ \A h \in DOMAIN p.seen \cap Own : g < h => p.seen[g] <= p.seen[h]
      BY <1>2, <1>3 DEF SeenOrder
    <3>2. /\ f \in Own => f \in Present /\ s[f] = mtime[f] /\ f <= open /\ s[f] <= clock
          /\ \A g \in DOMAIN p.seen : s[g] = p.seen[g]
          /\ DOMAIN s = DOMAIN p.seen \cup {f}
      BY <1>8, <2>2
    <3>3. f \in Own => \A h \in Present : (f < h => s[f] <= mtime[h]) /\ (h < f => mtime[h] <= s[f])
      <4>1. \A g, h \in Present : g < h => mtime[g] <= mtime[h]
        BY <1>0, <1>6 DEF FilesOrdered
      <4> HIDE DEF s
      <4>2. QED
        BY <3>2, <4>1
    <3>4. f \in Own => \A g \in DOMAIN p.seen \cap Own :
                          (f < g => s[f] <= p.seen[g]) /\ (g < f => p.seen[g] <= s[f])
      <4> HIDE DEF s
      <4>1. QED
        BY <3>1, <3>2
    <3>5. ASSUME NEW g \in DOMAIN s \cap Own
          PROVE  /\ g <= open /\ s[g] <= clock
                 /\ \A h \in Present : /\ g < h => s[g] <= mtime[h]
                                       /\ h < g => mtime[h] <= s[g]
                 /\ \A h \in DOMAIN s \cap Own : g < h => s[g] <= s[h]
      <4> HIDE DEF s
      <4>1. CASE g = f
        BY <1>4, <3>2, <3>3, <3>4, <3>5, <4>1
      <4>2. CASE g # f
        BY <3>1, <3>2, <3>4, <3>5, <4>2
      <4>3. QED
        BY <4>1, <4>2
    <3>6. QED
      BY <1>10, <3>5 DEF SeenOrder
  <2>3. QED
    BY <2>1, <2>2
<1>13. Spares(q) /\ MatchedOnly(q)
  <2>1. \A g \in q.left : Matched(g)
    BY <1>2, <1>3, <1>10 DEF MatchedOnly
  <2>2. QED
    BY <1>10, <1>11, <2>1 DEF Spares, MatchedOnly
<1>14. f \in DOMAIN s => f \in Matching
  <2>1. f \in DOMAIN s => f \in Present \cup foreign
    BY <1>1
  <2>2. QED
    BY <1>4, <2>1 DEF Matching
<1>15. Mistaken = {} /\ ~tied => KeepsNewer(q)
  <2> SUFFICES ASSUME Mistaken = {}, ~tied PROVE \A g \in DOMAIN s : g \in Matching \/ Outnumbered(g)
    BY <1>10 DEF KeepsNewer
  <2>1. \A g \in DOMAIN p.seen : g \in Matching \/ Outnumbered(g)
    BY <1>0, <1>2 DEF NewerKept, KeepsNewer
  <2>2. QED
    BY <1>11, <1>14, <2>1
<1>16. ~overlapped => KeepsRest(q) /\ \A u \in Threads \ {t} : pass[u].at = "idle"
  <2> SUFFICES ASSUME ~overlapped
               PROVE  DOMAIN s \subseteq Matching /\ \A u \in Threads \ {t} : pass[u].at = "idle"
    BY <1>10 DEF KeepsRest
  <2>1. DOMAIN p.seen \subseteq Matching /\ \A u \in Threads \ {t} : pass[u].at = "idle"
    BY <1>0, <1>2 DEF RestKept, KeepsRest
  <2>2. QED
    BY <1>11, <1>14, <2>1
<1>17. pending' \subseteq Watches /\ tied' \in BOOLEAN /\ overlapped' \in BOOLEAN
  BY <1>0, <1>2 DEF FileTypes
<1>18. QED
  BY <1>2, <1>6, <1>10, <1>12, <1>13, <1>15, <1>16, <1>17, PassStep

\* What is left of a set after the excess of it.
LEMMA LeftOver ==
    ASSUME NEW S, NEW x, IsFiniteSet(S), x \subseteq S, Cardinality(x) + MaxFiles = Cardinality(S)
    PROVE  Cardinality(S \ x) = MaxFiles /\ IsFiniteSet(S \ x) /\ S \ x # {}
<1>1. IsFiniteSet(S \ x) /\ Cardinality(S \ x) = Cardinality(S) - Cardinality(S \cap x)
  BY FS_Difference
<1>2. S \cap x = x
  OBVIOUS
<1>3. Cardinality(x) \in Nat /\ Cardinality(S) \in Nat
  BY FS_Subset, FS_CardinalityType
<1>4. Cardinality(S \ x) = MaxFiles
  <2>1. Cardinality(S \ x) = Cardinality(S) - Cardinality(x) /\ MaxFiles \in Nat
    BY <1>1, <1>2, WatchdogAssumption
  <2>2. QED
    BY <1>3, <2>1
<1>5. QED
  BY <1>1, <1>4, FS_EmptySet, WatchdogAssumption

\* The listing is done; what is more than max_files is to go.
LEMMA EndScanStep ==
    ASSUME WatchInv, NEW t \in Threads, ScanEnd(t)
    PROVE  WatchInv'
<1>0. FileTypes /\ FilesOrdered /\ PassesOrdered /\ NewerKept /\ RestKept
  BY DEF WatchInv
<1> DEFINE p == pass[t]
           s == p.seen
<1>1. PICK x \in IF Cardinality(DOMAIN s) > MaxFiles THEN Excess(s) ELSE {{}} :
         SetPass(t, [at |-> "act", watch |-> p.watch, seen |-> s, todo |-> x])
  BY DEF ScanEnd
<1> DEFINE q == [at |-> "act", watch |-> p.watch, seen |-> s, todo |-> x]
<1>2. /\ p.at = "scan" /\ pass' = [pass EXCEPT ![t] = q]
      /\ UNCHANGED <<program, pattern, clock, mtime, foreign, opened, open, overlapped, pending>>
  BY <1>1 DEF ScanEnd, SetPass, configWatchVars, sinkVars
<1>3. tied' = (tied \/ \E f, g \in DOMAIN s : f # g /\ s[f] = s[g])
  BY DEF ScanEnd
<1>4. /\ p \in Scanning /\ s \in SeenType /\ p.watch \in Watches
      /\ SeenOrder(p) /\ MatchedOnly(p)
  BY <1>0, <1>2, PassFacts DEF PassesOrdered
<1>5. /\ DOMAIN s \subseteq Entries /\ IsFiniteSet(DOMAIN s)
      /\ \A g \in DOMAIN s : s[g] \in Nat /\ g \in Int
  BY <1>4, SeenFacts, EntryFacts, EntriesFinite, FS_Subset
<1>6. /\ x \subseteq DOMAIN s
      /\ x # {} => /\ Cardinality(x) + MaxFiles = Cardinality(DOMAIN s)
                   /\ \A f \in x, g \in DOMAIN s \ x : s[f] <= s[g]
  BY <1>1 DEF Excess
<1>7. q \in Acting /\ q.at = "act" /\ q.seen = s /\ q.todo = x
  <2> HIDE DEF s, p
  <2>1. x \subseteq Entries
    BY <1>5, <1>6
  <2>2. QED
    BY <1>4, <2>1 DEF Acting
<1> DEFINE K == DOMAIN s \ x
<1>8. x # {} => Cardinality(K) = MaxFiles /\ IsFiniteSet(K) /\ K # {}
  BY <1>5, <1>6, LeftOver
<1>9. program = "watched"
  BY <1>0, <1>2, NoPassFacts DEF FileTypes
<1>10. MatchingTyped
  BY <1>0, MatchingFacts
<1> HIDE DEF q
<1>11. SeenOrder(q) /\ MatchedOnly(q)
  BY <1>2, <1>4, <1>7 DEF SeenOrder, MatchedOnly
<1>12. Spares(q)
  <2> SUFFICES ASSUME NEW f \in x PROVE \E g \in DOMAIN s \ x : s[f] <= s[g]
    BY <1>7 DEF Spares
  <2>1. PICK g \in K : TRUE
    BY <1>8
  <2>2. QED
    BY <1>6, <2>1
<1>13. Mistaken = {} /\ ~tied' => KeepsNewer(q)
  <2> SUFFICES ASSUME Mistaken = {}, ~tied', NEW f \in x PROVE Outnumbered(f)
    BY <1>7 DEF KeepsNewer
  <2>1. ~tied /\ \A g, h \in DOMAIN s : g # h => s[g] # s[h]
    BY <1>3
  <2>2. \A g \in DOMAIN s : g \in Matching \/ Outnumbered(g)
    BY <1>0, <1>2, <2>1 DEF NewerKept, KeepsNewer
  <2>3. ASSUME NEW k \in K PROVE f < k
    <3>1. f \in DOMAIN s /\ k \in DOMAIN s /\ f # k
      BY <1>6, <2>3
    <3>2. s[f] <= s[k] /\ s[f] # s[k]
      BY <1>6, <2>1, <2>3, <3>1
    <3>3. f \in Own /\ k \in Own
      BY <1>2, <1>4, <1>5, <3>1, OwnMatched DEF MatchedOnly
    <3>4. k < f => s[k] <= s[f]
      BY <1>2, <1>4, <3>1, <3>3 DEF SeenOrder
    <3>5. f \in Int /\ k \in Int /\ s[f] \in Nat /\ s[k] \in Nat
      BY <1>5, <3>1
    <3> HIDE DEF s, K
    <3>6. QED
      BY <3>1, <3>2, <3>4, <3>5
  <2>4. IsFiniteSet(Newer(Matching, f))
    <3>1. Newer(Matching, f) \subseteq Matching
      BY DEF Newer
    <3>2. QED
      BY <1>10, <3>1, FS_Subset DEF MatchingTyped
  <2>5. CASE K \subseteq Matching
    <3>1. K \subseteq Newer(Matching, f)
      BY <2>3, <2>5 DEF Newer
    <3>2. Cardinality(K) >= MaxFiles
      BY <1>8, WatchdogAssumption
    <3> HIDE DEF K
    <3>3. QED
      BY <2>4, <3>1, <3>2, EnoughFiles DEF Outnumbered
  <2>6. CASE ~(K \subseteq Matching)
    <3>1. PICK k \in K : k \notin Matching
      BY <2>6
    <3>2. Outnumbered(k) /\ f < k /\ f \in Int /\ k \in Int
      BY <1>5, <1>6, <2>2, <2>3, <3>1
    <3>3. \A g \in Matching : g \in Int
      BY <1>10 DEF MatchingTyped
    <3> HIDE DEF K, s
    <3>4. Newer(Matching, k) \subseteq Newer(Matching, f)
      BY <3>2, <3>3 DEF Newer
    <3>5. QED
      BY <2>4, <3>2, <3>4, EnoughFiles DEF Outnumbered
  <2>7. QED
    BY <2>5, <2>6
<1>14. ~overlapped => KeepsRest(q) /\ \A u \in Threads \ {t} : pass[u].at = "idle"
  <2> SUFFICES ASSUME ~overlapped
               PROVE  KeepsRest(q) /\ \A u \in Threads \ {t} : pass[u].at = "idle"
    OBVIOUS
  <2>1. DOMAIN s \subseteq Matching /\ \A u \in Threads \ {t} : pass[u].at = "idle"
    BY <1>0, <1>2 DEF RestKept, KeepsRest
  <2>2. (Matching \cap DOMAIN s) \ x = K
    BY <2>1
  <2>3. x # {} => Cardinality(K) >= MaxFiles
    BY <1>8, WatchdogAssumption
  <2>4. QED
    BY <1>7, <2>1, <2>2, <2>3 DEF KeepsRest
<1>15. pending' \subseteq Watches /\ tied' \in BOOLEAN /\ overlapped' \in BOOLEAN
  <2>1. pending' \subseteq Watches /\ overlapped' \in BOOLEAN
    BY <1>0, <1>2 DEF FileTypes
  <2>2. tied' \in BOOLEAN
    BY <1>3, Zenon
  <2>3. QED
    BY <2>1, <2>2
<1>16. tied => tied'
  BY <1>3
<1>17. QED
  BY <1>2, <1>6, <1>7, <1>9, <1>11, <1>12, <1>13, <1>14, <1>15, <1>16, PassStep

\* A pass is done with one of the files that are to go.
Shorter(p, f) == [p EXCEPT !.todo = p.todo \ {f}]

LEMMA ShorterFacts ==
    ASSUME FileTypes, NEW t \in Threads, pass[t].at = "act", NEW f \in pass[t].todo,
           SeenOrder(pass[t]), Spares(pass[t]), MatchedOnly(pass[t])
    PROVE  /\ Shorter(pass[t], f) \in Acting /\ Shorter(pass[t], f).at = "act"
           /\ Shorter(pass[t], f).seen = pass[t].seen
           /\ Shorter(pass[t], f).todo = pass[t].todo \ {f}
           /\ SeenOrder(Shorter(pass[t], f)) /\ Spares(Shorter(pass[t], f))
           /\ MatchedOnly(Shorter(pass[t], f))
<1> DEFINE p == pass[t]
           q == Shorter(p, f)
<1>1. p \in Acting /\ p.todo \subseteq DOMAIN p.seen
  BY PassFacts
<1>2. q \in Acting /\ q.at = "act" /\ q.seen = p.seen /\ q.todo = p.todo \ {f}
  BY <1>1 DEF Shorter, Acting
<1> HIDE DEF q
<1>3. SeenOrder(q) /\ MatchedOnly(q)
  BY <1>2 DEF SeenOrder, MatchedOnly
<1>4. Spares(q)
  BY <1>2 DEF Spares
<1>5. QED
  BY <1>2, <1>3, <1>4 DEF q

\* The pack command fails.
LEMMA PackFailsStep ==
    ASSUME WatchInv, NEW t \in Threads, PackFails(t)
    PROVE  WatchInv'
<1>0. FileTypes /\ PassesOrdered /\ NewerKept /\ RestKept
  BY DEF WatchInv
<1> DEFINE p == pass[t]
<1>1. PICK f \in p.todo : SetPass(t, Shorter(p, f))
  BY DEF PackFails, Oldest, Shorter
<1> DEFINE q == Shorter(p, f)
<1>2. /\ p.at = "act" /\ pass' = [pass EXCEPT ![t] = q]
      /\ UNCHANGED <<program, pattern, clock, mtime, foreign, opened, open, tied, overlapped, pending>>
  BY <1>1 DEF PackFails, SetPass, configWatchVars, sinkVars
<1>3. /\ q \in Acting /\ q.at = "act" /\ q.seen = p.seen /\ q.todo = p.todo \ {f}
      /\ SeenOrder(q) /\ Spares(q) /\ MatchedOnly(q) /\ p.todo \subseteq DOMAIN p.seen
  BY <1>0, <1>2, ShorterFacts, PassFacts DEF PassesOrdered
<1> HIDE DEF q
<1>4. program = "watched"
  BY <1>0, <1>2, NoPassFacts DEF FileTypes
<1>5. Mistaken = {} /\ ~tied => KeepsNewer(q)
  BY <1>0, <1>2, <1>3 DEF NewerKept, KeepsNewer
<1>6. ~overlapped => KeepsRest(q) /\ \A u \in Threads \ {t} : pass[u].at = "idle"
  <2> SUFFICES ASSUME ~overlapped
               PROVE  KeepsRest(q) /\ \A u \in Threads \ {t} : pass[u].at = "idle"
    OBVIOUS
  <2>1. KeepsRest(p) /\ \A u \in Threads \ {t} : pass[u].at = "idle"
    BY <1>0, <1>2 DEF RestKept
  <2> DEFINE A == (Matching \cap DOMAIN p.seen) \ p.todo
             B == (Matching \cap DOMAIN p.seen) \ q.todo
  <2>2. A \subseteq B /\ B \subseteq Matching
    BY <1>3
  <2>3. IsFiniteSet(B)
    <3>1. IsFiniteSet(Matching)
      BY <1>0, MatchingFacts DEF MatchingTyped
    <3>2. QED
      BY <2>2, <3>1, FS_Subset
  <2>4. Cardinality(A) >= MaxFiles => Cardinality(B) >= MaxFiles
    BY <2>2, <2>3, EnoughFiles
  <2>5. KeepsRest(q)
    BY <1>2, <1>3, <2>1, <2>4 DEF KeepsRest
  <2>6. QED
    BY <2>1, <2>5
<1>7. pending' \subseteq Watches /\ tied' \in BOOLEAN /\ overlapped' \in BOOLEAN
  BY <1>0, <1>2 DEF FileTypes
<1>8. q \in {NoPass} \cup Scanning \cup Acting
  BY <1>3
<1>9. q.at = "act" => q.todo \subseteq DOMAIN q.seen
  BY <1>3
<1>10. QED
  BY <1>2, <1>3, <1>4, <1>5, <1>6, <1>7, <1>8, <1>9, PassStep

\* A file is deleted.
LEMMA RemoveStep ==
    ASSUME WatchInv, NEW t \in Threads, pass[t].at = "act", NEW f \in pass[t].todo,
           pass' = [pass EXCEPT ![t] = Shorter(pass[t], f)],
           Present' = Present \ {f}, \A g \in Present \ {f} : mtime'[g] = mtime[g],
           mtime' \in [Own -> Times \cup {Gone}],
           foreign' = foreign \ {f},
           UNCHANGED <<program, pattern, clock, opened, open, tied, overlapped, pending>>
    PROVE  WatchInv'
<1>0. FileTypes /\ FilesOrdered /\ PassesOrdered /\ ForeignMatched /\ NewerKept /\ RestKept
  BY DEF WatchInv
<1> DEFINE p == pass[t]
           q == Shorter(p, f)
<1>1. /\ q \in Acting /\ q.at = "act" /\ q.seen = p.seen /\ q.todo = p.todo \ {f}
      /\ SeenOrder(q) /\ Spares(q) /\ MatchedOnly(q) /\ p.todo \subseteq DOMAIN p.seen
      /\ p.seen \in SeenType
  BY <1>0, ShorterFacts, PassFacts DEF PassesOrdered
<1> HIDE DEF q
<1>2. pass' = [pass EXCEPT ![t] = q] /\ pass'[t] = q /\ \A u \in Threads \ {t} : pass'[u] = pass[u]
  BY <1>0 DEF FileTypes, q
<1>3. program = "watched"
  BY <1>0, NoPassFacts DEF FileTypes
<1>4. f \in DOMAIN p.seen /\ f \in Entries /\ f \in Int /\ Matched(f)
  <2>1. f \in DOMAIN p.seen
    BY <1>1
  <2>2. MatchedOnly(p)
    BY <1>0 DEF PassesOrdered
  <2>3. QED
    BY <1>1, <2>1, <2>2, SeenFacts, EntryFacts DEF MatchedOnly
<1>5. MatchingTyped
  BY <1>0, MatchingFacts
<1>6. FileTypes'
  <2>1. pass' \in [Threads -> {NoPass} \cup Scanning \cup Acting]
    BY <1>0, <1>1, <1>2 DEF FileTypes
  <2>2. \A u \in Threads : pass'[u].at = "act" => pass'[u].todo \subseteq DOMAIN pass'[u].seen
    BY <1>0, <1>1, <1>2 DEF FileTypes
  <2>3. foreign' \subseteq Others
    BY <1>0 DEF FileTypes
  <2>4. QED
    BY <1>0, <1>3, <2>1, <2>2, <2>3 DEF FileTypes
<1>7. FilesOrdered'
  <2>1. NextFile' = NextFile
    BY DEF NextFile
  <2>2. QED
    BY <1>0, <2>1 DEF FilesOrdered
<1>8. PassesOrdered'
  <2> SUFFICES ASSUME NEW u \in Threads
               PROVE  SeenOrder(pass[u])' /\ Spares(pass[u])' /\ MatchedOnly(pass[u])'
    BY DEF PassesOrdered
  <2>1. SeenOrder(pass'[u]) /\ Spares(pass'[u]) /\ MatchedOnly(pass'[u])
    BY <1>0, <1>1, <1>2 DEF PassesOrdered
  <2>2. SeenOrder(pass[u])'
    BY <2>1 DEF SeenOrder
  <2>3. Spares(pass[u])' /\ MatchedOnly(pass[u])'
    BY <2>1 DEF Spares, MatchedOnly, Matched
  <2>4. QED
    BY <2>2, <2>3
<1>9. ForeignMatched'
  BY <1>0, <1>4 DEF ForeignMatched, Matched
<1>10. Matching' = Matching \ {f} /\ Mistaken' = Mistaken
  <2>1. \A g : Matched(g)' <=> Matched(g)
    BY DEF Matched
  <2>2. QED
    BY <2>1 DEF Matching, Mistaken
<1>11. NewerKept'
  <2> SUFFICES ASSUME Mistaken = {}, ~tied, NEW u \in Threads PROVE KeepsNewer(pass[u])'
    BY <1>10 DEF NewerKept
  <2>1. Outnumbered(f)
    BY <1>0 DEF NewerKept, KeepsNewer
  <2>2. \A g \in Matching : g \in Int
    BY <1>5 DEF MatchingTyped
  <2>3. ASSUME NEW h \in Int, Outnumbered(h) PROVE Outnumbered(h)'
    <3>1. IsFiniteSet(Newer(Matching', h))
      <4>1. Newer(Matching', h) \subseteq Matching
        BY <1>10 DEF Newer
      <4>2. QED
        BY <1>5, <4>1, FS_Subset DEF MatchingTyped
    <3>2. CASE f <= h
      <4>1. Newer(Matching, h) \subseteq Newer(Matching', h)
        BY <1>4, <1>10, <2>2, <3>2 DEF Newer
      <4>2. QED
        BY <2>3, <3>1, <4>1, EnoughFiles DEF Outnumbered
    <3>3. CASE h < f
      <4>1. Newer(Matching, f) \subseteq Newer(Matching', h)
        BY <1>4, <1>10, <2>2, <3>3 DEF Newer
      <4>2. QED
        BY <2>1, <3>1, <4>1, EnoughFiles DEF Outnumbered
    <3>4. QED
      BY <1>4, <3>2, <3>3
  <2>4. KeepsNewer(pass'[u])
    BY <1>0, <1>1, <1>2 DEF NewerKept, KeepsNewer
  <2>5. \A g \in Matching : g \in Matching' \/ Outnumbered(g)'
    BY <1>4, <1>10, <2>1, <2>3
  <2>6. pass'[u].at = "act" => pass'[u].todo \subseteq Int
    BY <1>0, <1>1, <1>2, <1>6, EntryFacts, PassKinds DEF FileTypes
  <2>7. pass'[u].at = "scan" => DOMAIN pass'[u].seen \subseteq Int
    BY <1>0, <1>1, <1>2, EntryFacts, PassFacts, SeenFacts
  <2>8. QED
    BY <2>3, <2>4, <2>5, <2>6, <2>7 DEF KeepsNewer
<1>12. RestKept'
  <2> SUFFICES ASSUME ~overlapped
               PROVE  /\ \A u, v \in Threads : pass'[u].at # "idle" /\ pass'[v].at # "idle" => u = v
                      /\ \A u \in Threads : KeepsRest(pass[u])'
    BY DEF RestKept
  <2>1. \A u \in Threads \ {t} : pass'[u].at = "idle"
    BY <1>0, <1>2 DEF RestKept
  <2>2. KeepsRest(pass[t])'
    <3> DEFINE A == (Matching \cap DOMAIN p.seen) \ p.todo
               B == (Matching' \cap DOMAIN p.seen) \ q.todo
    <3>1. A \subseteq B /\ B \subseteq Matching
      BY <1>1, <1>10
    <3>2. IsFiniteSet(B)
      BY <1>5, <3>1, FS_Subset DEF MatchingTyped
    <3>3. Cardinality(A) >= MaxFiles
      BY <1>0 DEF RestKept, KeepsRest
    <3>4. Cardinality(B) >= MaxFiles
      BY <3>1, <3>2, <3>3, EnoughFiles
    <3>5. QED
      BY <1>1, <1>2, <3>4 DEF KeepsRest
  <2>3. QED
    BY <2>1, <2>2 DEF KeepsRest
<1>13. QED
  BY <1>6, <1>7, <1>8, <1>9, <1>11, <1>12 DEF WatchInv

\* What Act does.
LEMMA ActFacts ==
    ASSUME FileTypes, NEW t \in Threads, Act(t)
    PROVE  \E f \in pass[t].todo :
              /\ pass[t].at = "act" /\ pass' = [pass EXCEPT ![t] = Shorter(pass[t], f)]
              /\ Present' = Present \ {f} /\ \A g \in Present \ {f} : mtime'[g] = mtime[g]
              /\ mtime' \in [Own -> Times \cup {Gone}] /\ foreign' = foreign \ {f}
              /\ UNCHANGED <<program, pattern, clock, opened, open, tied, overlapped, pending>>
<1>1. PICK f \in pass[t].todo :
         /\ SetPass(t, Shorter(pass[t], f))
         /\ mtime' = IF f \in Own THEN [mtime EXCEPT ![f] = Gone] ELSE mtime
         /\ foreign' = foreign \ {f}
  BY DEF Act, Oldest, Shorter
<1>2. /\ pass[t].at = "act" /\ pass' = [pass EXCEPT ![t] = Shorter(pass[t], f)]
      /\ UNCHANGED <<program, pattern, clock, opened, open, tied, overlapped, pending>>
  BY <1>1 DEF Act, SetPass, configWatchVars, sinkVars
<1>3. mtime' \in [Own -> Times \cup {Gone}] /\ mtime \in [Own -> Times \cup {Gone}]
  BY <1>1 DEF FileTypes
<1>4. Present' = Present \ {f} /\ \A g \in Present \ {f} : mtime'[g] = mtime[g]
  BY <1>1, <1>3 DEF Present
<1>5. QED
  BY <1>1, <1>2, <1>3, <1>4

\* Steps of the logger: no file and no pass is touched.
LEMMA WatchKept ==
    ASSUME WatchInv,
           UNCHANGED <<program, pattern, clock, mtime, foreign, opened, open, pass, tied, overlapped>>,
           pending' \subseteq Watches, program = "logs" => pending' = {}
    PROVE  WatchInv'
<1>1. Present' = Present /\ NextFile' = NextFile /\ Matching' = Matching /\ Mistaken' = Mistaken
  BY MatchingSame DEF NextFile
<1>2. FileTypes'
  BY DEF WatchInv, FileTypes
<1>3. FilesOrdered'
  BY <1>1 DEF WatchInv, FilesOrdered
<1>4. PassesOrdered' /\ ForeignMatched'
  BY <1>1 DEF WatchInv, PassesOrdered, SeenOrder, Spares, MatchedOnly, Matched, ForeignMatched
<1>5. NewerKept' /\ RestKept'
  BY <1>1 DEF WatchInv, NewerKept, RestKept, KeepsNewer, KeepsRest, Outnumbered
<1>6. QED
  BY <1>2, <1>3, <1>4, <1>5 DEF WatchInv

LEMMA TickStep ==
    ASSUME WatchInv, Tick
    PROVE  WatchInv'
<1>0. FileTypes /\ PresentTyped /\ FilesOrdered
  BY PresentFacts DEF WatchInv
<1>1. /\ program = "watched" /\ clock' = clock + 1 /\ clock < MaxClock
      /\ UNCHANGED <<program, pattern, mtime, foreign, opened, open, pass, pending, tied, overlapped>>
  BY DEF Tick, configWatchVars, sinkVars, passVars
<1>2. Present' = Present
  BY <1>1 DEF Present
<1>3. open \in Nat /\ clock \in Nat /\ clock' \in Times
  BY <1>0, <1>1, EntryFacts DEF PresentTyped, Times
<1>4. FileTypes'
  BY <1>0, <1>1, <1>3 DEF FileTypes
<1>5. open' <= NextFile'
  <2>1. open <= NextFile /\ opened \in Nat /\ MaxMessages \in Nat
    BY <1>0, <1>1, LoggerAssumption DEF FilesOrdered, FileTypes
  <2>2. QED
    BY <1>1, <1>3, <2>1 DEF NextFile
<1>6. clock <= clock' /\ open <= open'
  BY <1>1, <1>3
<1>7. QED
  BY <1>1, <1>2, <1>4, <1>5, <1>6, FilesGrow

\* What the file sink does with the files.
LEMMA SinkFiles ==
    ASSUME FileTypes, SinkWrites \/ SinkRotates
    PROVE  /\ FileTypes'
           /\ UNCHANGED <<program, pattern, clock, foreign, pending, pass, tied, overlapped>>
           /\ Present \subseteq Present'
           /\ \/ open' = open /\ opened' = opened
              \/ open' = NextFile /\ opened' = opened + 1
           /\ \A g \in Present' : \/ g \in Present /\ mtime'[g] = mtime[g]
                                  \/ mtime'[g] = clock /\ g \in {open, open'}
<1>0. /\ mtime \in [Own -> Times \cup {Gone}] /\ clock \in Times /\ clock # Gone /\ NextFile \in Nat
      /\ open \in Nat /\ opened \in Nat
  BY EntryFacts, PresentFacts DEF FileTypes, PresentTyped
<1>1. UNCHANGED <<program, pattern, clock, foreign, pending, pass, tied, overlapped>>
  BY DEF SinkWrites, SinkRotates, TakeRecord, configWatchVars, passVars
<1>2. CASE SinkWrites
  <2>1. PICK t \in Touched(open) : mtime' = [mtime EXCEPT ![open] = t]
    BY <1>2 DEF SinkWrites
  <2>2. open' = open /\ opened' = opened
    BY <1>2 DEF SinkWrites
  <2>3. open \in Own => t \in Times \cup {Gone} /\ (t = mtime[open] \/ (t = clock /\ mtime[open] # Gone))
    BY <1>0, <2>1 DEF Touched
  <2>4. mtime' \in [Own -> Times \cup {Gone}]
    BY <1>0, <2>1, <2>3
  <2>5. \A g \in Own : \/ mtime'[g] = mtime[g]
                       \/ g = open /\ mtime[g] # Gone /\ mtime'[g] = clock
    BY <1>0, <2>1, <2>3
  <2>6. /\ Present \subseteq Present'
        /\ \A g \in Present' : \/ g \in Present /\ mtime'[g] = mtime[g]
                               \/ mtime'[g] = clock /\ g = open
    BY <1>0, <2>5 DEF Present
  <2>7. FileTypes'
    BY <1>1, <2>2, <2>4 DEF FileTypes
  <2>8. QED
    BY <1>1, <2>2, <2>6, <2>7
<1>3. CASE SinkRotates
  <2>1. open' = NextFile /\ opened' = opened + 1
    BY <1>3 DEF SinkRotates
  <2>2. \A g \in Own : /\ mtime'[g] \in Times \cup {Gone}
                       /\ \/ mtime'[g] = mtime[g]
                          \/ g = open /\ mtime[g] # Gone /\ mtime'[g] = clock
                          \/ g = NextFile /\ mtime'[g] = clock
    <3>1. CASE mtime' = [mtime EXCEPT ![NextFile] = clock]
      BY <1>0, <3>1
    <3>2. ASSUME NEW t \in Touched(open), mtime' = [mtime EXCEPT ![open] = t, ![NextFile] = clock]
          PROVE  \A g \in Own : /\ mtime'[g] \in Times \cup {Gone}
                                /\ \/ mtime'[g] = mtime[g]
                                   \/ g = open /\ mtime[g] # Gone /\ mtime'[g] = clock
                                   \/ g = NextFile /\ mtime'[g] = clock
      <4>1. open \in Own => t \in Times \cup {Gone} /\ (t = mtime[open] \/ (t = clock /\ mtime[open] # Gone))
        BY <1>0, <3>2 DEF Touched
      <4>2. QED
        BY <1>0, <3>2, <4>1
    <3>3. QED
      BY <1>3, <3>1, <3>2 DEF SinkRotates
  <2>3. mtime' \in [Own -> Times \cup {Gone}]
    <3>1. \E m \in [Own -> Times \cup {Gone}] : \E a, b, c : mtime' = [m EXCEPT ![a] = b]
                                                          \/ mtime' = [m EXCEPT ![a] = b, ![c] = clock]
      BY <1>0, <1>3 DEF SinkRotates
    <3>2. DOMAIN mtime' = Own /\ mtime' = [g \in Own |-> mtime'[g]]
      BY <3>1
    <3>3. QED
      BY <2>2, <3>2
  <2>4. /\ Present \subseteq Present'
        /\ \A g \in Present' : \/ g \in Present /\ mtime'[g] = mtime[g]
                               \/ mtime'[g] = clock /\ g \in {open, open'}
    BY <1>0, <2>1, <2>2 DEF Present
  <2>5. FileTypes'
    BY <1>0, <1>1, <2>1, <2>3 DEF FileTypes
  <2>6. QED
    BY <1>1, <2>1, <2>4, <2>5
<1>4. QED
  BY <1>2, <1>3

LEMMA SinkFileStep ==
    ASSUME WatchInv, SinkWrites \/ SinkRotates
    PROVE  WatchInv'
<1>0. FileTypes /\ FilesOrdered /\ PresentTyped
  BY PresentFacts DEF WatchInv
<1>1. /\ FileTypes'
      /\ UNCHANGED <<program, pattern, clock, foreign, pending, pass, tied, overlapped>>
      /\ Present \subseteq Present'
      /\ \/ open' = open /\ opened' = opened
         \/ open' = NextFile /\ opened' = opened + 1
      /\ \A g \in Present' : \/ g \in Present /\ mtime'[g] = mtime[g]
                             \/ mtime'[g] = clock /\ g \in {open, open'}
  BY <1>0, SinkFiles
<1>2. CASE program = "logs"
  BY <1>1, <1>2, UnwatchedStep
<1>3. CASE program # "logs"
  <2>1. program = "watched"
    BY <1>0, <1>3 DEF FileTypes
  <2>2. open <= NextFile /\ open \in Nat /\ NextFile \in Nat /\ opened \in Nat /\ clock \in Nat
    BY <1>0, <2>1 DEF FilesOrdered, PresentTyped, FileTypes
  <2>3. open <= open' /\ clock <= clock' /\ open' \in Nat
    BY <1>1, <2>2
  <2>4. open' <= NextFile'
    <3>1. MaxMessages \in Nat
      BY LoggerAssumption
    <3>2. CASE opened' = opened
      BY <1>1, <2>2, <3>1, <3>2 DEF NextFile
    <3>3. CASE opened' = opened + 1
      BY <1>1, <2>2, <3>1, <3>3 DEF NextFile
    <3>4. QED
      BY <1>1, <3>2, <3>3
  <2>5. \A g \in Present' : \/ g \in Present /\ mtime'[g] = mtime[g]
                            \/ mtime'[g] = clock /\ open <= g /\ g <= open'
    <3>1. open <= open' /\ open <= open /\ open' <= open'
      BY <2>2, <2>3
    <3>2. QED
      BY <1>1, <3>1
  <2>6. QED
    BY <1>1, <2>1, <2>3, <2>4, <2>5, FilesGrow
<1>4. QED
  BY <1>2, <1>3

\* A new sink begins anew with the files.
LEMMA BoostStep ==
    ASSUME WatchInv, NEW d, NEW async, InitBoost(d, async)
    PROVE  WatchInv'
<1>1. /\ program = "logs" /\ opened' = 0 /\ open' = 0
      /\ UNCHANGED <<program, pattern, clock, mtime, foreign, pass, pending, tied, overlapped>>
  BY DEF InitBoost, configWatchVars, passVars
<1>2. FileTypes'
  BY <1>1 DEF WatchInv, FileTypes
<1>3. QED
  BY <1>1, <1>2, UnwatchedStep

LEMMA WatchInitInv == Init => WatchInv
<1> SUFFICES ASSUME Init PROVE WatchInv
  OBVIOUS
<1>1. /\ program \in {"logs", "watched"} /\ clock = 0 /\ mtime = [f \in Own |-> Gone]
      /\ foreign = {-i : i \in DOMAIN Foreign}
      /\ opened = 0 /\ open = 0 /\ pending = {} /\ pass = [t \in Threads |-> NoPass]
      /\ tied = FALSE /\ overlapped = FALSE
      /\ pattern \in IF program = "logs" THEN {OnePattern} ELSE Patterns
  BY DEF Init
<1>2. pattern \in Patterns
  <2>1. OnePattern \in Patterns
    BY WatchdogAssumption DEF OnePattern
  <2>2. QED
    BY <1>1, <2>1
<1>3. foreign = Others
  BY <1>1, WatchdogAssumption DEF Others
<1>4. Present = {}
  BY <1>1 DEF Present
<1>5. \A t \in Threads : pass[t] = NoPass /\ pass[t].at = "idle"
  BY <1>1, NoPassFacts
<1>6. FileTypes
  <2>1. 0 \in Times
    BY EntryFacts DEF Times
  <2>2. pass \in [Threads -> {NoPass} \cup Scanning \cup Acting]
    BY <1>1
  <2>3. mtime \in [Own -> Times \cup {Gone}]
    BY <1>1
  <2>4. tied \in BOOLEAN /\ overlapped \in BOOLEAN
    BY <1>1
  <2>5. QED
    BY <1>1, <1>2, <1>3, <1>5, <2>1, <2>2, <2>3, <2>4 DEF FileTypes
<1>7. FilesOrdered
  <2>1. NextFile \in Nat
    BY <1>6, PresentFacts DEF PresentTyped
  <2>2. QED
    BY <1>1, <1>4, <2>1 DEF FilesOrdered
<1>8. PassesOrdered /\ ForeignMatched
  BY <1>3, <1>5 DEF PassesOrdered, SeenOrder, Spares, MatchedOnly, ForeignMatched
<1>9. NewerKept /\ RestKept
  BY <1>5 DEF NewerKept, RestKept, KeepsNewer, KeepsRest
<1>10. QED
  BY <1>6, <1>7, <1>8, <1>9 DEF WatchInv

(***************************************************************************)
(* The steps together                                                      *)
(***************************************************************************)

\* A step of the configuring thread, a destination added to the logger apart.
LEMMA SettingStep ==
    ASSUME LoggerInv,
           \/ set_level_from_environment \/ (\E o \in OptionNames : set_option(o))
           \/ lock \/ unlock \/ flush \/ FlushReturns
    PROVE  LoggerInv'
<1>1. ASSUME NEW o \in OptionNames, set_option(o) PROVE LoggerInv'
  BY <1>1, OptionStep
<1>2. CASE set_level_from_environment
  BY <1>2, LoggerKept DEF set_level_from_environment, set_level, writeVars
<1>3. CASE lock \/ unlock
  BY <1>3, LoggerKept DEF lock, unlock, writeVars
<1>4. CASE flush \/ FlushReturns
  BY <1>4, LoggerKept DEF flush, FlushReturns, configVars
<1>5. QED
  BY <1>1, <1>2, <1>3, <1>4

\* A destination that is not boost's, and one that is.
LEMMA PlainDestination ==
    ASSUME LoggerInv, init_sys_log \/ add_custom_destination
    PROVE  LoggerInv'
<1>1. PICK d \in {"sys", "custom"} : add_destination(d, 0)
  BY DEF init_sys_log, add_custom_destination
<1> DEFINE a == [dest |-> d, impl |-> 0]
<1>2. a \in Appender /\ a.dest \notin BoostDestinations
  BY DEF Appender, Destinations, BoostDestinations
<1>3. UNCHANGED <<option, sink, records, boostImpl, writer, created, out, ledger>>
  BY DEF init_sys_log, add_custom_destination, writeVars
<1>4. /\ appenders' = Append(appenders, a)
      /\ fault' = IF \E w \in Writers : writer[w].at = "write" THEN "appenders" ELSE fault
  BY <1>1 DEF add_destination
<1> HIDE DEF a
<1>5. QED
  BY <1>2, <1>3, <1>4, DestinationStep

LEMMA BoostDestination ==
    ASSUME LoggerInv, NEW d \in BoostDestinations, NEW async \in BOOLEAN, init_boost_log(d, async)
    PROVE  LoggerInv'
<1> DEFINE a == [dest |-> d, impl |-> boostImpl']
<1>1. boostImpl' = boostImpl + 1 /\ boostImpl \in Nat
  BY DEF init_boost_log, LoggerInv, LoggerTypes
<1>2. a \in Appender /\ a.dest = d
  BY <1>1 DEF Appender, Destinations
<1>3. /\ UNCHANGED <<option, writer, created, out, ledger>>
      /\ sink' = NewSink(d, async) /\ records' = <<>>
  BY DEF init_boost_log, writeVars
<1>4. /\ appenders' = Append(appenders, a)
      /\ fault' = IF \E w \in Writers : writer[w].at = "write" THEN "appenders" ELSE fault
  BY DEF init_boost_log, add_destination
<1> HIDE DEF a
<1>5. QED
  BY <1>1, <1>2, <1>3, <1>4, DestinationStep

\* A thread logs.
LEMMA LoggingStep ==
    ASSUME LoggerInv, NEW w \in Writers, LogStep(w) \/ WriterStep(w)
    PROVE  LoggerInv'
<1>1. CASE LogStep(w)
  <2>1. LoggedLevels \subseteq LogLevels
    BY LoggerAssumption DEF LoggedLevels
  <2>2. PICK lv \in LogLevels : create_message(w, lv)
    BY <1>1, <2>1 DEF LogStep, LogMessage, LogStream
  <2>3. QED
    BY <2>2, CreateStep
<1>2. CASE WriterStep(w)
  BY <1>2, WriteStep, AppenderStep, WriteOver DEF WriterStep
<1>3. QED
  BY <1>1, <1>2

\* The watchdog does nothing to the logger, but may end the process.
LEMMA WatchdogLeaves ==
    ASSUME \/ Tick \/ (\E k \in Watches : Watch(k) \/ LoopBegins(k)) \/ CallerBegins
           \/ (\E t \in Threads : WatchdogStep(t) \/ PassThrows(t))
    PROVE  /\ UNCHANGED <<option, boostImpl, appenders, sink, writer, created, records, out, ledger>>
           /\ fault' = "none" => fault = "none"
<1>1. CASE Tick \/ \E k \in Watches : Watch(k)
  BY <1>1 DEF Tick, Watch, loggerVars
<1>2. CASE CallerBegins \/ \E k \in Watches : LoopBegins(k)
  BY <1>2 DEF CallerBegins, LoopBegins, PassBegin, loggerVars
<1>3. ASSUME NEW t \in Threads, WatchdogStep(t)
      PROVE  UNCHANGED loggerVars
  BY <1>3 DEF WatchdogStep, ScanFile, ScanEnd, Act, PackFails, PassEnd, SetPass
<1>4. ASSUME NEW t \in Threads, PassThrows(t)
      PROVE  /\ UNCHANGED <<option, boostImpl, appenders, sink, writer, created, records, out, ledger>>
             /\ fault' = "none" => fault = "none"
  BY <1>4 DEF PassThrows, configVars, writeVars
<1>5. QED
  BY <1>1, <1>2, <1>3, <1>4 DEF loggerVars

\* Every step keeps the logger's invariant.
LEMMA LoggerStep == LoggerInv /\ [Next]_vars => LoggerInv'
<1> SUFFICES ASSUME LoggerInv, [Next]_vars PROVE LoggerInv'
  OBVIOUS
<1>1. CASE ConfigureStep
  BY <1>1, SettingStep, PlainDestination DEF ConfigureStep
<1>2. CASE SinkStep
  BY <1>2, RecordStep DEF SinkStep, SinkPrints, SinkWrites, SinkRotates
<1>3. ASSUME NEW d \in BoostDestinations, NEW async \in BOOLEAN, InitBoost(d, async)
      PROVE  LoggerInv'
  BY <1>3, BoostDestination DEF InitBoost
<1>4. ASSUME NEW w \in Writers, LogStep(w) \/ WriterStep(w)
      PROVE  LoggerInv'
  BY <1>4, LoggingStep
<1>5. CASE \/ Tick \/ (\E k \in Watches : Watch(k) \/ LoopBegins(k)) \/ CallerBegins
           \/ (\E t \in Threads : WatchdogStep(t) \/ PassThrows(t))
  BY <1>5, WatchdogLeaves, LoggerKept
<1>6. CASE UNCHANGED vars
  BY <1>6, LoggerKept DEF vars, loggerVars
<1>7. QED
  BY <1>1, <1>2, <1>3, <1>4, <1>5, <1>6 DEF Next, LoopStep, Threads

\* The logger leaves the files and the passes alone, the file sink apart.
LEMMA LoggerLeaves ==
    ASSUME \/ ConfigureStep \/ SinkPrints \/ (\E w \in Writers : LogStep(w) \/ WriterStep(w))
           \/ UNCHANGED vars
    PROVE  UNCHANGED <<program, pattern, clock, mtime, foreign, opened, open, pending, pass,
                       tied, overlapped>>
<1>1. CASE ConfigureStep
  BY <1>1 DEF ConfigureStep, configWatchVars, sinkVars, passVars
<1>2. CASE SinkPrints
  BY <1>2 DEF SinkPrints, TakeRecord, configWatchVars, sinkVars, passVars
<1>3. CASE \E w \in Writers : LogStep(w) \/ WriterStep(w)
  BY <1>3 DEF LogStep, WriterStep, configWatchVars, sinkVars, passVars
<1>4. CASE UNCHANGED vars
  BY <1>4 DEF vars, configWatchVars, sinkVars, passVars
<1>5. QED
  BY <1>1, <1>2, <1>3, <1>4

\* The watch functions only ask for a pass.
LEMMA AskStep ==
    ASSUME WatchInv, NEW k \in Watches, Watch(k)
    PROVE  WatchInv'
<1>1. /\ program = "watched" /\ pending' = pending \cup {k}
      /\ UNCHANGED <<program, pattern, clock, mtime, foreign, opened, open, pass, tied, overlapped>>
  BY DEF Watch, configWatchVars, sinkVars
<1>2. pending' \subseteq Watches
  BY <1>1 DEF WatchInv, FileTypes
<1>3. QED
  BY <1>1, <1>2, WatchKept

\* A step of a pass.
LEMMA PassSteps ==
    ASSUME WatchInv, NEW t \in Threads, WatchdogStep(t) \/ PassThrows(t)
    PROVE  WatchInv'
<1>1. CASE Act(t)
  BY <1>1, ActFacts, RemoveStep DEF WatchInv
<1>2. CASE ScanFile(t) \/ ScanEnd(t)
  BY <1>2, ScanStep, EndScanStep
<1>3. CASE PackFails(t) \/ PassEnd(t) \/ PassThrows(t)
  BY <1>3, PackFailsStep, EndStep
<1>4. QED
  BY <1>1, <1>2, <1>3 DEF WatchdogStep

\* A pass begins in the loop or in the caller's thread.
LEMMA BeginSteps ==
    ASSUME WatchInv, CallerBegins \/ \E k \in Watches : LoopBegins(k)
    PROVE  WatchInv'
<1>1. CASE CallerBegins
  <2>1. PassBegin("caller", "once") /\ pending' \subseteq pending /\ program = "watched"
    BY <1>1 DEF CallerBegins
  <2>2. "caller" \in Threads /\ "once" \in Watches
    BY DEF Threads, Watches
  <2>3. QED
    BY <2>1, <2>2, BeginStep
<1>2. ASSUME NEW k \in Watches, LoopBegins(k) PROVE WatchInv'
  <2>1. PassBegin("loop", k) /\ pending' \subseteq pending /\ k \in pending
    BY <1>2 DEF LoopBegins
  <2>2. "loop" \in Threads /\ program # "logs"
    BY <2>1 DEF Threads, WatchInv, FileTypes
  <2>3. QED
    BY <2>1, <2>2, BeginStep
<1>3. QED
  BY <1>1, <1>2

\* Every step keeps the watchdog's invariant.
LEMMA WatchStep == WatchInv /\ [Next]_vars => WatchInv'
<1> SUFFICES ASSUME WatchInv, [Next]_vars PROVE WatchInv'
  OBVIOUS
<1>1. CASE \/ ConfigureStep \/ SinkPrints \/ (\E w \in Writers : LogStep(w) \/ WriterStep(w))
           \/ UNCHANGED vars
  <2>1. UNCHANGED <<program, pattern, clock, mtime, foreign, opened, open, pending, pass,
                    tied, overlapped>>
    BY <1>1, LoggerLeaves
  <2>2. pending' \subseteq Watches /\ (program = "logs" => pending' = {})
    BY <2>1 DEF WatchInv, FileTypes
  <2>3. QED
    BY <2>1, <2>2, WatchKept
<1>2. CASE Tick
  BY <1>2, TickStep
<1>3. CASE SinkWrites \/ SinkRotates
  BY <1>3, SinkFileStep
<1>4. ASSUME NEW d \in BoostDestinations, NEW async \in BOOLEAN, InitBoost(d, async)
      PROVE  WatchInv'
  BY <1>4, BoostStep
<1>5. CASE \E k \in Watches : Watch(k)
  BY <1>5, AskStep
<1>6. CASE CallerBegins \/ \E k \in Watches : LoopBegins(k)
  BY <1>6, BeginSteps
<1>7. CASE \E t \in Threads : WatchdogStep(t) \/ PassThrows(t)
  BY <1>7, PassSteps
<1>8. QED
  BY <1>1, <1>2, <1>3, <1>4, <1>5, <1>6, <1>7 DEF Next, SinkStep, LoopStep, Threads

(***************************************************************************)
(* Theorems                                                                *)
(***************************************************************************)

\* The invariants of the logger and of the watchdog hold in every state, for any
\* threads, messages, destinations, patterns and other entries of the directory.
THEOREM Invariance == Spec => []IInv
<1>1. Init => IInv
  <2>1. Init => LoggerInv
    BY LoggerInitInv DEF Init
  <2>2. QED
    BY <2>1, WatchInitInv DEF IInv
<1>2. IInv /\ [Next]_vars => IInv'
  BY LoggerStep, WatchStep DEF IInv
<1>3. QED
  BY <1>1, <1>2, PTL DEF Spec

\* A message that write() let through reaches every destination exactly once, however
\* many threads write, however far the asynchronous sink is behind and whatever throws.
THEOREM ReachedOnce == Spec => []WrittenOnce
<1>1. IInv => WrittenOnce
  BY LoggerInvWritten DEF IInv
<1>2. QED
  BY <1>1, Invariance, PTL

\* Whatever the pattern, the entries of the directory that the watchdog has removed and
\* that are not the log's are such that match_file accepts them: regular files with the
\* log's name and extension that follow the pattern as far as it is compared.
RemovedMatch == \A i \in DOMAIN Foreign : -i \notin foreign => match_file(pattern, Foreign[i])

THEOREM OnlyMatching == Spec => []RemovedMatch
<1>1. IInv => RemovedMatch
  <2> SUFFICES ASSUME IInv, NEW i \in DOMAIN Foreign, -i \notin foreign
               PROVE  match_file(pattern, Foreign[i])
    BY DEF RemovedMatch
  <2>1. pattern \in Patterns /\ ForeignMatched
    BY DEF IInv, WatchInv, FileTypes
  <2>2. i \in 1 .. Len(Foreign) /\ Len(Foreign) \in Nat
    BY WatchdogAssumption
  <2>3. -i < 0 /\ -(-i) = i /\ i # 0 /\ i \in 0 .. Len(Foreign)
    BY <2>2
  <2>4. -i \in Others \ foreign
    BY <2>2 DEF Others
  <2>5. MatchingName[pattern][i]
    BY <2>1, <2>3, <2>4 DEF ForeignMatched, Matched
  <2>6. QED
    BY <2>1, <2>3, <2>5 DEF MatchingName
<1>2. QED
  BY <1>1, Invariance, PTL

\* A step that is not a deletion leaves all files there, and all that match.
LEMMA OtherSteps ==
    ASSUME WatchInv, [Next]_vars, \A t \in Threads : ~Act(t)
    PROVE  Present \subseteq Present' /\ Matching \subseteq Matching'
<1>1. Present \subseteq Present' /\ UNCHANGED <<pattern, foreign>>
  <2>1. CASE SinkWrites \/ SinkRotates
    BY <2>1, SinkFiles DEF WatchInv
  <2>2. CASE \/ ConfigureStep \/ SinkPrints \/ (\E w \in Writers : LogStep(w) \/ WriterStep(w))
             \/ UNCHANGED vars
    BY <2>2, LoggerLeaves DEF Present
  <2>3. CASE Tick \/ (\E k \in Watches : Watch(k)) \/
             \E d \in BoostDestinations, async \in BOOLEAN : InitBoost(d, async)
    BY <2>3 DEF Tick, Watch, InitBoost, Present, configWatchVars
  <2>4. CASE CallerBegins \/ \E k \in Watches : LoopBegins(k)
    BY <2>4 DEF CallerBegins, LoopBegins, PassBegin, Present, configWatchVars
  <2>5. CASE \E t \in Threads : WatchdogStep(t) \/ PassThrows(t)
    <3>1. UNCHANGED <<mtime, pattern, foreign>>
      BY <2>5 DEF WatchdogStep, ScanFile, ScanEnd, PackFails, PassEnd, PassThrows, SetPass,
                  configWatchVars
    <3>2. QED
      BY <3>1 DEF Present
  <2>6. QED
    BY <2>1, <2>2, <2>3, <2>4, <2>5 DEF Next, SinkStep, LoopStep, Threads
<1>2. QED
  BY <1>1, MatchingGrows

\* Whatever the patterns and the other entries of the directory: a deletion leaves
\* max_files of those that match, unless passes have overlapped and either time stamps
\* have coincided or an entry that is not the log's was taken for one.
THEOREM MaxFilesKept == Spec => KeepsMaxFiles
<1>1. ASSUME IInv, [Next]_vars, Matching' \subseteq Matching, Matching' # Matching,
             ~overlapped \/ (~tied /\ Mistaken = {})
      PROVE  Cardinality(Matching') >= MaxFiles
  <2>0. WatchInv /\ FileTypes /\ NewerKept /\ RestKept
    BY <1>1 DEF IInv, WatchInv
  <2>1. PICK t \in Threads : Act(t)
    BY <1>1, <2>0, OtherSteps
  <2>2. PICK f \in pass[t].todo :
           /\ pass[t].at = "act" /\ Present' = Present \ {f}
           /\ foreign' = foreign \ {f} /\ pattern' = pattern
    BY <2>0, <2>1, ActFacts
  <2>3. Matching' = Matching \ {f}
    <3>1. \A g : Matched(g)' <=> Matched(g)
      BY <2>2 DEF Matched
    <3>2. QED
      BY <2>2, <3>1 DEF Matching
  <2>4. IsFiniteSet(Matching') /\ \A g \in Matching : g \in Int
    <3>1. IsFiniteSet(Matching) /\ \A g \in Matching : g \in Int
      BY <2>0, MatchingFacts DEF MatchingTyped
    <3>2. QED
      BY <2>3, <3>1, FS_Subset
  <2>5. f \in Int
    BY <2>0, <2>2, PassFacts, EntryFacts
  <2>6. CASE ~tied /\ Mistaken = {}
    <3>1. Cardinality(Newer(Matching, f)) >= MaxFiles
      BY <2>0, <2>2, <2>6 DEF NewerKept, KeepsNewer, Outnumbered
    <3>2. Newer(Matching, f) \subseteq Matching'
      BY <2>3, <2>4, <2>5 DEF Newer
    <3>3. QED
      BY <2>4, <3>1, <3>2, EnoughFiles
  <2>7. CASE ~overlapped
    <3> DEFINE A == (Matching \cap DOMAIN pass[t].seen) \ pass[t].todo
    <3>1. Cardinality(A) >= MaxFiles
      BY <2>0, <2>2, <2>7 DEF RestKept, KeepsRest
    <3>2. A \subseteq Matching'
      BY <2>2, <2>3
    <3> HIDE DEF A
    <3>3. QED
      BY <2>4, <3>1, <3>2, EnoughFiles
  <2>8. QED
    BY <1>1, <2>6, <2>7
<1>2. IInv /\ [Next]_vars =>
         [(Matching' \subseteq Matching /\ Matching' # Matching
             /\ (~overlapped \/ (~tied /\ Mistaken = {})))
             => Cardinality(Matching') >= MaxFiles]_vars
  BY <1>1
<1>3. QED
  BY <1>2, Invariance, PTL DEF Spec, KeepsMaxFiles

\* Whatever the pattern, the file that the logger writes is deleted only by a pass that
\* found another file with the same time stamp, or an entry that is newer and not the log's.
THEOREM OpenKept == Spec => OpenFileKept
<1>1. ASSUME IInv, [Next]_vars, open # 0, open' = open, open \in Present \ Present'
      PROVE  \E t \in Threads : /\ pass[t].at = "act" /\ open \in pass[t].todo
                                /\ \E g \in DOMAIN pass[t].seen \ {open} :
                                      \/ pass[t].seen[g] = pass[t].seen[open]
                                      \/ g \notin Own /\ pass[t].seen[g] > pass[t].seen[open]
  <2>0. WatchInv /\ FileTypes /\ PassesOrdered
    BY <1>1 DEF IInv, WatchInv
  <2>1. PICK t \in Threads : Act(t)
    BY <1>1, <2>0, OtherSteps
  <2>2. PICK f \in pass[t].todo : pass[t].at = "act" /\ Present' = Present \ {f}
    BY <2>0, <2>1, ActFacts
  <2>3. f = open /\ open \in pass[t].todo /\ open \in Own
    BY <1>1, <2>2 DEF Present
  <2> DEFINE s == pass[t].seen
  <2>4. SeenOrder(pass[t]) /\ Spares(pass[t]) /\ s \in SeenType /\ pass[t].todo \subseteq DOMAIN s
    BY <2>0, <2>2, PassFacts DEF PassesOrdered
  <2>5. PICK g \in DOMAIN s \ pass[t].todo : s[open] <= s[g]
    BY <2>2, <2>3, <2>4 DEF Spares
  <2>6. g \in DOMAIN s /\ open \in DOMAIN s /\ g # open
    BY <2>3, <2>4, <2>5
  <2>7. g \in Own => g <= open /\ (g < open => s[g] <= s[open])
    BY <2>2, <2>3, <2>4, <2>6 DEF SeenOrder
  <2>8. g \in Int /\ open \in Int /\ s[g] \in Nat /\ s[open] \in Nat
    BY <2>4, <2>6, SeenFacts, EntryFacts
  <2> HIDE DEF s
  <2>9. s[g] = s[open] \/ (g \notin Own /\ s[g] > s[open])
    BY <2>5, <2>6, <2>7, <2>8
  <2>10. QED
    BY <2>2, <2>3, <2>6, <2>9 DEF s
<1>2. IInv /\ [Next]_vars =>
         [open # 0 /\ open' = open /\ open \in Present \ Present'
             => \E t \in Threads : /\ pass[t].at = "act" /\ open \in pass[t].todo
                                   /\ \E g \in DOMAIN pass[t].seen \ {open} :
                                         \/ pass[t].seen[g] = pass[t].seen[open]
                                         \/ g \notin Own /\ pass[t].seen[g] > pass[t].seen[open]]_vars
  BY <1>1
<1>3. QED
  BY <1>2, Invariance, PTL DEF Spec, OpenFileKept
=============================================================================
