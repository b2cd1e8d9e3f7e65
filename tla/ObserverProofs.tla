--------------------------- MODULE ObserverProofs ---------------------------
(***************************************************************************)
(* Proofs about Observer, for any sets of threads and sinks and any        *)
(* bounds, and about ProtectedMutex, the mutex of its observers.           *)
(***************************************************************************)
EXTENDS Observer, ProtectedMutex, FiniteSetTheorems, FunctionTheorems, TLAPS

(***************************************************************************)
(* The inductive invariant, in parts                                       *)
(***************************************************************************)
Slot == Sinks \cup {NoSink}

\* The places of x among the first n elements of q.
Places(q, n, x) == {i \in 1 .. n : q[i] = x}

\* How often a sink has got an event or will get it from the loop.
Notified(g, q, s, e) == g[s][e] + Cardinality(Places(q, Len(q), <<s, e>>))

WalkType == [slot : Nat \ {0}, event : 1 .. event, async : BOOLEAN, copy : Seq(Slot)]

TypeInv ==
    /\ kind \in {"observable", "simple", "protected"}
    /\ observers \in Seq(Slot)
    /\ walk = [t \in Threads |-> walk[t]]
    /\ \A t \in Threads : walk[t] = NoWalk \/ walk[t] \in WalkType
    /\ event \in 0 .. MaxEvents
    /\ queue \in Seq(Sinks \X (1 .. event))
    /\ due \in [Events -> [Sinks -> Nat]]
    /\ got \in [Sinks -> [Events -> Nat]]

\* Nobody has got an event that has not been notified.
NotYet == \A s \in Sinks, e \in Events : e > event => got[s][e] = 0

\* A walk under the mutex is alone, and no two walks notify one event.
WalksApart ==
    /\ kind # "protected" => \A t \in Threads : Walking(t) => guard = t
    /\ \A t, u \in Threads :
          Walking(t) /\ Walking(u) /\ walk[t].event = walk[u].event => t = u

\* A walk has notified the slots it has passed, of all those that are due.
WalksOn ==
    \A t \in Threads : Walking(t) =>
       /\ walk[t].slot <= Len(Slots(t)) + 1
       /\ \A s \in Sinks :
             /\ due[walk[t].event][s] = Cardinality(Places(Slots(t), Len(Slots(t)), s))
             /\ Notified(got, queue, s, walk[t].event) = Cardinality(Places(Slots(t), walk[t].slot - 1, s))

\* A walk that is over has notified all, or was aborted.
WalksOver ==
    \A s \in Sinks, e \in 1 .. event : ~UnderWay(e) =>
       /\ Notified(got, queue, s, e) <= due[e][s]
       /\ e \notin aborted => Notified(got, queue, s, e) = due[e][s]

IInv == TypeInv /\ NotYet /\ WalksApart /\ WalksOn /\ WalksOver


(***************************************************************************)
(* Counting the places of an element in a sequence                         *)
(***************************************************************************)

\* The places are finitely many; among no elements there is none.
LEMMA PlacesFinite ==
    ASSUME NEW q, NEW n \in Nat, NEW x
    PROVE  /\ IsFiniteSet(Places(q, n, x))
           /\ Cardinality(Places(q, n, x)) \in Nat
           /\ n = 0 => Cardinality(Places(q, n, x)) = 0
<1>1. IsFiniteSet(1 .. n) /\ Places(q, n, x) \subseteq 1 .. n
  BY FS_Interval DEF Places
<1>2. IsFiniteSet(Places(q, n, x))
  BY <1>1, FS_Subset
<1>3. n = 0 => Places(q, n, x) = {}
  BY DEF Places
<1>4. QED
  BY <1>2, <1>3, FS_CardinalityType, FS_EmptySet

\* One element more is one place more, or none.
LEMMA PlacesNext ==
    ASSUME NEW q, NEW n \in Nat, NEW x
    PROVE  Cardinality(Places(q, n + 1, x)) =
              Cardinality(Places(q, n, x)) + (IF q[n + 1] = x THEN 1 ELSE 0)
<1>1. IsFiniteSet(Places(q, n, x)) /\ Cardinality(Places(q, n, x)) \in Nat
  BY PlacesFinite
<1>2. n + 1 \notin Places(q, n, x)
  BY DEF Places
<1>3. Cardinality(Places(q, n, x) \cup {n + 1}) = Cardinality(Places(q, n, x)) + 1
  BY <1>1, <1>2, FS_AddElement
<1>4. Places(q, n + 1, x) = IF q[n + 1] = x THEN Places(q, n, x) \cup {n + 1}
                                            ELSE Places(q, n, x)
  BY DEF Places
<1>5. QED
  BY <1>1, <1>3, <1>4

\* Fewer elements have no more places.
LEMMA PlacesLess ==
    ASSUME NEW q, NEW m \in Nat, NEW n \in Nat, m <= n, NEW x
    PROVE  Cardinality(Places(q, m, x)) <= Cardinality(Places(q, n, x))
<1>1. Places(q, m, x) \subseteq Places(q, n, x)
  BY DEF Places
<1>2. IsFiniteSet(Places(q, n, x))
  BY PlacesFinite
<1>3. QED
  BY <1>1, <1>2, FS_Subset

\* Appending y adds a place of y and of nothing else.
LEMMA PlacesAppend ==
    ASSUME NEW S, NEW q \in Seq(S), NEW y \in S, NEW x
    PROVE  Cardinality(Places(Append(q, y), Len(Append(q, y)), x)) =
              Cardinality(Places(q, Len(q), x)) + (IF y = x THEN 1 ELSE 0)
<1> DEFINE r == Append(q, y)
<1>1. /\ Len(q) \in Nat /\ Len(r) = Len(q) + 1
      /\ r[Len(q) + 1] = y /\ \A i \in 1 .. Len(q) : r[i] = q[i]
  OBVIOUS
<1> HIDE DEF r
<1>2. Places(r, Len(q), x) = Places(q, Len(q), x)
  BY <1>1 DEF Places
<1>3. Cardinality(Places(r, Len(q) + 1, x)) =
         Cardinality(Places(r, Len(q), x)) + (IF r[Len(q) + 1] = x THEN 1 ELSE 0)
  BY <1>1, PlacesNext
<1>4. QED
  BY <1>1, <1>2, <1>3 DEF r

\* Taking the head away takes a place of it away and of nothing else.
LEMMA PlacesTail ==
    ASSUME NEW S, NEW q \in Seq(S), q # <<>>, NEW x
    PROVE  /\ Head(q) \in S /\ Tail(q) \in Seq(S)
           /\ Cardinality(Places(q, Len(q), x)) =
                 Cardinality(Places(Tail(q), Len(Tail(q)), x))
                    + (IF Head(q) = x THEN 1 ELSE 0)
<1> DEFINE r == Tail(q)
           P == Places(q, Len(q), x)
           R == Places(r, Len(r), x)
           f == [i \in R |-> i + 1]
<1>1. /\ r \in Seq(S) /\ Len(r) = Len(q) - 1 /\ Len(q) \in Nat \ {0} /\ Len(r) \in Nat
      /\ \A i \in 1 .. Len(r) : r[i] = q[i + 1]
      /\ Head(q) \in S /\ Head(q) = q[1]
  OBVIOUS
<1> HIDE DEF r
<1>2. \A i \in P \ {1} : i - 1 \in R /\ f[i - 1] = i
  BY <1>1 DEF Places
<1>3. f \in Bijection(R, P \ {1})
  <2>1. \A i \in R : f[i] \in P \ {1}
    BY <1>1 DEF Places
  <2>2. \A i, j \in R : f[i] = f[j] => i = j
    BY <1>1 DEF Places
  <2>3. QED
    BY <1>2, <2>1, <2>2, Fun_IsBij
<1>4. IsFiniteSet(P) /\ Cardinality(P) \in Nat /\ IsFiniteSet(R) /\ Cardinality(R) \in Nat
  BY <1>1, PlacesFinite
<1>5. Cardinality(P \ {1}) = Cardinality(R)
  <2>1. ExistsBijection(R, P \ {1})
    BY <1>3 DEF ExistsBijection
  <2> HIDE DEF P, R, f
  <2>2. QED
    BY <1>4, <2>1, FS_Bijection
<1>6. 1 \in P <=> Head(q) = x
  BY <1>1 DEF Places
<1> HIDE DEF P, R, f
<1>7. Cardinality(P \ {1}) = IF 1 \in P THEN Cardinality(P) - 1 ELSE Cardinality(P)
  BY <1>4, FS_RemoveElement
<1>8. Cardinality(P) = Cardinality(R) + (IF Head(q) = x THEN 1 ELSE 0)
  BY <1>4, <1>5, <1>6, <1>7
<1>9. QED
  BY <1>1, <1>8 DEF r, P, R

\* What is not an element has no place.
LEMMA PlacesNone ==
    ASSUME NEW S, NEW q \in Seq(S), NEW x, x \notin S
    PROVE  Cardinality(Places(q, Len(q), x)) = 0
<1>1. Places(q, Len(q), x) = {}
  BY DEF Places
<1>2. QED
  BY <1>1, FS_EmptySet

(***************************************************************************)
(* The steps of the model preserve the invariant                           *)
(***************************************************************************)

\* What a walk is, and that it notifies one of the events begun.
LEMMA WalkFacts ==
    ASSUME TypeInv, NEW t \in Threads, Walking(t)
    PROVE  /\ walk[t] \in WalkType
           /\ walk[t].slot \in Nat \ {0} /\ walk[t].event \in 1 .. event
           /\ walk[t].async \in BOOLEAN /\ walk[t].copy \in Seq(Slot)
           /\ 1 .. event \subseteq Events
           /\ Slots(t) \in Seq(Slot) /\ Len(Slots(t)) \in Nat
<1>1. walk[t] \in WalkType
  BY DEF TypeInv, Walking, NoWalk
<1>2. /\ walk[t].slot \in Nat \ {0} /\ walk[t].event \in 1 .. event
      /\ walk[t].async \in BOOLEAN /\ walk[t].copy \in Seq(Slot)
  BY <1>1 DEF WalkType
<1>3. 1 .. event \subseteq Events
  BY ObserverAssumption DEF TypeInv, Events
<1>4. Slots(t) \in Seq(Slot)
  BY <1>2 DEF Slots, TypeInv
<1>5. QED
  BY <1>1, <1>2, <1>3, <1>4

\* What has been notified is a number.
LEMMA NotifiedType ==
    ASSUME TypeInv, NEW s \in Sinks, NEW e \in Events
    PROVE  /\ got[s][e] \in Nat /\ Notified(got, queue, s, e) \in Nat /\ Len(queue) \in Nat
           /\ Cardinality(Places(queue, Len(queue), <<s, e>>)) \in Nat
<1>1. got[s][e] \in Nat /\ Len(queue) \in Nat
  BY DEF TypeInv
<1>2. Cardinality(Places(queue, Len(queue), <<s, e>>)) \in Nat
  BY <1>1, PlacesFinite
<1>3. QED
  BY <1>1, <1>2 DEF Notified

\* Observables are constructed without observers.
LEMMA InitIInv == Init => IInv
<1> SUFFICES ASSUME Init PROVE IInv
  OBVIOUS
<1>1. \A t \in Threads : ~Walking(t)
  BY DEF Init, Walking, NoWalk
<1>2. TypeInv
  BY ObserverAssumption DEF Init, TypeInv, Events
<1>3. QED
  BY <1>1, <1>2 DEF Init, IInv, NotYet, WalksApart, WalksOn, WalksOver

\* Subscribing and unsubscribing, when nobody has the mutex: a walk under the
\* mutex there is none, the others have their copy.
LEMMA ObserversStep ==
    ASSUME IInv, guard = NoThread, observers' \in Seq(Slot),
           UNCHANGED <<kind, guard, walk, event, queue, due, aborted, got>>
    PROVE  IInv'
<1>1. \A t \in Threads : Walking(t) => kind = "protected"
  BY ObserverAssumption DEF IInv, WalksApart
<1>2. \A t \in Threads : /\ Walking(t)' <=> Walking(t)
                         /\ Walking(t) => Slots(t)' = Slots(t)
  BY <1>1 DEF Walking, Slots
<1>3. \A s, e : Notified(got', queue', s, e) = Notified(got, queue, s, e)
  BY DEF Notified
<1>4. TypeInv'
  BY DEF IInv, TypeInv, WalkType
<1>5. NotYet' /\ WalksApart'
  BY <1>2 DEF IInv, NotYet, WalksApart
<1>6. WalksOn'
  BY <1>2, <1>3 DEF IInv, WalksOn
<1>7. WalksOver'
  BY <1>2, <1>3 DEF IInv, WalksOver, UnderWay
<1>8. QED
  BY <1>4, <1>5, <1>6, <1>7 DEF IInv

\* The next slot: its sink has been notified once more, of the event of this walk,
\* and nothing else has.
LEMMA SlotStep ==
    ASSUME IInv, NEW t \in Threads, AtSlot(t), NextSlot(t),
           UNCHANGED <<kind, observers, guard, event, due, aborted>>,
           queue' \in Seq(Sinks \X (1 .. event)), got' \in [Sinks -> [Events -> Nat]],
           NotYet',
           \A s \in Sinks, e \in 1 .. event : Notified(got', queue', s, e) =
              Notified(got, queue, s, e) + (IF s = Sink(t) /\ e = walk[t].event THEN 1 ELSE 0)
    PROVE  IInv'
<1>0. /\ Walking(t) /\ walk[t].slot \in DOMAIN Slots(t) /\ TypeInv
      /\ walk[t].slot \in 1 .. Len(Slots(t))
  <2>1. Walking(t) /\ walk[t].slot \in DOMAIN Slots(t) /\ TypeInv
    BY DEF AtSlot, IInv
  <2>2. QED
    BY <2>1, WalkFacts
<1>1. /\ walk' = [u \in Threads |-> walk'[u]]
      /\ \A u \in Threads \ {t} : walk'[u] = walk[u]
      /\ walk'[t] = [walk[t] EXCEPT !.slot = @ + 1]
  BY <1>0 DEF NextSlot, TypeInv
<1>2. /\ walk'[t] \in WalkType /\ walk'[t].slot = walk[t].slot + 1
      /\ walk'[t].event = walk[t].event /\ walk'[t].copy = walk[t].copy
  <2>1. walk[t] \in [slot : Nat \ {0}, event : 1 .. event, async : BOOLEAN, copy : Seq(Slot)]
    BY <1>0, WalkFacts DEF WalkType
  <2>2. PICK w \in [slot : Nat \ {0}, event : 1 .. event, async : BOOLEAN, copy : Seq(Slot)] :
           w = walk[t]
    BY <2>1
  <2>3. w.slot + 1 \in Nat \ {0} /\ walk'[t] = [w EXCEPT !.slot = w.slot + 1]
    BY <1>1, <2>2
  <2>4. QED
    BY <2>2, <2>3 DEF WalkType
<1>3. \A u \in Threads : /\ Walking(u)' <=> Walking(u)
                         /\ Walking(u) => walk'[u].event = walk[u].event
                         /\ Walking(u) => Slots(u)' = Slots(u)
  <2>1. \A u \in Threads \ {t} : (Walking(u)' <=> Walking(u)) /\ Slots(u)' = Slots(u)
    BY <1>1 DEF Walking, Slots
  <2>2. Walking(t)' /\ Slots(t)' = Slots(t)
    BY <1>0, <1>2, WalkFacts DEF Walking, Slots
  <2>3. QED
    BY <1>0, <1>1, <1>2, <2>1, <2>2
<1>4. TypeInv'
  <2>1. WalkType' = WalkType
    BY DEF WalkType
  <2>2. \A u \in Threads : walk'[u] = NoWalk \/ walk'[u] \in WalkType'
    BY <1>0, <1>1, <1>2, <2>1 DEF TypeInv
  <2>3. QED
    BY <1>0, <1>1, <2>2 DEF TypeInv
<1>5. WalksApart'
  BY <1>3 DEF IInv, WalksApart
<1>6. ASSUME NEW u \in Threads, Walking(u), NEW s \in Sinks
      PROVE  /\ walk'[u].slot <= Len(Slots(u)) + 1
             /\ due[walk[u].event][s] = Cardinality(Places(Slots(u), Len(Slots(u)), s))
             /\ Notified(got', queue', s, walk[u].event) = Cardinality(Places(Slots(u), walk'[u].slot - 1, s))
  <2>1. /\ walk[u].slot <= Len(Slots(u)) + 1
        /\ due[walk[u].event][s] = Cardinality(Places(Slots(u), Len(Slots(u)), s))
        /\ Notified(got, queue, s, walk[u].event) = Cardinality(Places(Slots(u), walk[u].slot - 1, s))
    BY <1>6 DEF IInv, WalksOn
  <2>2. walk[u].event \in 1 .. event /\ walk[u].event \in Events /\ walk[u].slot \in Nat \ {0}
    BY <1>0, <1>6, WalkFacts
  <2>3. Notified(got, queue, s, walk[u].event) \in Nat
    BY <1>0, <2>2, NotifiedType
  <2>4. CASE u # t
    <3>1. walk[u].event # walk[t].event
      BY <1>0, <1>6, <2>4 DEF IInv, WalksApart
    <3>2. Notified(got', queue', s, walk[u].event) = Notified(got, queue, s, walk[u].event)
      BY <2>2, <2>3, <3>1
    <3>3. QED
      BY <1>1, <2>1, <2>4, <3>2
  <2>5. CASE u = t
    <3> DEFINE n == walk[t].slot - 1
    <3>1. n \in Nat /\ n + 1 = walk[t].slot /\ walk'[t].slot - 1 = n + 1
      BY <1>2, <2>2, <2>5
    <3>2. Cardinality(Places(Slots(t), n + 1, s)) =
             Cardinality(Places(Slots(t), n, s)) + (IF Slots(t)[n + 1] = s THEN 1 ELSE 0)
      BY <3>1, PlacesNext
    <3>3. Slots(t)[n + 1] = Sink(t)
      BY <3>1 DEF Sink
    <3>4. Notified(got', queue', s, walk[t].event) = Notified(got, queue, s, walk[t].event) + (IF s = Sink(t) THEN 1 ELSE 0)
      BY <2>2, <2>5
    <3>5. Notified(got', queue', s, walk[t].event) = Cardinality(Places(Slots(t), walk'[t].slot - 1, s))
      BY <2>1, <2>5, <3>1, <3>2, <3>3, <3>4
    <3>6. walk'[t].slot <= Len(Slots(t)) + 1
      BY <1>0, <1>2, WalkFacts
    <3>7. QED
      BY <2>1, <2>5, <3>5, <3>6
  <2>6. QED
    BY <2>4, <2>5
<1>7. WalksOn'
  <2> SUFFICES ASSUME NEW u \in Threads, Walking(u)'
               PROVE  /\ walk'[u].slot <= Len(Slots(u)') + 1
                      /\ \A s \in Sinks :
                            /\ due'[walk'[u].event][s] = Cardinality(Places(Slots(u)', Len(Slots(u)'), s))
                            /\ Notified(got', queue', s, walk'[u].event) =
                                  Cardinality(Places(Slots(u)', walk'[u].slot - 1, s))
    BY DEF WalksOn
  <2>1. Walking(u) /\ walk'[u].event = walk[u].event /\ Slots(u)' = Slots(u)
    BY <1>3
  <2>2. walk'[u].slot <= Len(Slots(u)) + 1
    <3>1. CASE u = t
      BY <1>0, <1>2, <3>1, WalkFacts
    <3>2. CASE u # t
      BY <1>1, <2>1, <3>2 DEF IInv, WalksOn
    <3>3. QED
      BY <3>1, <3>2
  <2>3. \A s \in Sinks : Notified(got', queue', s, walk'[u].event) = Notified(got', queue', s, walk[u].event)
    BY <2>1 DEF Notified
  <2>4. QED
    BY <1>6, <2>1, <2>2, <2>3
<1>8. WalksOver'
  <2> SUFFICES ASSUME NEW s \in Sinks, NEW e \in 1 .. event', ~UnderWay(e)'
               PROVE  /\ Notified(got', queue', s, e) <= due'[e][s]
                      /\ e \notin aborted' => Notified(got', queue', s, e) = due'[e][s]
    BY DEF WalksOver
  <2>1. ~UnderWay(e) /\ e # walk[t].event
    BY <1>0, <1>3 DEF UnderWay
  <2>2. e \in Events /\ e \in 1 .. event
    BY <1>0, WalkFacts
  <2>3. Notified(got', queue', s, e) = Notified(got, queue, s, e)
    <3>1. Notified(got, queue, s, e) \in Nat
      BY <1>0, <2>2, NotifiedType
    <3>2. Notified(got', queue', s, e) = Notified(got, queue, s, e) + 0
      BY <2>1, <2>2
    <3>3. QED
      BY <3>1, <3>2
  <2>4. QED
    BY <2>1, <2>2, <2>3 DEF IInv, WalksOver
<1>9. QED
  BY <1>4, <1>5, <1>7, <1>8 DEF IInv

\* The end of a walk, after the last slot or because a sink threw.
LEMMA LeaveStep ==
    ASSUME IInv, NEW t \in Threads, Walking(t), Leave(t),
           UNCHANGED <<kind, observers, event, queue, due, got>>,
           \/ aborted' = aborted \cup {walk[t].event}
           \/ aborted' = aborted /\ ~AtSlot(t)
    PROVE  IInv'
<1>0. TypeInv
  BY DEF IInv
<1>1. /\ walk' = [u \in Threads |-> walk'[u]]
      /\ \A u \in Threads \ {t} : walk'[u] = walk[u]
      /\ walk'[t] = NoWalk
  BY <1>0 DEF Leave, TypeInv
<1>2. /\ ~Walking(t)'
      /\ \A u \in Threads \ {t} : (Walking(u)' <=> Walking(u)) /\ Slots(u)' = Slots(u)
  BY <1>1 DEF Walking, Slots, NoWalk
<1>3. \A u \in Threads : Walking(u)' => u # t /\ Walking(u)
  BY <1>2
<1>4. TypeInv'
  <2>1. WalkType' = WalkType
    BY DEF WalkType
  <2>2. \A u \in Threads : walk'[u] = NoWalk \/ walk'[u] \in WalkType'
    BY <1>0, <1>1, <2>1 DEF TypeInv
  <2>3. QED
    BY <1>0, <1>1, <2>2 DEF TypeInv
<1>5. NotYet'
  BY DEF IInv, NotYet
<1>6. WalksApart'
  BY <1>1, <1>3 DEF IInv, WalksApart, Leave
<1>7. WalksOn'
  BY <1>1, <1>2, <1>3 DEF IInv, WalksOn
<1>8. WalksOver'
  <2> SUFFICES ASSUME NEW s \in Sinks, NEW e \in 1 .. event, ~UnderWay(e)'
               PROVE  /\ Notified(got, queue, s, e) <= due[e][s]
                      /\ e \notin aborted' => Notified(got, queue, s, e) = due[e][s]
    BY DEF WalksOver
  <2>1. CASE e = walk[t].event
    <3> DEFINE n == Len(Slots(t))
    <3>1. /\ due[e][s] = Cardinality(Places(Slots(t), n, s))
          /\ Notified(got, queue, s, e) = Cardinality(Places(Slots(t), walk[t].slot - 1, s))
          /\ walk[t].slot <= n + 1
      BY <2>1 DEF IInv, WalksOn
    <3>2. /\ n \in Nat /\ walk[t].slot \in Nat \ {0} /\ walk[t].slot - 1 \in Nat
          /\ Slots(t) \in Seq(Slot)
      BY <1>0, WalkFacts
    <3>3. walk[t].slot - 1 <= n
      BY <3>1, <3>2
    <3>4. Cardinality(Places(Slots(t), walk[t].slot - 1, s)) <= Cardinality(Places(Slots(t), n, s))
      BY <3>2, <3>3, PlacesLess
    <3>5. e \notin aborted' => walk[t].slot - 1 = n
      <4>1. e \notin aborted' => ~AtSlot(t)
        BY <2>1
      <4>2. ~AtSlot(t) => walk[t].slot \notin 1 .. n
        BY <3>2 DEF AtSlot
      <4>3. QED
        BY <3>2, <3>3, <4>1, <4>2
    <3>6. QED
      BY <3>1, <3>4, <3>5
  <2>2. CASE e # walk[t].event
    <3>1. ~UnderWay(e)
      BY <1>1, <1>2, <2>2 DEF UnderWay
    <3>2. e \notin aborted' => e \notin aborted
      BY <2>2
    <3>3. QED
      BY <3>1, <3>2 DEF IInv, WalksOver
  <2>3. QED
    BY <2>1, <2>2
<1>9. QED
  BY <1>4, <1>5, <1>6, <1>7, <1>8 DEF IInv

\* The begin of a walk: what is due is what is subscribed, and nobody has got the
\* new event.
LEMMA NotifyStep ==
    ASSUME IInv, NEW t \in Threads, NEW async \in BOOLEAN, NEW slots,
           slots = (IF kind = "protected" THEN observers ELSE <<>>),
           Notify(t, async, slots),
           kind # "protected" => guard' = t
    PROVE  IInv'
<1> DEFINE w == [slot |-> 1, event |-> event + 1, async |-> async, copy |-> slots]
<1>0. /\ TypeInv /\ guard = NoThread /\ ~Walking(t)
      /\ event' = event + 1 /\ event + 1 \in Events /\ event \in Nat
      /\ UNCHANGED <<kind, observers, queue, aborted, got>>
  BY ObserverAssumption DEF IInv, Notify, Events, TypeInv
<1>1. /\ walk' = [u \in Threads |-> walk'[u]]
      /\ \A u \in Threads \ {t} : walk'[u] = walk[u]
      /\ walk'[t] = w
  BY <1>0 DEF Notify, TypeInv
<1>2. w.slot = 1 /\ w.event = event + 1 /\ w.copy = slots
  OBVIOUS
<1>3. w \in WalkType'
  <2>1. slots \in Seq(Slot)
    BY <1>0 DEF TypeInv
  <2>2. QED
    BY <1>0, <2>1 DEF WalkType
<1> HIDE DEF w
<1>4. \A u \in Threads \ {t} : (Walking(u)' <=> Walking(u)) /\ Slots(u)' = Slots(u)
  BY <1>0, <1>1 DEF Walking, Slots
<1>5. Walking(t)' /\ Slots(t)' = observers
  BY <1>0, <1>1, <1>2 DEF Walking, Slots
<1>6. \A u \in Threads \ {t} : Walking(u) =>
         /\ kind = "protected"
         /\ walk[u].event \in 1 .. event
         /\ walk[u].event # event + 1
  BY <1>0, ObserverAssumption, WalkFacts DEF IInv, WalksApart
<1>7. /\ due' \in [Events -> [Sinks -> Nat]]
      /\ \A e \in 1 .. event : due'[e] = due[e]
      /\ \A s \in Sinks : due'[event + 1][s] =
            Cardinality(Places(observers, Len(observers), s))
  <2>1. DOMAIN observers = 1 .. Len(observers) /\ Len(observers) \in Nat
    BY <1>0 DEF TypeInv
  <2>2. \A s \in Sinks : {i \in DOMAIN observers : observers[i] = s} = Places(observers, Len(observers), s)
    BY <2>1 DEF Places
  <2>3. \A s \in Sinks : Cardinality(Places(observers, Len(observers), s)) \in Nat
    BY <2>1, PlacesFinite
  <2> DEFINE d == [s \in Sinks |-> Cardinality({i \in DOMAIN observers : observers[i] = s})]
  <2>4. d \in [Sinks -> Nat] /\ \A s \in Sinks : d[s] = Cardinality(Places(observers, Len(observers), s))
    BY <2>2, <2>3
  <2>5. due' = [due EXCEPT ![event + 1] = d]
    BY <1>0 DEF Notify
  <2> HIDE DEF d
  <2>6. QED
    BY <1>0, <2>4, <2>5 DEF TypeInv, Events
<1>8. TypeInv'
  <2>1. WalkType \subseteq WalkType'
    BY <1>0 DEF WalkType
  <2>2. \A u \in Threads : walk'[u] = NoWalk \/ walk'[u] \in WalkType'
    BY <1>0, <1>1, <1>3, <2>1 DEF TypeInv
  <2>3. queue' \in Seq(Sinks \X (1 .. event'))
    <3>1. queue \in Seq(Sinks \X (1 .. event)) /\ 1 .. event \subseteq 1 .. event'
      BY <1>0 DEF TypeInv
    <3>2. Sinks \X (1 .. event) \subseteq Sinks \X (1 .. event')
      BY <3>1
    <3>3. QED
      BY <1>0, <3>1, <3>2
  <2>4. event' \in 0 .. MaxEvents
    BY <1>0 DEF Events
  <2>5. QED
    BY <1>0, <1>1, <1>7, <2>2, <2>3, <2>4 DEF TypeInv
<1>9. NotYet'
  BY <1>0 DEF IInv, NotYet, Events
<1>10. WalksApart'
  <2>1. kind' # "protected" => \A u \in Threads : Walking(u)' => guard' = u
    BY <1>0, <1>4, <1>6
  <2>2. \A u \in Threads \ {t} : Walking(u)' => walk'[u].event # walk'[t].event
    BY <1>1, <1>2, <1>4, <1>6
  <2>3. \A u, v \in Threads \ {t} :
           Walking(u)' /\ Walking(v)' /\ walk'[u].event = walk'[v].event => u = v
    BY <1>1, <1>4 DEF IInv, WalksApart
  <2>4. QED
    BY <2>1, <2>2, <2>3 DEF WalksApart
<1>11. \A s \in Sinks : Notified(got, queue, s, event + 1) = 0
  <2> SUFFICES ASSUME NEW s \in Sinks PROVE Notified(got, queue, s, event + 1) = 0
    OBVIOUS
  <2>1. got[s][event + 1] = 0
    BY <1>0 DEF IInv, NotYet
  <2>2. queue \in Seq(Sinks \X (1 .. event)) /\ <<s, event + 1>> \notin Sinks \X (1 .. event)
    BY <1>0 DEF TypeInv
  <2>3. Cardinality(Places(queue, Len(queue), <<s, event + 1>>)) = 0
    BY <2>2, PlacesNone
  <2>4. QED
    BY <2>1, <2>3 DEF Notified
<1>12. WalksOn'
  <2> SUFFICES ASSUME NEW u \in Threads, Walking(u)'
               PROVE  /\ walk'[u].slot <= Len(Slots(u)') + 1
                      /\ \A s \in Sinks :
                            /\ due'[walk'[u].event][s] = Cardinality(Places(Slots(u)', Len(Slots(u)'), s))
                            /\ Notified(got', queue', s, walk'[u].event) =
                                  Cardinality(Places(Slots(u)', walk'[u].slot - 1, s))
    BY DEF WalksOn
  <2>1. CASE u = t
    <3>1. Len(observers) \in Nat /\ walk'[t].slot = 1 /\ walk'[t].event = event + 1
      BY <1>0, <1>1, <1>2 DEF TypeInv
    <3>2. \A s \in Sinks : Cardinality(Places(observers, 0, s)) = 0
      BY PlacesFinite
    <3>3. QED
      BY <1>0, <1>5, <1>7, <1>11, <2>1, <3>1, <3>2
  <2>2. CASE u # t
    <3>1. Walking(u) /\ walk'[u] = walk[u] /\ Slots(u)' = Slots(u) /\ walk[u].event \in 1 .. event
      BY <1>1, <1>4, <1>6, <2>2
    <3>2. QED
      BY <1>0, <1>7, <3>1 DEF IInv, WalksOn
  <2>3. QED
    BY <2>1, <2>2
<1>13. WalksOver'
  <2> SUFFICES ASSUME NEW s \in Sinks, NEW e \in 1 .. event', ~UnderWay(e)'
               PROVE  /\ Notified(got', queue', s, e) <= due'[e][s]
                      /\ e \notin aborted' => Notified(got', queue', s, e) = due'[e][s]
    BY DEF WalksOver
  <2>1. e # event + 1
    BY <1>1, <1>2, <1>5 DEF UnderWay
  <2>2. e \in 1 .. event
    BY <1>0, <2>1
  <2>3. ~UnderWay(e)
    BY <1>0, <1>1, <1>4 DEF UnderWay
  <2>4. QED
    BY <1>0, <1>7, <2>2, <2>3 DEF IInv, WalksOver
<1>14. QED
  BY <1>8, <1>9, <1>10, <1>12, <1>13 DEF IInv

\* A sink that is called has got the event once more.
LEMMA CallSinkGot ==
    ASSUME TypeInv, NEW s \in Sinks, NEW e \in 1 .. event, CallSink(s, e)
    PROVE  /\ got' \in [Sinks -> [Events -> Nat]]
           /\ \A x \in Sinks, f \in Events :
                 got'[x][f] = got[x][f] + (IF x = s /\ f = e THEN 1 ELSE 0)
<1>1. e \in Events /\ got \in [Sinks -> [Events -> Nat]]
  BY ObserverAssumption DEF TypeInv, Events
<1>2. got' = [got EXCEPT ![s] = [got[s] EXCEPT ![e] = got[s][e] + 1]]
  BY <1>1 DEF CallSink
<1>3. [got[s] EXCEPT ![e] = got[s][e] + 1] \in [Events -> Nat]
  BY <1>1
<1>4. QED
  BY <1>1, <1>2, <1>3

\* An empty slot is passed, a call is posted, a sink is called: the three ways to
\* the next slot.
LEMMA SlotActions ==
    ASSUME IInv, NEW t \in Threads, SkipSlot(t) \/ PostSlot(t) \/ CallSlot(t)
    PROVE  IInv'
<1>0. AtSlot(t) /\ NextSlot(t) /\ UNCHANGED <<kind, observers, guard, event, due, aborted>>
  BY DEF SkipSlot, PostSlot, CallSlot
<1>1. TypeInv /\ Walking(t) /\ NotYet
  BY <1>0 DEF AtSlot, IInv
<1>2. /\ Sink(t) \in Slot /\ walk[t].event \in 1 .. event /\ 1 .. event \subseteq Events
      /\ queue \in Seq(Sinks \X (1 .. event)) /\ got \in [Sinks -> [Events -> Nat]]
      /\ event \in Nat
  <2>1. Slots(t) \in Seq(Slot) /\ walk[t].slot \in DOMAIN Slots(t)
    BY <1>0, <1>1, WalkFacts DEF AtSlot
  <2>2. Sink(t) \in Slot
    BY <2>1 DEF Sink
  <2>3. QED
    BY <1>1, <2>2, WalkFacts DEF TypeInv
<1>3. \A s \in Sinks, e \in 1 .. event :
         /\ got[s][e] \in Nat /\ Notified(got, queue, s, e) \in Nat
         /\ Cardinality(Places(queue, Len(queue), <<s, e>>)) \in Nat
  BY <1>1, <1>2, NotifiedType
<1>4. CASE SkipSlot(t)
  <2>1. Sink(t) \notin Sinks /\ UNCHANGED <<queue, got>>
    BY <1>4, ObserverAssumption DEF SkipSlot
  <2>2. ASSUME NEW s \in Sinks, NEW e \in 1 .. event
        PROVE  Notified(got', queue', s, e) =
                  Notified(got, queue, s, e) + (IF s = Sink(t) /\ e = walk[t].event THEN 1 ELSE 0)
    <3>1. s # Sink(t) /\ Notified(got, queue, s, e) \in Nat
      BY <1>3, <2>1
    <3>2. Notified(got', queue', s, e) = Notified(got, queue, s, e)
      BY <2>1
    <3>3. QED
      BY <3>1, <3>2
  <2>3. NotYet'
    BY <1>0, <1>1, <2>1 DEF NotYet
  <2>4. QED
    BY <1>0, <1>2, <2>1, <2>2, <2>3, SlotStep
<1>5. CASE PostSlot(t)
  <2> DEFINE c == <<Sink(t), walk[t].event>>
  <2>1. /\ c \in Sinks \X (1 .. event)
        /\ queue' = Append(queue, c) /\ got' = got
    BY <1>2, <1>5, ObserverAssumption DEF PostSlot, Posts
  <2>2. queue' \in Seq(Sinks \X (1 .. event))
    BY <1>2, <2>1
  <2>3. ASSUME NEW s \in Sinks, NEW e \in 1 .. event
        PROVE  Notified(got', queue', s, e) =
                  Notified(got, queue, s, e) + (IF s = Sink(t) /\ e = walk[t].event THEN 1 ELSE 0)
    <3>1. c = <<s, e>> <=> s = Sink(t) /\ e = walk[t].event
      OBVIOUS
    <3> HIDE DEF c
    <3>2. Cardinality(Places(queue', Len(queue'), <<s, e>>)) =
             Cardinality(Places(queue, Len(queue), <<s, e>>)) + (IF c = <<s, e>> THEN 1 ELSE 0)
      <4> DEFINE S == Sinks \X (1 .. event)
      <4>1. queue \in Seq(S) /\ c \in S
        BY <1>2, <2>1
      <4> HIDE DEF S
      <4>2. QED
        BY <2>1, <4>1, PlacesAppend
    <3> DEFINE p == Cardinality(Places(queue, Len(queue), <<s, e>>))
               r == Cardinality(Places(queue', Len(queue'), <<s, e>>))
    <3>3. got[s][e] \in Nat /\ p \in Nat
      BY <1>3
    <3>4. Notified(got', queue', s, e) = got[s][e] + r /\ Notified(got, queue, s, e) = got[s][e] + p
      BY <2>1 DEF Notified
    <3> HIDE DEF p, r
    <3>5. r = p + (IF s = Sink(t) /\ e = walk[t].event THEN 1 ELSE 0)
      BY <3>1, <3>2 DEF p, r
    <3>6. QED
      BY <3>3, <3>4, <3>5
  <2>4. NotYet'
    BY <1>0, <1>1, <2>1 DEF NotYet
  <2>5. QED
    BY <1>0, <1>2, <2>1, <2>2, <2>3, <2>4, SlotStep
<1>6. CASE CallSlot(t)
  <2>1. Sink(t) \in Sinks /\ CallSink(Sink(t), walk[t].event) /\ queue' = queue
    BY <1>2, <1>6 DEF CallSlot, Slot
  <2>2. /\ got' \in [Sinks -> [Events -> Nat]]
        /\ \A x \in Sinks, f \in Events :
              got'[x][f] = got[x][f] + (IF x = Sink(t) /\ f = walk[t].event THEN 1 ELSE 0)
    BY <1>1, <1>2, <2>1, CallSinkGot
  <2>3. ASSUME NEW s \in Sinks, NEW e \in 1 .. event
        PROVE  Notified(got', queue', s, e) =
                  Notified(got, queue, s, e) + (IF s = Sink(t) /\ e = walk[t].event THEN 1 ELSE 0)
    <3>1. got'[s][e] = got[s][e] + (IF s = Sink(t) /\ e = walk[t].event THEN 1 ELSE 0)
      BY <1>2, <2>2
    <3>2. /\ got[s][e] \in Nat
          /\ Cardinality(Places(queue, Len(queue), <<s, e>>)) \in Nat
      BY <1>3
    <3>3. QED
      BY <2>1, <3>1, <3>2 DEF Notified
  <2>4. NotYet'
    <3> SUFFICES ASSUME NEW s \in Sinks, NEW e \in Events, e > event PROVE got'[s][e] = 0
      BY <1>0 DEF NotYet
    <3>1. e # walk[t].event
      BY <1>2 DEF Events
    <3>2. got[s][e] = 0
      BY <1>1 DEF NotYet
    <3>3. QED
      BY <2>2, <3>1, <3>2
  <2>5. QED
    BY <1>0, <1>2, <2>1, <2>2, <2>3, <2>4, SlotStep
<1>7. QED
  BY <1>4, <1>5, <1>6

\* A posted call that the loop executes stays one notification.
LEMMA LoopRunsIInv == IInv /\ LoopRuns => IInv'
<1> SUFFICES ASSUME IInv, LoopRuns PROVE IInv'
  OBVIOUS
<1> DEFINE c == Head(queue)
           S == Sinks \X (1 .. event)
<1>0. /\ TypeInv /\ NotYet /\ queue # <<>> /\ queue \in Seq(S)
      /\ UNCHANGED <<kind, observers, guard, walk, event, due, aborted>>
      /\ queue' = Tail(queue) /\ CallSink(c[1], c[2])
      /\ 1 .. event \subseteq Events /\ event \in Nat
  BY ObserverAssumption DEF IInv, LoopRuns, TypeInv, Events
<1>1. c \in S /\ queue' \in Seq(S)
  <2> HIDE DEF c, S
  <2>1. QED
    BY <1>0, PlacesTail DEF c
<1>2. c[1] \in Sinks /\ c[2] \in 1 .. event /\ c = <<c[1], c[2]>>
  <2> HIDE DEF c
  <2>1. QED
    BY <1>1
<1>3. /\ got' \in [Sinks -> [Events -> Nat]]
      /\ \A x \in Sinks, f \in Events :
            got'[x][f] = got[x][f] + (IF x = c[1] /\ f = c[2] THEN 1 ELSE 0)
  <2> HIDE DEF c
  <2>1. QED
    BY <1>0, <1>2, CallSinkGot
<1>4. ASSUME NEW s \in Sinks, NEW e \in 1 .. event
      PROVE  Notified(got', queue', s, e) = Notified(got, queue, s, e)
  <2>1. Cardinality(Places(queue, Len(queue), <<s, e>>)) =
           Cardinality(Places(queue', Len(queue'), <<s, e>>)) + (IF c = <<s, e>> THEN 1 ELSE 0)
    <3> HIDE DEF S
    <3>1. QED
      BY <1>0, PlacesTail
  <2> HIDE DEF c
  <2>2. c = <<s, e>> <=> s = c[1] /\ e = c[2]
    BY <1>2
  <2>3. got'[s][e] = got[s][e] + (IF c = <<s, e>> THEN 1 ELSE 0)
    BY <1>0, <1>3, <2>2
  <2>4. got[s][e] \in Nat
    BY <1>0, NotifiedType
  <2>5. Cardinality(Places(queue', Len(queue'), <<s, e>>)) \in Nat
    <3>1. Len(queue') \in Nat
      BY <1>1
    <3>2. QED
      BY <3>1, PlacesFinite
  <2>6. QED
    BY <2>1, <2>3, <2>4, <2>5 DEF Notified
<1> HIDE DEF c
<1>5. \A t \in Threads : (Walking(t)' <=> Walking(t)) /\ Slots(t)' = Slots(t)
  BY <1>0 DEF Walking, Slots
<1>6. TypeInv'
  BY <1>0, <1>1, <1>3 DEF TypeInv, WalkType
<1>7. NotYet'
  <2> SUFFICES ASSUME NEW s \in Sinks, NEW e \in Events, e > event PROVE got'[s][e] = 0
    BY <1>0 DEF NotYet
  <2>1. e # c[2] /\ got[s][e] = 0
    BY <1>0, <1>2 DEF NotYet, Events
  <2>2. QED
    BY <1>3, <2>1
<1>8. WalksApart'
  BY <1>0, <1>5 DEF IInv, WalksApart
<1>9. WalksOn'
  <2> SUFFICES ASSUME NEW u \in Threads, Walking(u)
               PROVE  /\ walk[u].slot <= Len(Slots(u)) + 1
                      /\ \A s \in Sinks :
                            /\ due[walk[u].event][s] = Cardinality(Places(Slots(u), Len(Slots(u)), s))
                            /\ Notified(got', queue', s, walk[u].event) =
                                  Cardinality(Places(Slots(u), walk[u].slot - 1, s))
    BY <1>0, <1>5 DEF WalksOn
  <2>1. \A s \in Sinks : Notified(got', queue', s, walk[u].event) = Notified(got, queue, s, walk[u].event)
    BY <1>0, <1>4, WalkFacts
  <2>2. QED
    BY <2>1 DEF IInv, WalksOn
<1>10. WalksOver'
  BY <1>0, <1>4, <1>5 DEF IInv, WalksOver, UnderWay
<1>11. QED
  BY <1>6, <1>7, <1>8, <1>9, <1>10 DEF IInv

\* Every operation preserves the invariant.
LEMMA NextIInv == IInv /\ [Next]_vars => IInv'
<1> SUFFICES ASSUME IInv, [Next]_vars PROVE IInv'
  OBVIOUS
<1>1. CASE UNCHANGED vars
  <2>1. UNCHANGED <<kind, observers, guard, walk, event, queue, due, aborted, got>>
    BY <1>1 DEF vars
  <2>2. /\ \A t \in Threads : (Walking(t)' <=> Walking(t)) /\ Slots(t)' = Slots(t)
        /\ \A e : UnderWay(e)' <=> UnderWay(e)
    BY <2>1 DEF Walking, Slots, UnderWay
  <2>3. TypeInv' /\ NotYet' /\ WalksApart'
    BY <2>1, <2>2 DEF IInv, TypeInv, WalkType, NotYet, WalksApart
  <2>4. WalksOn' /\ WalksOver'
    BY <2>1, <2>2 DEF IInv, WalksOn, WalksOver
  <2>5. QED
    BY <2>3, <2>4 DEF IInv
<1>2. ASSUME NEW s \in Sinks, Subscribe(s) \/ Unsubscribe(s) \/ SubscribeAgain(s) PROVE IInv'
  <2>1. guard = NoThread /\ UNCHANGED <<kind, guard, walk, event, queue, due, aborted, got>>
    BY <1>2 DEF Subscribe, Unsubscribe, SubscribeAgain
  <2>2. observers \in Seq(Slot)
    BY DEF IInv, TypeInv
  <2>3. observers' \in Seq(Slot)
    <3>1. CASE Subscribe(s) \/ SubscribeAgain(s)
      BY <2>2, <3>1 DEF Subscribe, SubscribeAgain, Slot
    <3>2. CASE Unsubscribe(s)
      <4>1. observers' = [i \in 1 .. Len(observers) |->
                             IF observers[i] = s THEN NoSink ELSE observers[i]]
        BY <2>2, <3>2 DEF Unsubscribe
      <4>2. observers' \in [1 .. Len(observers) -> Slot] /\ Len(observers) \in Nat
        BY <2>2, <4>1 DEF Slot
      <4>3. QED
        BY <4>2
    <3>3. QED
      BY <1>2, <3>1, <3>2
  <2>4. QED
    BY <2>1, <2>3, ObserversStep
<1>3. ASSUME NEW t \in Threads, NotifyBegin(t) PROVE IInv'
  <2>1. PICK async \in {TRUE, kind = "observable"} : Notify(t, async, <<>>)
    BY <1>3 DEF NotifyBegin
  <2>2. async \in BOOLEAN
    BY <2>1, Zenon
  <2>3. kind # "protected" /\ guard' = t
    BY <1>3 DEF NotifyBegin
  <2>4. QED
    BY <2>1, <2>2, <2>3, NotifyStep
<1>4. ASSUME NEW t \in Threads, ProtectedNotifyBegin(t) PROVE IInv'
  <2>1. PICK async \in BOOLEAN : Notify(t, async, observers)
    BY <1>4 DEF ProtectedNotifyBegin
  <2>2. kind = "protected"
    BY <1>4 DEF ProtectedNotifyBegin
  <2>3. QED
    BY <2>1, <2>2, NotifyStep
<1>5. ASSUME NEW t \in Threads, SkipSlot(t) \/ PostSlot(t) \/ CallSlot(t) PROVE IInv'
  BY <1>5, SlotActions
<1>6. ASSUME NEW t \in Threads, SinkThrows(t) \/ NotifyEnd(t) PROVE IInv'
  <2>1. /\ Walking(t) /\ Leave(t) /\ UNCHANGED <<kind, observers, event, queue, due, got>>
        /\ \/ aborted' = aborted \cup {walk[t].event}
           \/ aborted' = aborted /\ ~AtSlot(t)
    BY <1>6 DEF SinkThrows, NotifyEnd, AtSlot
  <2>2. QED
    BY <2>1, LeaveStep
<1>7. QED
  BY <1>1, <1>2, <1>3, <1>4, <1>5, <1>6, LoopRunsIInv DEF Next

\* The invariant holds in every reachable state of the three observables.
THEOREM Invariance == Spec => []IInv
BY InitIInv, NextIInv, PTL DEF Spec

\* Every sink gets an event as often as it was subscribed when notify() was
\* called, no more often even while it is under way, and no less once it is over,
\* unless a sink threw out of the walk.
THEOREM ExactlyOnce == Spec => []NotifiedOnce
<1>1. ASSUME IInv PROVE NotifiedOnce
  <2> SUFFICES ASSUME NEW s \in Sinks, NEW e \in 1 .. event
               PROVE  LET n == got[s][e] + Queued(s, e) IN
                      /\ n <= due[e][s]
                      /\ ~UnderWay(e) /\ e \notin aborted => n = due[e][s]
    BY DEF NotifiedOnce
  <2>0. TypeInv
    BY <1>1 DEF IInv
  <2>1. got[s][e] + Queued(s, e) = Notified(got, queue, s, e)
    <3>1. DOMAIN queue = 1 .. Len(queue)
      BY <2>0 DEF TypeInv
    <3>2. QED
      BY <3>1 DEF Queued, Notified, Places
  <2>2. CASE UnderWay(e)
    <3>1. PICK t \in Threads : Walking(t) /\ walk[t].event = e
      BY <2>2 DEF UnderWay
    <3>2. /\ due[e][s] = Cardinality(Places(Slots(t), Len(Slots(t)), s))
          /\ Notified(got, queue, s, e) = Cardinality(Places(Slots(t), walk[t].slot - 1, s))
          /\ walk[t].slot <= Len(Slots(t)) + 1
      BY <1>1, <3>1 DEF IInv, WalksOn
    <3>3. walk[t].slot \in Nat \ {0} /\ walk[t].slot - 1 \in Nat /\ Len(Slots(t)) \in Nat
      BY <2>0, <3>1, WalkFacts
    <3>4. walk[t].slot - 1 <= Len(Slots(t))
      BY <3>2, <3>3
    <3>5. Cardinality(Places(Slots(t), walk[t].slot - 1, s))
             <= Cardinality(Places(Slots(t), Len(Slots(t)), s))
      BY <3>3, <3>4, PlacesLess
    <3>6. QED
      BY <2>1, <2>2, <3>2, <3>5
  <2>3. CASE ~UnderWay(e)
    BY <1>1, <2>1, <2>3 DEF IInv, WalksOver
  <2>4. QED
    BY <2>2, <2>3
<1>2. QED
  BY <1>1, Invariance, PTL

(***************************************************************************)
(* protected_mutex, for any set of users, any of which may misuse it.  The *)
(* guard of the observers is one: Observer takes and releases it in one    *)
(* step each, which is sound because the mutex is exclusive.               *)
(***************************************************************************)

\* A constructed protected_mutex satisfies the invariant.
LEMMA MutexInitInv == MutexInit => MutexInv
BY NobodyAssumption
   DEF MutexInit, MutexInv, MutexTypeOK, MaybeThread, Inside, InsidePCs, PCs

\* Every atomic operation of lock() and unlock() preserves the invariant.
LEMMA MutexNextInv == MutexInv /\ [MutexNext]_mutexVars => MutexInv'
<1> SUFFICES ASSUME MutexInv, [MutexNext]_mutexVars PROVE MutexInv'
  OBVIOUS
<1> USE NobodyAssumption
    DEF MutexInv, MutexTypeOK, MaybeThread, Inside, InsidePCs, PCs, Goto
<1>1. CASE UNCHANGED mutexVars
  BY <1>1 DEF mutexVars
<1>2. CASE MutexNext
  <2>1. PICK t \in Users : Step(t)
    BY <1>2 DEF MutexNext
  <2>2. CASE LockCheck(t)
    BY <2>2 DEF LockCheck
  <2>3. CASE InnerLock(t)
    BY <2>3 DEF InnerLock
  <2>4. CASE LockStore(t)
    BY <2>4 DEF LockStore
  <2>5. CASE UnlockCheck(t)
    BY <2>5 DEF UnlockCheck
  <2>6. CASE UnlockThrow(t)
    BY <2>6 DEF UnlockThrow
  <2>7. CASE InnerUnlock(t)
    BY <2>7 DEF InnerUnlock
  <2>8. CASE Clear(t)
    BY <2>8 DEF Clear
  <2>9. CASE ClearFail(t)
    BY <2>9 DEF ClearFail
  <2>10. QED
    BY <2>1, <2>2, <2>3, <2>4, <2>5, <2>6, <2>7, <2>8, <2>9 DEF Step
<1>3. QED
  BY <1>1, <1>2

\* The invariant holds in every reachable state of a protected_mutex.
THEOREM MutexInvariance == MutexSpec => []MutexInv
BY MutexInitInv, MutexNextInv, PTL DEF MutexSpec

\* The owner word only ever holds 0 or the id of a user.
THEOREM MutexTypeCorrect == MutexSpec => []MutexTypeOK
<1>1. MutexInv => MutexTypeOK
  BY DEF MutexInv
<1>2. QED
  BY <1>1, MutexInvariance, PTL

\* A thread that passes the owner check of unlock() has the inner mutex.
THEOREM OwnerUnlocks == MutexSpec => []UnlockOnlyByOwner
<1>1. MutexInv => UnlockOnlyByOwner
  BY DEF MutexInv, UnlockOnlyByOwner, Inside, InsidePCs
<1>2. QED
  BY <1>1, MutexInvariance, PTL

\* lock() never accuses a thread outside the lock of relocking.
THEOREM OutsiderMayLock == MutexSpec => []NoFalseRelock
<1>1. MutexInv => NoFalseRelock
  BY DEF MutexInv, NoFalseRelock, InsidePCs
<1>2. QED
  BY <1>1, MutexInvariance, PTL

\* protected_mutex implements the exclusive lock: acquiring the inner mutex
\* is Enter, releasing it is Leave, every other operation stutters.
THEOREM MutexRefinement == MutexSpec => ImplementsLock
<1>1. MutexInit => Lock!Init
  BY DEF MutexInit, Lock!Init, Inside, InsidePCs
<1>2. ASSUME MutexInv, [MutexNext]_mutexVars PROVE [Lock!Next]_Inside
  <2> USE NobodyAssumption
      DEF MutexInv, MutexTypeOK, MaybeThread, Inside, InsidePCs, PCs, Goto
  <2>1. CASE UNCHANGED mutexVars
    BY <2>1 DEF mutexVars
  <2>2. CASE MutexNext
    <3>1. PICK t \in Users : Step(t)
      BY <2>2 DEF MutexNext
    <3>2. CASE InnerLock(t)
      <4>1. Inside = {}
        BY <1>2, <3>2 DEF InnerLock
      <4>2. Inside' = {t}
        BY <1>2, <3>2, <4>1 DEF InnerLock
      <4>3. QED
        BY <4>1, <4>2 DEF Lock!Next, Lock!Enter
    <3>3. CASE InnerUnlock(t)
      <4>1. Inside = {t}
        BY <1>2, <3>3 DEF InnerUnlock
      <4>2. Inside' = {}
        BY <1>2, <3>3, <4>1 DEF InnerUnlock
      <4>3. QED
        BY <4>1, <4>2 DEF Lock!Next, Lock!Leave
    <3>4. CASE LockCheck(t) \/ LockStore(t) \/ UnlockCheck(t) \/ UnlockThrow(t)
               \/ Clear(t) \/ ClearFail(t)
      <4>1. Inside' = Inside
        BY <1>2, <3>4
           DEF LockCheck, LockStore, UnlockCheck, UnlockThrow, Clear, ClearFail
      <4>2. QED
        BY <4>1
    <3>5. QED
      BY <3>1, <3>2, <3>3, <3>4 DEF Step
  <2>3. QED
    BY <1>2, <2>1, <2>2
<1>3. QED
  BY <1>1, <1>2, MutexInvariance, PTL DEF MutexSpec, ImplementsLock, Lock!Spec
=============================================================================
