-------------------------- MODULE EventDeliveryProofs --------------------------
(***************************************************************************)
(* Whatever the number of producers, subscribers and loops: the pushes of  *)
(* a thread run in their order, none is lost, a barrier returns behind     *)
(* them, and an event outlives its subscriber only in a deadlock.          *)
(***************************************************************************)
EXTENDS EventDelivery, QueueProofs

Calls == {Call(s, p, k, d) : s \in Subscribers, p \in Producers, k \in Nat, d \in BOOLEAN}
LateCalls == {e \in Calls : e.delayed}
Events == Calls \cup {Hop(e) : e \in LateCalls} \cup {BarrierOf(p) : p \in Producers}

(* A call that was not delayed: the properties are about these. *)
Immediately(e) == e.kind = "call" /\ ~e.delayed

(* e and f, if they are pushes of one thread to one subscriber, are in the order of the
   pushes. *)
InOrder(e, f) ==
  Immediately(e) /\ Immediately(f) /\ e.sub = f.sub /\ e.from = f.from => e.n < f.n

(* What has run and what is queued behind it are in order. *)
Ordered(r, q) ==
  /\ \A i, j \in 1 .. Len(r) : i < j => InOrder(r[i], r[j])
  /\ \A i \in 1 .. Len(r), j \in 1 .. Len(q) : InOrder(r[i], q[j])
  /\ \A i, j \in 1 .. Len(q) : i < j => InOrder(q[i], q[j])

(* Events of the three kinds *)
LEMMA EventShapes ==
  ASSUME NEW e \in Events
  PROVE  /\ e.kind \in {"call", "hop", "barrier"}
         /\ e.kind = "call" => /\ e.sub \in Subscribers /\ e.from \in Producers
                               /\ e.n \in Nat /\ e.delayed \in BOOLEAN
                               /\ e = Call(e.sub, e.from, e.n, e.delayed) /\ e \in Calls
         /\ e.kind = "hop" => e.inner \in LateCalls
         /\ e.kind = "barrier" => e.from \in Producers /\ e = BarrierOf(e.from)
         /\ e # None
<1>1. CASE e \in Calls
  BY <1>1 DEF Calls, Call, None
<1>2. CASE e \in {Hop(d) : d \in LateCalls}
  BY <1>2 DEF Hop, None
<1>3. CASE e \in {BarrierOf(p) : p \in Producers}
  BY <1>3 DEF BarrierOf, None
<1> QED BY <1>1, <1>2, <1>3 DEF Events

LEMMA CallsAreEvents ==
  ASSUME NEW e \in Calls
  PROVE  /\ e \in Events /\ e.kind = "call" /\ e.sub \in Subscribers
         /\ e.from \in Producers /\ e.n \in Nat /\ e.delayed \in BOOLEAN
BY DEF Calls, Call, Events

LEMMA NewCalls ==
  ASSUME NEW s \in Subscribers, NEW p \in Producers, NEW k \in Nat, NEW d \in BOOLEAN
  PROVE  /\ Call(s, p, k, d) \in Calls
         /\ Call(s, p, k, d).kind = "call" /\ Call(s, p, k, d).sub = s
         /\ Call(s, p, k, d).from = p /\ Call(s, p, k, d).n = k
         /\ Call(s, p, k, d).delayed = d
BY DEF Calls, Call

LEMMA ImmediateCalls ==
  ASSUME NEW s \in Subscribers, NEW p \in Producers, NEW k \in Nat
  PROVE  /\ Call(s, p, k, FALSE) \in Calls
         /\ Call(s, p, k, FALSE).sub = s
         /\ Call(s, p, k, FALSE).from = p /\ Call(s, p, k, FALSE).n = k
<1> DEFINE d == FALSE
<1>1. d \in BOOLEAN
  OBVIOUS
<1> HIDE DEF d
<1>2. Call(s, p, k, d) \in Calls /\ Call(s, p, k, d).sub = s /\ Call(s, p, k, d).from = p
      /\ Call(s, p, k, d).n = k
  BY <1>1, NewCalls
<1> QED BY <1>2 DEF d

LEMMA PrioritiesOfEvents ==
  ASSUME NEW e \in Events
  PROVE  /\ PriorityOfEvent(e) \in Priorities
         /\ e.kind = "call" => PriorityOfEvent(e) = PriorityOf[e.sub]
         /\ PriorityOfEvent(e) = Barrier => e.kind = "barrier"
         /\ e.kind = "barrier" => PriorityOfEvent(e) = Barrier
         /\ e.kind = "hop" => PriorityOfEvent(e) = Normal
<1>1. \A s \in Subscribers : PriorityOf[s] \in 0 .. 2
  BY SubscribersHaveAPriority DEF High, Low
<1> QED
  BY <1>1, EventShapes DEF PriorityOfEvent, Priorities, High, Normal, Low, Barrier

-----------------------------------------------------------------------------
(* What may happen to an ordered list *)

(* An event that is not an immediate call changes no order. *)
LEMMA OrderedAppendOther ==
  ASSUME NEW S, NEW r, NEW q \in Seq(S), NEW e \in S, Ordered(r, q), ~Immediately(e)
  PROVE  Ordered(r, Append(q, e))
<1>1. /\ Len(q) \in Nat /\ Len(Append(q, e)) = Len(q) + 1
      /\ \A i \in 1 .. Len(q) : Append(q, e)[i] = q[i]
      /\ Append(q, e)[Len(q) + 1] = e
  OBVIOUS
<1>2. \A i \in 1 .. Len(q) + 1 : i \in 1 .. Len(q) \/ i = Len(q) + 1
  BY <1>1
<1>3. \A x : InOrder(x, e) /\ InOrder(e, x)
  BY DEF InOrder
<1> QED BY <1>1, <1>2, <1>3 DEF Ordered

(* A call that is later than those of its thread there are *)
LEMMA OrderedAppendNew ==
  ASSUME NEW S, NEW r, NEW q \in Seq(S), NEW e \in S, Ordered(r, q),
         \A i \in 1 .. Len(r) : InOrder(r[i], e),
         \A i \in 1 .. Len(q) : InOrder(q[i], e)
  PROVE  Ordered(r, Append(q, e))
<1>1. /\ Len(q) \in Nat /\ Len(Append(q, e)) = Len(q) + 1
      /\ \A i \in 1 .. Len(q) : Append(q, e)[i] = q[i]
      /\ Append(q, e)[Len(q) + 1] = e
  OBVIOUS
<1>2. \A i \in 1 .. Len(q) + 1 : i \in 1 .. Len(q) \/ i = Len(q) + 1
  BY <1>1
<1>3. \A i, j \in 1 .. Len(q) + 1 : i < j => i \in 1 .. Len(q)
  BY <1>1
<1> QED BY <1>1, <1>2, <1>3 DEF Ordered

LEMMA OrderedTail ==
  ASSUME NEW S, NEW r, NEW q \in Seq(S), q # <<>>, Ordered(r, q)
  PROVE  Ordered(r, Tail(q))
<1>1. /\ Len(q) \in Nat \ {0} /\ Len(Tail(q)) = Len(q) - 1
      /\ \A i \in 1 .. Len(q) - 1 : i + 1 \in 1 .. Len(q) /\ Tail(q)[i] = q[i + 1]
  OBVIOUS
<1>2. \A i, j \in 1 .. Len(q) - 1 : i < j => i + 1 < j + 1
  BY <1>1
<1> QED BY <1>1, <1>2 DEF Ordered

(* The first of the list runs. *)
LEMMA OrderedPop ==
  ASSUME NEW S, NEW r \in Seq(S), NEW q \in Seq(S), q # <<>>, Ordered(r, q)
  PROVE  Ordered(Append(r, Head(q)), Tail(q))
<1> DEFINE e == Head(q)
<1>1. /\ Len(q) \in Nat \ {0} /\ Len(Tail(q)) = Len(q) - 1
      /\ \A i \in 1 .. Len(q) - 1 : i + 1 \in 1 .. Len(q) /\ Tail(q)[i] = q[i + 1]
      /\ e = q[1] /\ 1 \in 1 .. Len(q) /\ e \in S
  OBVIOUS
<1>2. \A i, j \in 1 .. Len(q) - 1 : i < j => i + 1 < j + 1
  BY <1>1
<1>3. /\ Len(r) \in Nat /\ Len(Append(r, e)) = Len(r) + 1
      /\ \A i \in 1 .. Len(r) : Append(r, e)[i] = r[i]
      /\ Append(r, e)[Len(r) + 1] = e
  BY <1>1
<1>4. \A i \in 1 .. Len(r) + 1 : i \in 1 .. Len(r) \/ i = Len(r) + 1
  BY <1>3
<1>5. \A i, j \in 1 .. Len(r) + 1 : i < j => i \in 1 .. Len(r)
  BY <1>3
<1>6. \A j \in 1 .. Len(q) - 1 : InOrder(e, Tail(q)[j])
  <2> SUFFICES ASSUME NEW j \in 1 .. Len(q) - 1 PROVE InOrder(e, Tail(q)[j])
    OBVIOUS
  <2>1. 1 < j + 1
    BY <1>1
  <2> QED BY <1>1, <2>1 DEF Ordered
<1> HIDE DEF e
<1>7. \A i, j \in 1 .. Len(r) + 1 : i < j => InOrder(Append(r, e)[i], Append(r, e)[j])
  BY <1>1, <1>3, <1>4, <1>5 DEF Ordered
<1>8. \A i \in 1 .. Len(r) + 1, j \in 1 .. Len(q) - 1 : InOrder(Append(r, e)[i], Tail(q)[j])
  BY <1>1, <1>3, <1>4, <1>6 DEF Ordered
<1>9. \A i, j \in 1 .. Len(q) - 1 : i < j => InOrder(Tail(q)[i], Tail(q)[j])
  BY <1>1, <1>2 DEF Ordered
<1> QED BY <1>1, <1>3, <1>7, <1>8, <1>9 DEF Ordered, e

(* A delayed call runs whenever it comes. *)
LEMMA OrderedRunOther ==
  ASSUME NEW S, NEW r \in Seq(S), NEW q, NEW e \in S, ~Immediately(e), Ordered(r, q)
  PROVE  Ordered(Append(r, e), q)
<1>1. /\ Len(r) \in Nat /\ Len(Append(r, e)) = Len(r) + 1
      /\ \A i \in 1 .. Len(r) : Append(r, e)[i] = r[i]
      /\ Append(r, e)[Len(r) + 1] = e
  OBVIOUS
<1>2. \A i \in 1 .. Len(r) + 1 : i \in 1 .. Len(r) \/ i = Len(r) + 1
  BY <1>1
<1>3. \A x : InOrder(x, e) /\ InOrder(e, x)
  BY DEF InOrder
<1> QED BY <1>1, <1>2, <1>3 DEF Ordered

LEMMA OrderedWithout ==
  ASSUME NEW S, NEW r, NEW q \in Seq(S), NEW D, Ordered(r, q)
  PROVE  Ordered(r, Without(q, D))
<1> DEFINE w == Without(q, D)
<1>1. Selected(w, q, D, Len(q)) /\ w \in Seq(S)
  BY WithoutSelects
<1> HIDE DEF w
<1>2. PICK h \in [1 .. Len(w) -> 1 .. Len(q)] :
        /\ \A k \in 1 .. Len(w) : w[k] = q[h[k]]
        /\ \A j, k \in 1 .. Len(w) : j < k => h[j] < h[k]
  BY <1>1 DEF Selected
<1> QED BY <1>2, ZenonT(40) DEF Ordered, w
-----------------------------------------------------------------------------
(* The invariants, each with the earlier ones it needs *)

Types ==
  /\ m_queue_map \in [Loops -> [Priorities -> Seq(Events)]]
  /\ running \in [Loops -> Events \cup {None}]
  /\ m_subscriptions \in Seq(Subscribers)
  /\ holders \in [Subscribers -> SUBSET (Producers \cup {Owner})]
  /\ phase \in [Subscribers -> {"alive", "unsubscribe", "discard", "destroyed"}]
  /\ pc \in [Producers -> {"idle", "iterate", "consume", "release", "stuck", "barrier"}]
  /\ todo \in [Producers -> Seq(Subscribers)]
  /\ pushed \in [Producers -> Nat]
  /\ delayedPushes \in [Producers -> SUBSET Nat]
  /\ m_delayed_events \subseteq LateCalls
  /\ ran \in [Subscribers -> Seq(Calls)]
  /\ late \subseteq Calls

Pushing == {"iterate", "consume", "release", "stuck"}

(* The subscriptions and who holds them: a push holds the one it is at, and nobody else
   but the owner holds it. *)
Holding ==
  /\ Once(m_subscriptions)
  /\ \A p \in Producers :
       /\ Once(todo[p])
       /\ pc[p] \in {"consume", "release", "stuck"} => todo[p] # <<>>
       /\ pc[p] \in {"consume", "release"} => p \in holders[Head(todo[p])]
       /\ pc[p] \in Pushing => lock = p
  /\ \A s \in Subscribers :
       /\ phase[s] = "alive" => In(s, m_subscriptions)
       /\ Owner \in holders[s] <=> phase[s] = "alive"
       /\ \A p \in Producers :
            p \in holders[s] => pc[p] \in {"consume", "release"} /\ s = Head(todo[p])

(* The list a subscriber's events wait in *)
Waiting(s) == m_queue_map[LoopOf[s]][PriorityOf[s]]

Placed ==
  /\ \A l \in Loops, p \in Priorities, e \in Events :
       In(e, m_queue_map[l][p]) =>
         /\ PriorityOfEvent(e) = p
         /\ Immediately(e) => LoopOf[e.sub] = l
  /\ \A s \in Subscribers, e \in Calls : In(e, ran[s]) => e.sub = s

(* The push that is going on has still to reach s. *)
Pending(p, s) ==
  \/ pc[p] \in {"iterate", "consume"} /\ In(s, todo[p])
  \/ pc[p] \in {"release", "stuck"} /\ In(s, Tail(todo[p]))

NotAhead(e) == e.n <= pushed[e.from] /\ (e.n = pushed[e.from] => ~Pending(e.from, e.sub))

(* What s has of a thread is of pushes that have reached s. *)
Bounded ==
  \A e \in Calls :
    Immediately(e) /\ (In(e, Waiting(e.sub)) \/ In(e, ran[e.sub])) => NotAhead(e)

(* What ran and what waits are in order: the heart of PushesRunInOrder. *)
InTheirOrder == \A s \in Subscribers : Ordered(ran[s], Waiting(s))

-----------------------------------------------------------------------------
(* One thread at a time is in a push. *)
LEMMA LockIsFree ==
  ASSUME Types, lock = Free, Holding
  PROVE  \A p \in Producers : pc[p] \notin Pushing
BY ThreadsAreProducers DEF Holding

LEMMA EnqueuedIs ==
  ASSUME NEW m \in [Loops -> [Priorities -> Seq(Events)]], NEW l \in Loops, NEW e \in Events
  PROVE  /\ Enqueued(m, l, e) \in [Loops -> [Priorities -> Seq(Events)]]
         /\ \A k \in Loops, p \in Priorities :
              Enqueued(m, l, e)[k][p] =
                IF k = l /\ p = PriorityOfEvent(e) THEN Append(m[k][p], e) ELSE m[k][p]
<1> DEFINE r == PriorityOfEvent(e)
<1>1. r \in Priorities
  BY PrioritiesOfEvents
<1> HIDE DEF r
<1>2. Enqueued(m, l, e) = [m EXCEPT ![l][r] = Append(@, e)]
  BY DEF Enqueued, r
<1>3. Append(m[l][r], e) \in Seq(Events)
  BY <1>1
<1> QED BY <1>1, <1>2, <1>3 DEF r

LEMMA DiscardedIs ==
  ASSUME Types, NEW l \in Loops, NEW s
  PROVE  /\ discard_events(l, s) \in [Loops -> [Priorities -> Seq(Events)]]
         /\ \A k \in Loops, p \in Priorities :
              discard_events(l, s)[k][p] =
                IF k = l THEN Without(m_queue_map[k][p], EventsFor(s, m_queue_map[k][p]))
                         ELSE m_queue_map[k][p]
<1>1. \A p \in Priorities :
        Without(m_queue_map[l][p], EventsFor(s, m_queue_map[l][p])) \in Seq(Events)
  BY InWithout DEF Types
<1> QED BY <1>1 DEF Types, discard_events

LEMMA InitTypes == Init => Types
BY EveryoneSubscribed DEF Init, Types

LEMMA TypesStep == Types /\ Holding /\ [Next]_vars => Types'
<1> SUFFICES ASSUME Types, Holding, [Next]_vars PROVE Types'
  OBVIOUS
<1> USE DEF Types, chVars, pushVars
<1>1. ASSUME NEW p \in Producers, PushLock(p) PROVE Types'
  <2>1. pushed' \in [Producers -> Nat]
    BY <1>1 DEF PushLock
  <2>2. delayedPushes' \in [Producers -> SUBSET Nat]
    <3>1. pushed[p] + 1 \in Nat /\ delayedPushes[p] \in SUBSET Nat
      OBVIOUS
    <3>2. delayedPushes[p] \cup {pushed[p] + 1} \in SUBSET Nat
      BY <3>1
    <3> QED BY <1>1, <3>2 DEF PushLock
  <2>3. todo' \in [Producers -> Seq(Subscribers)]
    BY <1>1 DEF PushLock
  <2> QED BY <1>1, <2>1, <2>2, <2>3 DEF PushLock
<1>2. ASSUME NEW p \in Producers, PushPromote(p) PROVE Types'
  <2>1. Head(todo[p]) \in Subscribers /\ Tail(todo[p]) \in Seq(Subscribers)
    BY <1>2, InTail DEF PushPromote
  <2>2. todo' \in [Producers -> Seq(Subscribers)]
    BY <1>2, <2>1 DEF PushPromote
  <2>3. holders' \in [Subscribers -> SUBSET (Producers \cup {Owner})]
    <3>1. holders[Head(todo[p])] \cup {p} \in SUBSET (Producers \cup {Owner})
      BY <2>1
    <3> QED BY <1>2, <3>1 DEF PushPromote
  <2>4. pc' \in [Producers -> {"idle", "iterate", "consume", "release", "stuck", "barrier"}]
    BY <1>2 DEF PushPromote
  <2> QED BY <1>2, <2>2, <2>3, <2>4 DEF PushPromote
<1>3. ASSUME NEW p \in Producers, PushConsume(p) PROVE Types'
  <2> DEFINE s == Head(todo[p])
             e == Call(s, p, pushed[p], pushed[p] \in delayedPushes[p])
  <2>1. pc' = [pc EXCEPT ![p] = "release"]
    BY <1>3 DEF PushConsume
  <2>2. CASE s \in Subscribers
    <3>1. e \in Calls /\ e \in Events
      <4> DEFINE d == pushed[p] \in delayedPushes[p]
      <4>1. pushed[p] \in Nat /\ d \in BOOLEAN
        OBVIOUS
      <4> HIDE DEF d
      <4>2. Call(s, p, pushed[p], d) \in Calls
        BY <2>2, <4>1, NewCalls
      <4> QED BY <4>2, CallsAreEvents DEF d
    <3>2. e.delayed => e \in LateCalls
      BY <3>1 DEF LateCalls
    <3> HIDE DEF e, s
    <3>3. m_delayed_events' \subseteq LateCalls
      <4>1. IF e.delayed THEN m_delayed_events' = m_delayed_events \cup {e}
                         ELSE UNCHANGED m_delayed_events
        BY <1>3, Zenon DEF PushConsume, e, s
      <4> QED BY <3>2, <4>1
    <3>4. m_queue_map' \in [Loops -> [Priorities -> Seq(Events)]]
      <4>1. LoopOf[s] \in Loops
        BY <2>2, SubscribersHaveALoop
      <4>2. Enqueued(m_queue_map, LoopOf[s], e) \in [Loops -> [Priorities -> Seq(Events)]]
        BY <3>1, <4>1, EnqueuedIs
      <4> QED BY <1>3, <4>2 DEF PushConsume, e, s
    <3> QED BY <1>3, <2>1, <3>3, <3>4 DEF PushConsume
  <2>3. todo[p] # <<>> => s \in Subscribers
    BY InTail
  <2> QED BY <1>3, <2>2, <2>3 DEF Holding, PushConsume
<1>4. ASSUME NEW p \in Producers, PushRelease(p) PROVE Types'
  <2>1. todo[p] # <<>>
    BY <1>4 DEF PushRelease, Holding
  <2>2. Head(todo[p]) \in Subscribers /\ Tail(todo[p]) \in Seq(Subscribers)
    BY <2>1, InTail
  <2>3. todo' \in [Producers -> Seq(Subscribers)]
    BY <1>4, <2>2 DEF PushRelease
  <2>4. holders' \in [Subscribers -> SUBSET (Producers \cup {Owner})]
    <3>1. holders[Head(todo[p])] \ {p} \in SUBSET (Producers \cup {Owner})
      BY <2>2
    <3> QED BY <1>4, <3>1 DEF PushRelease
  <2>5. pc' \in [Producers -> {"idle", "iterate", "consume", "release", "stuck", "barrier"}]
    BY <1>4 DEF PushRelease
  <2> QED BY <1>4, <2>3, <2>4, <2>5 DEF PushRelease
<1>5. ASSUME NEW p \in Producers, PushUnlock(p) PROVE Types'
  BY <1>5 DEF PushUnlock
<1>6. ASSUME NEW p \in Producers, NEW l \in Loops, BarrierPush(p, l) PROVE Types'
  <2>1. BarrierOf(p) \in Events
    BY DEF Events
  <2>2. Enqueued(m_queue_map, l, BarrierOf(p)) \in [Loops -> [Priorities -> Seq(Events)]]
    BY <2>1, EnqueuedIs
  <2>3. pc' = [pc EXCEPT ![p] = "barrier"]
    BY <1>6 DEF BarrierPush
  <2> QED BY <1>6, <2>2, <2>3 DEF BarrierPush
<1>7. ASSUME NEW s \in Subscribers, DtorClear(s) PROVE Types'
  <2>1. holders' \in [Subscribers -> SUBSET (Producers \cup {Owner})]
    <3>1. holders[s] \ {Owner} \in SUBSET (Producers \cup {Owner})
      OBVIOUS
    <3> QED BY <1>7, <3>1 DEF DtorClear
  <2>2. phase' \in [Subscribers -> {"alive", "unsubscribe", "discard", "destroyed"}]
    BY <1>7 DEF DtorClear, AfterClear
  <2> QED BY <1>7, <2>1, <2>2 DEF DtorClear
<1>8. ASSUME NEW s \in Subscribers, DtorUnsubscribe(s) PROVE Types'
  <2>1. Without(m_subscriptions, {s}) \in Seq(Subscribers)
    BY InWithout
  <2> QED BY <1>8, <2>1 DEF DtorUnsubscribe
<1>9. ASSUME NEW s \in Subscribers, DtorDiscard(s) PROVE Types'
  <2>1. LoopOf[s] \in Loops
    BY SubscribersHaveALoop
  <2>2. discard_events(LoopOf[s], s) \in [Loops -> [Priorities -> Seq(Events)]]
    BY <2>1, DiscardedIs
  <2> QED BY <1>9, <2>2 DEF DtorDiscard
<1>10. ASSUME NEW l \in Loops, LoopPop(l) PROVE Types'
  <2>1. PICK p \in Priorities :
          /\ m_queue_map[l][p] # <<>>
          /\ running' = [running EXCEPT ![l] = Head(m_queue_map[l][p])]
          /\ m_queue_map' = [m_queue_map EXCEPT ![l][p] = Tail(@)]
          /\ LET e == Head(m_queue_map[l][p]) IN
               IF e.kind = "call"
               THEN /\ ran' = [ran EXCEPT ![e.sub] = Append(@, e)]
                    /\ late' = IF phase[e.sub] = "destroyed" THEN late \cup {e} ELSE late
               ELSE UNCHANGED <<ran, late>>
    BY <1>10 DEF LoopPop
  <2> DEFINE e == Head(m_queue_map[l][p])
  <2>2. e \in Events /\ Tail(m_queue_map[l][p]) \in Seq(Events)
    BY <2>1, InTail
  <2>3. e.kind = "call" => e \in Calls /\ e.sub \in Subscribers
    BY <2>2, EventShapes
  <2> HIDE DEF e
  <2>4. running' \in [Loops -> Events \cup {None}]
    BY <2>1, <2>2 DEF e
  <2>5. m_queue_map' \in [Loops -> [Priorities -> Seq(Events)]]
    BY <2>1, <2>2
  <2>6. ran' \in [Subscribers -> Seq(Calls)] /\ late' \subseteq Calls
    <3>1. CASE e.kind = "call"
      <4>1. Append(ran[e.sub], e) \in Seq(Calls)
        BY <2>3, <3>1
      <4>2. ran' = [ran EXCEPT ![e.sub] = Append(ran[e.sub], e)] /\ late' \subseteq late \cup {e}
        BY <2>1, <3>1 DEF e
      <4> QED BY <2>3, <3>1, <4>1, <4>2
    <3>2. CASE e.kind # "call"
      BY <2>1, <3>2 DEF e
    <3> QED BY <3>1, <3>2
  <2> QED BY <1>10, <2>4, <2>5, <2>6 DEF LoopPop
<1>11. ASSUME NEW l \in Loops, LoopReturn(l) PROVE Types'
  <2>1. running[l] \in Events
    BY <1>11 DEF LoopReturn
  <2>2. running' \in [Loops -> Events \cup {None}]
    BY <1>11 DEF LoopReturn
  <2>3. pc' \in [Producers -> {"idle", "iterate", "consume", "release", "stuck", "barrier"}]
    BY <1>11 DEF LoopReturn, Released
  <2>4. m_queue_map' \in [Loops -> [Priorities -> Seq(Events)]]
    <3>1. CASE running[l].kind = "hop"
      <4>1. running[l].inner \in Events
        BY <2>1, <3>1, EventShapes, CallsAreEvents DEF LateCalls
      <4>2. Enqueued(m_queue_map, l, running[l].inner) \in [Loops -> [Priorities -> Seq(Events)]]
        BY <4>1, EnqueuedIs
      <4> QED BY <1>11, <3>1, <4>2 DEF LoopReturn
    <3>2. CASE running[l].kind # "hop"
      BY <1>11, <3>2 DEF LoopReturn
    <3> QED BY <3>1, <3>2
  <2> QED BY <1>11, <2>2, <2>3, <2>4 DEF LoopReturn
<1>12. ASSUME NEW e \in m_delayed_events, SchedulerFire(e) PROVE Types'
  <2>1. Hop(e) \in Events /\ Normal \in Priorities
    BY DEF Events, Priorities, High, Normal, Barrier
  <2>2. \A l \in Loops : Append(m_queue_map[l][Normal], Hop(e)) \in Seq(Events)
    BY <2>1
  <2>3. m_queue_map' \in [Loops -> [Priorities -> Seq(Events)]]
    BY <1>12, <2>2 DEF SchedulerFire
  <2>4. m_delayed_events' \subseteq LateCalls
    BY <1>12 DEF SchedulerFire
  <2> QED BY <1>12, <2>3, <2>4 DEF SchedulerFire
<1>13. CASE UNCHANGED vars
  BY <1>13 DEF vars
<1> QED
  BY <1>1, <1>2, <1>3, <1>4, <1>5, <1>6, <1>7, <1>8, <1>9, <1>10, <1>11, <1>12, <1>13 DEF Next
-----------------------------------------------------------------------------
(* What the steps do to the queues *)

(* Most leave them alone, or add events the properties are not about. *)
Quiet ==
  /\ ran' = ran
  /\ \A k \in Loops, r \in Priorities :
       \/ m_queue_map'[k][r] = m_queue_map[k][r]
       \/ \E e \in Events :
            /\ m_queue_map'[k][r] = Append(m_queue_map[k][r], e)
            /\ PriorityOfEvent(e) = r /\ ~Immediately(e) /\ e.kind # "barrier"

(* A push hands on the call it is at. *)
NewCall(p, e) ==
  /\ PushConsume(p)
  /\ e \in Calls /\ e = Call(Head(todo[p]), p, pushed[p], FALSE)
  /\ Immediately(e) /\ e.from = p /\ e.n = pushed[p]
  /\ e.sub = Head(todo[p]) /\ pushed[p] \notin delayedPushes[p]
  /\ m_queue_map' = Enqueued(m_queue_map, LoopOf[e.sub], e)

(* The loop l takes e from the list r. *)
Popped(l, r, e) ==
  /\ LoopPop(l)
  /\ e = Head(m_queue_map[l][r]) /\ m_queue_map[l][r] # <<>>
  /\ \A q \in Priorities : q < r => m_queue_map[l][q] = <<>>
  /\ \A k \in Loops, q \in Priorities :
       m_queue_map'[k][q] = IF k = l /\ q = r THEN Tail(m_queue_map[k][q]) ELSE m_queue_map[k][q]
  /\ running' = [running EXCEPT ![l] = e]
  /\ \A s \in Subscribers :
       ran'[s] = IF e.kind = "call" /\ e.sub = s THEN Append(ran[s], e) ELSE ran[s]
  /\ late' \subseteq IF e.kind = "call" /\ phase[e.sub] = "destroyed" THEN late \cup {e}
                                                                       ELSE late

LEMMA ConsumeSteps ==
  ASSUME Types, Holding, NEW p \in Producers, PushConsume(p)
  PROVE  \/ Quiet /\ pushed[p] \in delayedPushes[p]
         \/ \E e \in Calls : NewCall(p, e)
<1> DEFINE s == Head(todo[p])
           d == pushed[p] \in delayedPushes[p]
           e == Call(s, p, pushed[p], d)
<1>1. todo[p] # <<>>
  BY DEF PushConsume, Holding
<1>2. s \in Subscribers
  BY <1>1, InTail DEF Types
<1>3. pushed[p] \in Nat /\ d \in BOOLEAN
  BY DEF Types
<1>4. IF e.delayed THEN UNCHANGED m_queue_map
                   ELSE m_queue_map' = Enqueued(m_queue_map, LoopOf[s], e)
  BY Zenon DEF PushConsume
<1>5. UNCHANGED ran
  BY DEF PushConsume
<1> HIDE DEF s, d
<1>6. e \in Calls /\ e.kind = "call" /\ e.sub = s /\ e.from = p /\ e.n = pushed[p] /\ e.delayed = d
  BY <1>2, <1>3, NewCalls
<1>7. CASE d
  <2>1. UNCHANGED m_queue_map
    BY <1>4, <1>6, <1>7
  <2>2. Quiet
    BY <1>5, <2>1 DEF Quiet
  <2> QED BY <1>7, <2>2 DEF d
<1>8. CASE ~d
  <2>1. m_queue_map' = Enqueued(m_queue_map, LoopOf[s], e)
    BY <1>4, <1>6, <1>8
  <2>2. d = FALSE
    BY <1>3, <1>8
  <2>3. Immediately(e)
    BY <1>6, <1>8 DEF Immediately
  <2>4. NewCall(p, e)
    BY <1>6, <1>8, <2>1, <2>2, <2>3 DEF NewCall, s, d
  <2> QED BY <1>6, <2>4
<1> QED BY <1>7, <1>8

LEMMA PopSteps ==
  ASSUME Types, NEW l \in Loops, LoopPop(l)
  PROVE  \E r \in Priorities, e \in Events : Popped(l, r, e)
<1>1. PICK r \in Priorities :
        /\ m_queue_map[l][r] # <<>>
        /\ \A q \in Priorities : q < r => m_queue_map[l][q] = <<>>
        /\ running' = [running EXCEPT ![l] = Head(m_queue_map[l][r])]
        /\ m_queue_map' = [m_queue_map EXCEPT ![l][r] = Tail(@)]
        /\ LET e == Head(m_queue_map[l][r]) IN
             IF e.kind = "call"
             THEN /\ ran' = [ran EXCEPT ![e.sub] = Append(@, e)]
                  /\ late' = IF phase[e.sub] = "destroyed" THEN late \cup {e} ELSE late
             ELSE UNCHANGED <<ran, late>>
  BY DEF LoopPop
<1> DEFINE e == Head(m_queue_map[l][r])
<1>2. e \in Events
  BY <1>1, InTail DEF Types
<1>3. e.kind = "call" => e.sub \in Subscribers
  BY <1>2, EventShapes
<1>4. \A k \in Loops, q \in Priorities :
       m_queue_map'[k][q] = IF k = l /\ q = r THEN Tail(m_queue_map[k][q]) ELSE m_queue_map[k][q]
  BY <1>1 DEF Types
<1>5. \A s \in Subscribers :
       ran'[s] = IF e.kind = "call" /\ e.sub = s THEN Append(ran[s], e) ELSE ran[s]
  BY <1>1, <1>3 DEF Types
<1>6. late' \subseteq IF e.kind = "call" /\ phase[e.sub] = "destroyed" THEN late \cup {e}
                                                                       ELSE late
  BY <1>1
<1>7. Popped(l, r, e)
  BY <1>1, <1>4, <1>5, <1>6 DEF Popped
<1> QED BY <1>2, <1>7

LEMMA ReturnSteps ==
  ASSUME Types, NEW l \in Loops, LoopReturn(l)
  PROVE  Quiet
<1>1. running[l] \in Events /\ UNCHANGED ran
  BY DEF LoopReturn, Types
<1>2. CASE running[l].kind = "hop"
  <2> DEFINE e == running[l].inner
  <2>1. e \in LateCalls /\ e \in Events
    BY <1>1, <1>2, EventShapes, CallsAreEvents DEF LateCalls
  <2>2. m_queue_map' = Enqueued(m_queue_map, l, e)
    BY <1>2 DEF LoopReturn
  <2> HIDE DEF e
  <2>3. ~Immediately(e) /\ e.kind # "barrier"
    BY <2>1, CallsAreEvents DEF LateCalls, Immediately
  <2>4. \A k \in Loops, r \in Priorities :
          m_queue_map'[k][r] = IF k = l /\ r = PriorityOfEvent(e)
                               THEN Append(m_queue_map[k][r], e) ELSE m_queue_map[k][r]
    BY <2>1, <2>2, EnqueuedIs DEF Types
  <2> QED BY <1>1, <2>1, <2>3, <2>4 DEF Quiet
<1>3. CASE running[l].kind # "hop"
  BY <1>1, <1>3 DEF LoopReturn, Quiet
<1> QED BY <1>2, <1>3

LEMMA FireSteps ==
  ASSUME Types, NEW e \in m_delayed_events, SchedulerFire(e)
  PROVE  Quiet
<1>1. Hop(e) \in Events /\ Hop(e).kind = "hop" /\ ~Immediately(Hop(e))
  BY DEF Types, Events, Hop, Immediately
<1>2. PriorityOfEvent(Hop(e)) = Normal /\ Normal \in Priorities
  BY <1>1, PrioritiesOfEvents DEF Priorities, High, Normal, Barrier
<1>3. \A k \in Loops, r \in Priorities :
        m_queue_map'[k][r] = IF r = Normal THEN Append(m_queue_map[k][r], Hop(e))
                                           ELSE m_queue_map[k][r]
  BY <1>2 DEF SchedulerFire, Types
<1>4. UNCHANGED ran
  BY DEF SchedulerFire
<1> QED BY <1>1, <1>2, <1>3, <1>4 DEF Quiet

LEMMA QueueSteps ==
  ASSUME Types, Holding, [Next]_vars
  PROVE  \/ Quiet
         \/ \E p \in Producers, e \in Calls : NewCall(p, e)
         \/ \E p \in Producers, l \in Loops : BarrierPush(p, l)
         \/ \E s \in Subscribers : DtorDiscard(s)
         \/ \E l \in Loops, r \in Priorities, e \in Events : Popped(l, r, e)
<1>1. UNCHANGED <<m_queue_map, ran>> => Quiet
  BY DEF Quiet
<1>2. CASE UNCHANGED vars
  BY <1>1, <1>2 DEF vars
<1>3. ASSUME NEW p \in Producers,
             PushLock(p) \/ PushPromote(p) \/ PushRelease(p) \/ PushUnlock(p)
      PROVE  Quiet
  BY <1>1, <1>3 DEF PushLock, PushPromote, PushRelease, PushUnlock
<1>4. ASSUME NEW s \in Subscribers, DtorClear(s) \/ DtorUnsubscribe(s)
      PROVE  Quiet
  BY <1>1, <1>4 DEF DtorClear, DtorUnsubscribe
<1> QED
  BY <1>2, <1>3, <1>4, ConsumeSteps, PopSteps, ReturnSteps, FireSteps DEF Next
LEMMA NewCallIs ==
  ASSUME Types, NEW p, NEW e \in Calls, NewCall(p, e)
  PROVE  /\ e \in Events /\ e.sub \in Subscribers /\ LoopOf[e.sub] \in Loops
         /\ PriorityOf[e.sub] \in Priorities
         /\ \A k \in Loops, r \in Priorities :
              m_queue_map'[k][r] = IF k = LoopOf[e.sub] /\ r = PriorityOf[e.sub]
                                   THEN Append(m_queue_map[k][r], e) ELSE m_queue_map[k][r]
         /\ UNCHANGED <<ran, running>>
<1>1. e \in Events /\ e.sub \in Subscribers /\ LoopOf[e.sub] \in Loops /\ e.kind = "call"
  BY CallsAreEvents, SubscribersHaveALoop
<1>2. PriorityOfEvent(e) = PriorityOf[e.sub] /\ PriorityOfEvent(e) \in Priorities
  BY <1>1, PrioritiesOfEvents
<1>3. UNCHANGED <<ran, running>>
  BY DEF NewCall, PushConsume
<1>4. m_queue_map' = Enqueued(m_queue_map, LoopOf[e.sub], e)
  BY DEF NewCall
<1>5. \A k \in Loops, r \in Priorities :
        m_queue_map'[k][r] = IF k = LoopOf[e.sub] /\ r = PriorityOfEvent(e)
                             THEN Append(m_queue_map[k][r], e) ELSE m_queue_map[k][r]
  <2>1. m_queue_map \in [Loops -> [Priorities -> Seq(Events)]]
    BY DEF Types
  <2> DEFINE h == LoopOf[e.sub]
  <2>2. h \in Loops
    BY <1>1
  <2> HIDE DEF h
  <2>3. \A k \in Loops, r \in Priorities :
          Enqueued(m_queue_map, h, e)[k][r] =
            IF k = h /\ r = PriorityOfEvent(e) THEN Append(m_queue_map[k][r], e)
                                               ELSE m_queue_map[k][r]
    <3>1. e \in Events
      BY <1>1
    <3> QED BY <2>1, <2>2, <3>1, EnqueuedIs, ZenonT(40)
  <2> QED BY <1>4, <2>3 DEF h
<1> QED BY <1>1, <1>2, <1>3, <1>5

LEMMA BarrierPushIs ==
  ASSUME Types, NEW p \in Producers, NEW l \in Loops, BarrierPush(p, l)
  PROVE  /\ BarrierOf(p) \in Events /\ Barrier \in Priorities
         /\ PriorityOfEvent(BarrierOf(p)) = Barrier /\ BarrierOf(p).kind = "barrier"
         /\ \A k \in Loops, r \in Priorities :
              m_queue_map'[k][r] = IF k = l /\ r = Barrier
                                   THEN Append(m_queue_map[k][r], BarrierOf(p))
                                   ELSE m_queue_map[k][r]
         /\ UNCHANGED <<ran, running>>
<1>1. BarrierOf(p) \in Events /\ BarrierOf(p).kind = "barrier"
  BY DEF Events, BarrierOf
<1>2. PriorityOfEvent(BarrierOf(p)) = Barrier /\ Barrier \in Priorities
  BY <1>1, PrioritiesOfEvents
<1>3. UNCHANGED <<ran, running>> /\ m_queue_map' = Enqueued(m_queue_map, l, BarrierOf(p))
  BY DEF BarrierPush
<1>4. \A k \in Loops, r \in Priorities :
        m_queue_map'[k][r] = IF k = l /\ r = PriorityOfEvent(BarrierOf(p))
                             THEN Append(m_queue_map[k][r], BarrierOf(p))
                             ELSE m_queue_map[k][r]
  <2>1. m_queue_map \in [Loops -> [Priorities -> Seq(Events)]]
    BY DEF Types
  <2> DEFINE b == BarrierOf(p)
  <2> HIDE DEF b
  <2>2. \A k \in Loops, r \in Priorities :
          Enqueued(m_queue_map, l, b)[k][r] =
            IF k = l /\ r = PriorityOfEvent(b) THEN Append(m_queue_map[k][r], b)
                                               ELSE m_queue_map[k][r]
    <3>1. b \in Events
      BY <1>1 DEF b
    <3> QED BY <2>1, <3>1, EnqueuedIs, ZenonT(40)
  <2> QED BY <1>3, <2>2 DEF b
<1> QED BY <1>1, <1>2, <1>3, <1>4

LEMMA DiscardIs ==
  ASSUME Types, NEW s \in Subscribers, DtorDiscard(s)
  PROVE  /\ \A k \in Loops, r \in Priorities :
              m_queue_map'[k][r] = IF k = LoopOf[s]
                                   THEN Without(m_queue_map[k][r], EventsFor(s, m_queue_map[k][r]))
                                   ELSE m_queue_map[k][r]
         /\ \A k \in Loops, r \in Priorities : \A x :
              In(x, m_queue_map'[k][r]) <=>
                In(x, m_queue_map[k][r]) /\ (k = LoopOf[s] => ~(x.kind = "call" /\ x.sub = s))
         /\ UNCHANGED <<ran, running>>
<1>1. LoopOf[s] \in Loops
  BY SubscribersHaveALoop
<1>2. UNCHANGED <<ran, running>> /\ m_queue_map' = discard_events(LoopOf[s], s)
  BY DEF DtorDiscard
<1>3. \A k \in Loops, r \in Priorities :
        m_queue_map'[k][r] = IF k = LoopOf[s]
                             THEN Without(m_queue_map[k][r], EventsFor(s, m_queue_map[k][r]))
                             ELSE m_queue_map[k][r]
  BY <1>1, <1>2, DiscardedIs
<1>4. \A k \in Loops, r \in Priorities : \A x :
        x \in EventsFor(s, m_queue_map[k][r]) <=>
          In(x, m_queue_map[k][r]) /\ x.kind = "call" /\ x.sub = s
  BY DEF EventsFor, In
<1>5. \A k \in Loops, r \in Priorities : m_queue_map[k][r] \in Seq(Events)
  BY DEF Types
<1>6. \A k \in Loops, r \in Priorities : \A x :
        In(x, m_queue_map'[k][r]) <=>
          In(x, m_queue_map[k][r]) /\ (k = LoopOf[s] => ~(x.kind = "call" /\ x.sub = s))
  BY <1>3, <1>4, <1>5, InWithout
<1> QED BY <1>2, <1>3, <1>6

(* What is new in a list. *)
LEMMA NewEvents ==
  ASSUME Types, Holding, [Next]_vars, NEW k \in Loops, NEW r \in Priorities, NEW x,
         In(x, m_queue_map'[k][r]), ~In(x, m_queue_map[k][r])
  PROVE  /\ PriorityOfEvent(x) = r
         /\ Immediately(x) => k = LoopOf[x.sub] /\ \E p \in Producers : NewCall(p, x)
         /\ x.kind = "barrier" => \E p \in Producers : BarrierPush(p, k) /\ x = BarrierOf(p)
<1>0. m_queue_map[k][r] \in Seq(Events)
  BY DEF Types
<1>1. CASE Quiet
  <2>1. PICK e \in Events : /\ m_queue_map'[k][r] = Append(m_queue_map[k][r], e)
                            /\ PriorityOfEvent(e) = r /\ ~Immediately(e) /\ e.kind # "barrier"
    BY <1>1 DEF Quiet
  <2>2. x = e
    BY <1>0, <2>1, InAppend
  <2> QED BY <2>1, <2>2
<1>2. ASSUME NEW p \in Producers, NEW e \in Calls, NewCall(p, e)
      PROVE  /\ PriorityOfEvent(x) = r
             /\ Immediately(x) => k = LoopOf[x.sub] /\ NewCall(p, x)
             /\ x.kind = "call"
  <2>1. /\ e \in Events /\ k = LoopOf[e.sub] /\ r = PriorityOf[e.sub]
        /\ m_queue_map'[k][r] = Append(m_queue_map[k][r], e)
    BY <1>2, NewCallIs, ZenonT(40)
  <2>2. x = e
    <3> DEFINE q == m_queue_map[k][r]
    <3>1. q \in Seq(Events) /\ In(x, Append(q, e)) /\ ~In(x, q)
      BY <1>0, <2>1
    <3>2. e \in Events
      BY <2>1
    <3> HIDE DEF q
    <3> QED BY <3>1, <3>2, InAppend
  <2> QED BY <1>2, <2>1, <2>2, PrioritiesOfEvents, CallsAreEvents
<1>3. ASSUME NEW p \in Producers, NEW l \in Loops, BarrierPush(p, l)
      PROVE  /\ PriorityOfEvent(x) = r /\ ~Immediately(x)
             /\ x = BarrierOf(p) /\ k = l
  <2>1. /\ BarrierOf(p) \in Events /\ k = l /\ r = Barrier
        /\ m_queue_map'[k][r] = Append(m_queue_map[k][r], BarrierOf(p))
    BY <1>3, BarrierPushIs, ZenonT(40)
  <2>2. x = BarrierOf(p)
    BY <1>0, <2>1, InAppend
  <2> QED BY <1>3, <2>1, <2>2, BarrierPushIs DEF Immediately
<1>4. ASSUME NEW s \in Subscribers, DtorDiscard(s) PROVE FALSE
  BY <1>4, DiscardIs
<1>5. ASSUME NEW l \in Loops, NEW q \in Priorities, NEW e \in Events, Popped(l, q, e)
      PROVE  FALSE
  BY <1>0, <1>5, InTail DEF Popped
<1> QED BY <1>1, <1>2, <1>3, <1>4, <1>5, QueueSteps DEF Immediately

(* What has run lately. *)
LEMMA NewRuns ==
  ASSUME Types, Holding, [Next]_vars, NEW s \in Subscribers, ran'[s] # ran[s]
  PROVE  \E l \in Loops, r \in Priorities, e \in Calls :
           /\ Popped(l, r, e) /\ e.sub = s /\ ran'[s] = Append(ran[s], e)
           /\ In(e, m_queue_map[l][r])
<1>1. Quiet => FALSE
  BY DEF Quiet
<1>2. ASSUME NEW p \in Producers, NEW e \in Calls, NewCall(p, e) PROVE FALSE
  BY <1>2, NewCallIs
<1>3. ASSUME NEW p \in Producers, NEW l \in Loops, BarrierPush(p, l) PROVE FALSE
  BY <1>3, BarrierPushIs
<1>4. ASSUME NEW t \in Subscribers, DtorDiscard(t) PROVE FALSE
  BY <1>4, DiscardIs
<1>5. PICK l \in Loops, r \in Priorities, e \in Events : Popped(l, r, e)
  BY <1>1, <1>2, <1>3, <1>4, QueueSteps
<1>6. e.kind = "call" /\ e.sub = s /\ ran'[s] = Append(ran[s], e)
  BY <1>5 DEF Popped
<1>7. In(e, m_queue_map[l][r])
  BY <1>5, InTail DEF Popped, Types
<1> QED BY <1>5, <1>6, <1>7, EventShapes

LEMMA PlacedStep ==
  ASSUME Types, Holding, Placed, [Next]_vars
  PROVE  Placed'
<1>1. ASSUME NEW l \in Loops, NEW p \in Priorities, NEW e \in Events, In(e, m_queue_map'[l][p])
      PROVE  PriorityOfEvent(e) = p /\ (Immediately(e) => LoopOf[e.sub] = l)
  BY <1>1, NewEvents DEF Placed
<1>2. ASSUME NEW s \in Subscribers, NEW e \in Calls, In(e, ran'[s])
      PROVE  e.sub = s
  <2>1. CASE ran'[s] = ran[s]
    BY <1>2, <2>1 DEF Placed
  <2>2. CASE ran'[s] # ran[s]
    <3>1. PICK d \in Calls : d.sub = s /\ ran'[s] = Append(ran[s], d)
      BY <2>2, NewRuns
    <3>2. In(e, ran[s]) \/ e = d
      BY <1>2, <3>1, InAppend DEF Types
    <3> QED BY <3>1, <3>2 DEF Placed
  <2> QED BY <2>1, <2>2
<1> QED BY <1>1, <1>2 DEF Placed
-----------------------------------------------------------------------------
(* A thread that waits has one barrier somewhere, and it is the only one that has. *)
BarrierAt(p, l) == In(BarrierOf(p), m_queue_map[l][Barrier]) \/ running[l] = BarrierOf(p)

Barriers ==
  /\ \A l \in Loops : Once(m_queue_map[l][Barrier])
  /\ \A p \in Producers, l \in Loops :
       /\ BarrierAt(p, l) => pc[p] = "barrier"
       /\ In(BarrierOf(p), m_queue_map[l][Barrier]) => running[l] # BarrierOf(p)
       /\ \A k \in Loops : BarrierAt(p, l) /\ BarrierAt(p, k) => k = l

LEMMA BarrierShapes ==
  ASSUME NEW p \in Producers
  PROVE  /\ BarrierOf(p) \in Events /\ BarrierOf(p).kind = "barrier" /\ BarrierOf(p) # None
         /\ PriorityOfEvent(BarrierOf(p)) = Barrier /\ Barrier \in Priorities
         /\ \A q : BarrierOf(q) = BarrierOf(p) => q = p
<1>1. BarrierOf(p) \in Events /\ BarrierOf(p).kind = "barrier"
  BY DEF Events, BarrierOf
<1>2. \A q : BarrierOf(q).from = q
  BY DEF BarrierOf
<1> QED BY <1>1, <1>2, PrioritiesOfEvents, EventShapes

LEMMA NewBarriers ==
  ASSUME Types, Holding, Placed, [Next]_vars, NEW p \in Producers, NEW l \in Loops
  PROVE  /\ In(BarrierOf(p), m_queue_map'[l][Barrier]) =>
              In(BarrierOf(p), m_queue_map[l][Barrier]) \/ BarrierPush(p, l)
         /\ running'[l] = BarrierOf(p) =>
              \/ running[l] = BarrierOf(p)
              \/ /\ In(BarrierOf(p), m_queue_map[l][Barrier])
                 /\ Popped(l, Barrier, BarrierOf(p))
<1> DEFINE b == BarrierOf(p)
<1>1. b \in Events /\ b.kind = "barrier" /\ b # None /\ Barrier \in Priorities
      /\ PriorityOfEvent(b) = Barrier
  BY BarrierShapes
<1>2. \A q \in Producers : BarrierPush(q, l) /\ b = BarrierOf(q) => BarrierPush(p, l)
  BY BarrierShapes
<1> HIDE DEF b
<1>3. In(b, m_queue_map'[l][Barrier]) => In(b, m_queue_map[l][Barrier]) \/ BarrierPush(p, l)
  BY <1>1, <1>2, NewEvents
<1>4. ASSUME running'[l] = b
      PROVE  running[l] = b \/ (In(b, m_queue_map[l][Barrier]) /\ Popped(l, Barrier, b))
  <2>1. ASSUME NEW k \in Loops, LoopPop(k)
        PROVE  running[l] = b \/ (In(b, m_queue_map[l][Barrier]) /\ Popped(l, Barrier, b))
    <3>1. PICK r \in Priorities, e \in Events : Popped(k, r, e)
      BY <2>1, PopSteps
    <3>0. running' = [running EXCEPT ![k] = e] /\ running \in [Loops -> Events \cup {None}]
      BY <3>1 DEF Popped, Types
    <3>2. CASE k # l
      BY <1>4, <3>0, <3>2
    <3>3. CASE k = l
      <4>1. e = b
        BY <1>4, <3>0, <3>3
      <4>2. In(b, m_queue_map[l][r])
        BY <3>1, <3>3, <4>1, InTail DEF Popped, Types
      <4>3. r = Barrier
        BY <1>1, <4>2 DEF Placed
      <4> QED BY <3>1, <3>3, <4>1, <4>2, <4>3
    <3> QED BY <3>2, <3>3
  <2>2. ASSUME NEW k \in Loops, LoopReturn(k) PROVE running[l] = b
    BY <1>1, <1>4, <2>2 DEF LoopReturn, Types
  <2>3. UNCHANGED running => running[l] = b
    BY <1>4
  <2>4. ASSUME NEW q \in Producers,
               PushLock(q) \/ PushPromote(q) \/ PushConsume(q) \/ PushRelease(q) \/ PushUnlock(q)
               \/ \E k \in Loops : BarrierPush(q, k)
        PROVE  UNCHANGED running
    BY <2>4 DEF PushLock, PushPromote, PushConsume, PushRelease, PushUnlock, BarrierPush
  <2>5. ASSUME NEW s \in Subscribers, DtorClear(s) \/ DtorUnsubscribe(s) \/ DtorDiscard(s)
        PROVE  UNCHANGED running
    BY <2>5 DEF DtorClear, DtorUnsubscribe, DtorDiscard
  <2>6. ASSUME NEW e \in m_delayed_events, SchedulerFire(e) PROVE UNCHANGED running
    BY <2>6 DEF SchedulerFire
  <2> QED BY <2>1, <2>2, <2>3, <2>4, <2>5, <2>6 DEF Next, vars
<1> QED BY <1>3, <1>4 DEF b

(* Only the return of its barrier releases a thread. *)
LEMMA WaitsForItsBarrier ==
  ASSUME Types, [Next]_vars, NEW p \in Producers, pc[p] = "barrier", pc'[p] # "barrier"
  PROVE  \E l \in Loops : LoopReturn(l) /\ running[l] = BarrierOf(p)
<1>1. ASSUME NEW l \in Loops, LoopReturn(l) PROVE running[l] = BarrierOf(p)
  <2>1. running[l] \in Events /\ pc' = Released(running[l])
    BY <1>1 DEF LoopReturn, Types
  <2>2. running[l].kind = "barrier" /\ running[l].from = p
    BY <2>1 DEF Released, Types
  <2> QED BY <2>1, <2>2, EventShapes
<1>2. ASSUME NEW q \in Producers,
             PushLock(q) \/ PushPromote(q) \/ PushConsume(q) \/ PushRelease(q) \/ PushUnlock(q)
             \/ \E l \in Loops : BarrierPush(q, l)
      PROVE  FALSE
  <2>1. pc[q] # "barrier" /\ q # p
    BY <1>2 DEF PushLock, PushPromote, PushConsume, PushRelease, PushUnlock, BarrierPush
  <2>2. pc'[p] = pc[p]
    BY <1>2, <2>1 DEF PushLock, PushPromote, PushConsume, PushRelease, PushUnlock, BarrierPush,
       Types
  <2> QED BY <2>2
<1>3. UNCHANGED pc => FALSE
  OBVIOUS
<1> QED
  BY <1>1, <1>2, <1>3 DEF Next, vars, pushVars, DtorClear, DtorUnsubscribe, DtorDiscard,
     LoopPop, SchedulerFire

LEMMA BarriersStep ==
  ASSUME Types, Holding, Placed, Barriers, [Next]_vars
  PROVE  Barriers'
<1>1. ASSUME NEW l \in Loops PROVE Once(m_queue_map'[l][Barrier])
  <2> DEFINE q == m_queue_map[l][Barrier]
  <2>0. Barrier \in Priorities /\ q \in Seq(Events) /\ Once(q)
    BY DEF Types, Barriers, Priorities, High, Barrier
  <2>1. CASE Quiet
    <3>1. CASE m_queue_map'[l][Barrier] = q
      BY <2>0, <3>1
    <3>2. CASE m_queue_map'[l][Barrier] # q
      <4>1. PICK e \in Events : PriorityOfEvent(e) = Barrier /\ e.kind # "barrier"
        BY <2>0, <2>1, <3>2 DEF Quiet
      <4> QED BY <4>1, PrioritiesOfEvents
    <3> QED BY <3>1, <3>2
  <2>2. ASSUME NEW p \in Producers, NEW e \in Calls, NewCall(p, e)
        PROVE  m_queue_map'[l][Barrier] = q
    <3>1. e.sub \in Subscribers /\ PriorityOf[e.sub] # Barrier
      BY CallsAreEvents, SubscribersHaveAPriority DEF High, Low, Barrier
    <3> QED BY <2>0, <2>2, <3>1, NewCallIs
  <2>3. ASSUME NEW p \in Producers, NEW k \in Loops, BarrierPush(p, k)
        PROVE  Once(m_queue_map'[l][Barrier])
    <3>1. ~In(BarrierOf(p), q) /\ BarrierOf(p) \in Events
      BY <2>3, BarrierPushIs DEF BarrierPush, Barriers, BarrierAt
    <3>2. m_queue_map'[l][Barrier] = q \/ m_queue_map'[l][Barrier] = Append(q, BarrierOf(p))
      BY <2>0, <2>3, BarrierPushIs
    <3> QED BY <2>0, <3>1, <3>2, OnceAppend
  <2>4. ASSUME NEW s \in Subscribers, DtorDiscard(s)
        PROVE  Once(m_queue_map'[l][Barrier])
    <3>1. m_queue_map'[l][Barrier] = q \/ m_queue_map'[l][Barrier] = Without(q, EventsFor(s, q))
      BY <2>0, <2>4, DiscardIs
    <3> QED BY <2>0, <3>1, OnceWithout
  <2>5. ASSUME NEW k \in Loops, NEW r \in Priorities, NEW e \in Events, Popped(k, r, e)
        PROVE  Once(m_queue_map'[l][Barrier])
    <3>1. m_queue_map'[l][Barrier] = q \/ (q # <<>> /\ m_queue_map'[l][Barrier] = Tail(q))
      BY <2>0, <2>5 DEF Popped
    <3> QED BY <2>0, <3>1, OnceTail
  <2> QED BY <2>0, <2>1, <2>2, <2>3, <2>4, <2>5, QueueSteps
<1>2. ASSUME NEW p \in Producers, NEW l \in Loops, BarrierAt(p, l)'
      PROVE  BarrierAt(p, l) \/ BarrierPush(p, l)
  BY <1>2, NewBarriers DEF BarrierAt
<1>3. ASSUME NEW p \in Producers, NEW l \in Loops, LoopReturn(l), running[l] = BarrierOf(p),
             NEW k \in Loops, BarrierAt(p, k)'
      PROVE  FALSE
  <2>1. pc[p] = "barrier"
    BY <1>3 DEF Barriers, BarrierAt
  <2>2. BarrierAt(p, k)
    BY <1>2, <1>3, <2>1 DEF BarrierPush
  <2>3. k = l
    BY <1>3, <2>2 DEF Barriers, BarrierAt
  <2>4. ~In(BarrierOf(p), m_queue_map[l][Barrier])
    BY <1>3 DEF Barriers
  <2>5. running'[l] = None
    BY <1>3 DEF LoopReturn, Types
  <2>6. In(BarrierOf(p), m_queue_map'[l][Barrier])
    BY <1>3, <2>3, <2>5, BarrierShapes DEF BarrierAt
  <2> QED BY <2>1, <2>4, <2>6, NewBarriers DEF BarrierPush
<1>4. ASSUME NEW p \in Producers, NEW l \in Loops, BarrierAt(p, l)'
      PROVE  pc'[p] = "barrier"
  <2>1. CASE BarrierPush(p, l)
    BY <2>1 DEF BarrierPush, Types
  <2>2. CASE BarrierAt(p, l)
    <3>1. pc[p] = "barrier"
      BY <2>2 DEF Barriers
    <3> QED BY <1>3, <1>4, <3>1, WaitsForItsBarrier
  <2> QED BY <1>2, <1>4, <2>1, <2>2
<1>5. ASSUME NEW p \in Producers, NEW l \in Loops,
             In(BarrierOf(p), m_queue_map'[l][Barrier]), running'[l] = BarrierOf(p)
      PROVE  FALSE
  <2>1. pc[p] = "barrier"
    BY <1>5, NewBarriers DEF Barriers, BarrierAt
  <2>2. In(BarrierOf(p), m_queue_map[l][Barrier])
    BY <1>5, <2>1, NewBarriers DEF BarrierPush
  <2>3. Popped(l, Barrier, BarrierOf(p))
    BY <1>5, <2>2, NewBarriers DEF Barriers
  <2>4. m_queue_map[l][Barrier] # <<>> /\ BarrierOf(p) = Head(m_queue_map[l][Barrier])
        /\ m_queue_map'[l][Barrier] = Tail(m_queue_map[l][Barrier])
    BY <2>3, BarrierShapes DEF Popped
  <2>5. m_queue_map[l][Barrier] \in Seq(Events) /\ Once(m_queue_map[l][Barrier])
    BY BarrierShapes DEF Types, Barriers
  <2> QED BY <1>5, <2>4, <2>5, OnceTail
<1>6. ASSUME NEW p \in Producers, NEW l \in Loops, NEW k \in Loops,
             BarrierAt(p, l)', BarrierAt(p, k)'
      PROVE  k = l
  <2>1. CASE pc[p] = "barrier"
    BY <1>2, <1>6, <2>1 DEF Barriers, BarrierPush
  <2>2. CASE pc[p] # "barrier"
    <3>1. BarrierPush(p, l) /\ BarrierPush(p, k)
      BY <1>2, <1>6, <2>2 DEF Barriers
    <3>2. ~In(BarrierOf(p), m_queue_map[k][Barrier]) /\ running[k] # BarrierOf(p)
      BY <2>2 DEF Barriers, BarrierAt
    <3>3. In(BarrierOf(p), m_queue_map'[k][Barrier])
      BY <1>6, <3>1, <3>2 DEF BarrierAt, BarrierPush
    <3>4. k # l => m_queue_map'[k][Barrier] = m_queue_map[k][Barrier]
      BY <3>1, BarrierPushIs
    <3> QED BY <3>2, <3>3, <3>4
  <2> QED BY <2>1, <2>2
<1> QED BY <1>1, <1>4, <1>5, <1>6 DEF Barriers
LEMMA HoldingStep ==
  ASSUME Types, Holding, Barriers, [Next]_vars
  PROVE  Holding'
<1> USE DEF Pushing
<1>1. ASSUME NEW p \in Producers, PushLock(p) PROVE Holding'
  <2>1. \A q \in Producers : pc[q] \notin Pushing
    BY <1>1, LockIsFree DEF PushLock
  <2>2. /\ lock' = p /\ todo' = [todo EXCEPT ![p] = m_subscriptions]
        /\ pc' = [pc EXCEPT ![p] = "iterate"] /\ UNCHANGED <<m_subscriptions, holders, phase>>
    BY <1>1 DEF PushLock
  <2> QED BY <2>1, <2>2 DEF Holding, Types
<1>2. ASSUME NEW p \in Producers, PushPromote(p) PROVE Holding'
  <2> DEFINE s == Head(todo[p])
  <2>1. /\ s \in Subscribers /\ Once(Tail(todo[p])) /\ todo[p] # <<>> /\ pc[p] = "iterate"
        /\ UNCHANGED <<m_subscriptions, lock, phase>> /\ lock = p
    BY <1>2, InTail, OnceTail DEF PushPromote, Types, Holding
  <2>2. \/ holders[s] = {} /\ todo' = [todo EXCEPT ![p] = Tail(@)] /\ UNCHANGED <<pc, holders>>
        \/ /\ holders' = [holders EXCEPT ![s] = @ \cup {p}]
           /\ pc' = [pc EXCEPT ![p] = "consume"] /\ UNCHANGED todo
    BY <1>2 DEF PushPromote
  <2>3. CASE holders[s] = {} /\ todo' = [todo EXCEPT ![p] = Tail(@)] /\ UNCHANGED <<pc, holders>>
    BY <2>1, <2>3 DEF Holding, Types
  <2>4. CASE /\ holders' = [holders EXCEPT ![s] = @ \cup {p}]
             /\ pc' = [pc EXCEPT ![p] = "consume"] /\ UNCHANGED todo
    <3>1. \A t \in Subscribers : holders'[t] = IF t = s THEN holders[t] \cup {p} ELSE holders[t]
      BY <2>1, <2>4 DEF Types
    <3>2. \A q \in Producers : pc'[q] = IF q = p THEN "consume" ELSE pc[q]
      BY <2>4 DEF Types
    <3>3. Owner # p
      BY ThreadsAreProducers
    <3> HIDE DEF s
    <3>4. ASSUME NEW q \in Producers
          PROVE  /\ Once(todo'[q])
                 /\ pc'[q] \in {"consume", "release", "stuck"} => todo'[q] # <<>>
                 /\ pc'[q] \in {"consume", "release"} => q \in holders'[Head(todo'[q])]
                 /\ pc'[q] \in Pushing => lock' = q
      BY <2>1, <2>4, <3>1, <3>2 DEF Holding, s
    <3>5. ASSUME NEW t \in Subscribers
          PROVE  /\ phase'[t] = "alive" => In(t, m_subscriptions')
                 /\ Owner \in holders'[t] <=> phase'[t] = "alive"
                 /\ \A q \in Producers : q \in holders'[t] =>
                      pc'[q] \in {"consume", "release"} /\ t = Head(todo'[q])
      BY <2>1, <2>4, <3>1, <3>2, <3>3 DEF Holding, s
    <3> QED BY <2>1, <3>4, <3>5 DEF Holding
  <2> QED BY <2>2, <2>3, <2>4
<1>3. ASSUME NEW p \in Producers, PushConsume(p) PROVE Holding'
  <2>1. /\ pc[p] = "consume" /\ pc' = [pc EXCEPT ![p] = "release"]
        /\ UNCHANGED <<m_subscriptions, lock, holders, phase, todo>>
    BY <1>3 DEF PushConsume, chVars
  <2> QED BY <2>1 DEF Holding, Types
<1>4. ASSUME NEW p \in Producers, PushRelease(p) PROVE Holding'
  <2> DEFINE s == Head(todo[p])
  <2>1. /\ todo[p] # <<>> /\ pc[p] = "release" /\ lock = p /\ UNCHANGED <<m_subscriptions, lock, phase>>
        /\ s \in Subscribers /\ Once(Tail(todo[p]))
    BY <1>4, InTail, OnceTail DEF PushRelease, Types, Holding
  <2>2. holders' = [holders EXCEPT ![s] = @ \ {p}]
    BY <1>4 DEF PushRelease
  <2>3. \/ pc' = [pc EXCEPT ![p] = "stuck"] /\ UNCHANGED todo
        \/ pc' = [pc EXCEPT ![p] = "iterate"] /\ todo' = [todo EXCEPT ![p] = Tail(@)]
    BY <1>4 DEF PushRelease
  <2>4. \A t \in Subscribers : holders'[t] = IF t = s THEN holders[t] \ {p} ELSE holders[t]
    BY <2>1, <2>2 DEF Types
  <2>5. Owner # p
    BY ThreadsAreProducers
  <2>6. \A q \in Producers : q # p => pc'[q] = pc[q] /\ todo'[q] = todo[q] /\ pc[q] \notin Pushing
    <3>1. \A q \in Producers : q # p => pc'[q] = pc[q] /\ todo'[q] = todo[q]
      BY <2>3 DEF Types
    <3>2. \A q \in Producers : q # p => pc[q] \notin Pushing
      BY <2>1 DEF Holding
    <3> QED BY <3>1, <3>2
  <2>7. pc'[p] \in {"stuck", "iterate"} /\ Once(todo'[p]) /\ (pc'[p] = "stuck" => todo'[p] # <<>>)
    <3>1. Once(todo[p])
      BY DEF Holding
    <3>2. CASE pc' = [pc EXCEPT ![p] = "stuck"] /\ UNCHANGED todo
      BY <2>1, <3>1, <3>2 DEF Types
    <3>3. CASE pc' = [pc EXCEPT ![p] = "iterate"] /\ todo' = [todo EXCEPT ![p] = Tail(@)]
      BY <2>1, <3>3 DEF Types
    <3> QED BY <2>3, <3>2, <3>3
  <2> HIDE DEF s
  <2>8. ASSUME NEW t \in Subscribers
        PROVE  /\ phase'[t] = "alive" => In(t, m_subscriptions')
               /\ Owner \in holders'[t] <=> phase'[t] = "alive"
               /\ \A q \in Producers : q \notin holders'[t]
    <3>1. phase[t] = "alive" => In(t, m_subscriptions)
      BY DEF Holding
    <3>2. Owner \in holders[t] <=> phase[t] = "alive"
      BY DEF Holding
    <3>3. \A q \in Producers : q # p => q \notin holders[t]
      BY <2>6 DEF Holding
    <3>4. p \in holders[t] => t = s
      BY DEF Holding, s
    <3> QED BY <2>1, <2>4, <2>5, <3>1, <3>2, <3>3, <3>4
  <2> QED BY <2>1, <2>6, <2>7, <2>8 DEF Holding
<1>5. ASSUME NEW p \in Producers, PushUnlock(p) PROVE Holding'
  <2>1. /\ pc[p] = "iterate" /\ pc' = [pc EXCEPT ![p] = "idle"]
        /\ UNCHANGED <<m_subscriptions, holders, phase, todo>>
    BY <1>5 DEF PushUnlock
  <2>2. \A q \in Producers : q # p => pc[q] \notin Pushing
    BY <2>1 DEF Holding
  <2> QED BY <2>1, <2>2 DEF Holding, Types
<1>6. ASSUME NEW p \in Producers, NEW l \in Loops, BarrierPush(p, l) PROVE Holding'
  <2>1. /\ pc[p] = "idle" /\ pc' = [pc EXCEPT ![p] = "barrier"]
        /\ UNCHANGED <<m_subscriptions, lock, holders, phase, todo>>
    BY <1>6 DEF BarrierPush, chVars
  <2> QED BY <2>1 DEF Holding, Types
<1>7. ASSUME NEW s \in Subscribers, DtorClear(s) PROVE Holding'
  <2>1. /\ holders' = [holders EXCEPT ![s] = @ \ {Owner}] /\ UNCHANGED <<m_subscriptions, lock, pc, todo>>
        /\ phase' = [phase EXCEPT ![s] = AfterClear(s)] /\ AfterClear(s) # "alive"
    BY <1>7 DEF DtorClear, pushVars, AfterClear
  <2>2. \A q \in Producers : q # Owner
    BY ThreadsAreProducers
  <2>3. \A t \in Subscribers : /\ holders'[t] = IF t = s THEN holders[t] \ {Owner} ELSE holders[t]
                               /\ phase'[t] = IF t = s THEN AfterClear(s) ELSE phase[t]
    BY <2>1 DEF Types
  <2>4. ASSUME NEW p \in Producers
        PROVE  /\ pc[p] \in {"consume", "release"} => p \in holders'[Head(todo[p])]
    <3>1. pc[p] \in {"consume", "release"} => Head(todo[p]) \in Subscribers
      BY InTail DEF Holding, Types
    <3> QED BY <2>2, <2>3, <3>1 DEF Holding
  <2> QED BY <2>1, <2>2, <2>3, <2>4 DEF Holding
<1>8. ASSUME NEW s \in Subscribers, DtorUnsubscribe(s) PROVE Holding'
  <2>1. /\ phase[s] = "unsubscribe" /\ phase' = [phase EXCEPT ![s] = "discard"]
        /\ m_subscriptions' = Without(m_subscriptions, {s})
        /\ UNCHANGED <<lock, pc, todo, holders>>
    BY <1>8 DEF DtorUnsubscribe, pushVars
  <2>2. Once(m_subscriptions') /\ \A t \in Subscribers : t # s /\ In(t, m_subscriptions) => In(t, m_subscriptions')
    BY <2>1, OnceWithout, InWithout DEF Types, Holding
  <2>3. \A t \in Subscribers : phase'[t] = IF t = s THEN "discard" ELSE phase[t]
    BY <2>1 DEF Types
  <2>4. ASSUME NEW t \in Subscribers
        PROVE  /\ phase'[t] = "alive" => In(t, m_subscriptions')
               /\ Owner \in holders[t] <=> phase'[t] = "alive"
    <3>1. phase[t] = "alive" => In(t, m_subscriptions)
      BY DEF Holding
    <3>2. Owner \in holders[t] <=> phase[t] = "alive"
      BY DEF Holding
    <3>3. phase'[t] = "alive" <=> phase[t] = "alive"
      BY <2>1, <2>3
    <3>4. phase[t] = "alive" => t # s
      BY <2>1
    <3> QED BY <2>2, <3>1, <3>2, <3>3, <3>4
  <2> QED BY <2>1, <2>2, <2>4 DEF Holding
<1>9. ASSUME NEW s \in Subscribers, DtorDiscard(s) PROVE Holding'
  <2>1. /\ phase[s] = "discard" /\ phase' = [phase EXCEPT ![s] = "destroyed"]
        /\ UNCHANGED <<m_subscriptions, lock, pc, todo, holders>>
    BY <1>9 DEF DtorDiscard, pushVars, chVars
  <2> QED BY <2>1 DEF Holding, Types
<1>10. ASSUME NEW l \in Loops, LoopReturn(l) PROVE Holding'
  <2>1. /\ pc' = Released(running[l]) /\ UNCHANGED <<m_subscriptions, lock, holders, phase, todo>>
        /\ running[l] \in Events
    BY <1>10 DEF LoopReturn, chVars, Types
  <2>2. CASE running[l].kind = "barrier"
    <3>1. running[l].from \in Producers /\ running[l] = BarrierOf(running[l].from)
      BY <2>1, <2>2, EventShapes
    <3>2. pc[running[l].from] = "barrier" /\ pc' = [pc EXCEPT ![running[l].from] = "idle"]
      BY <2>1, <2>2, <3>1 DEF Barriers, BarrierAt, Released
    <3> QED BY <2>1, <3>1, <3>2 DEF Holding, Types
  <2>3. CASE running[l].kind # "barrier"
    BY <2>1, <2>3 DEF Released, Holding
  <2> QED BY <2>2, <2>3
<1>11. UNCHANGED <<m_subscriptions, lock, pc, todo, holders, phase>> => Holding'
  BY DEF Holding
<1>12. ASSUME NEW l \in Loops, LoopPop(l) PROVE Holding'
  BY <1>11, <1>12 DEF LoopPop, chVars, pushVars
<1>13. ASSUME NEW e \in m_delayed_events, SchedulerFire(e) PROVE Holding'
  BY <1>11, <1>13 DEF SchedulerFire, chVars, pushVars
<1>14. CASE UNCHANGED vars
  BY <1>11, <1>14 DEF vars, chVars, pushVars
<1> QED
  BY <1>1, <1>2, <1>3, <1>4, <1>5, <1>6, <1>7, <1>8, <1>9, <1>10, <1>12, <1>13, <1>14 DEF Next
-----------------------------------------------------------------------------
(* The order of the pushes *)

(* A push reaches its subscribers one after the other: it misses only one that nobody
   holds any more. *)
LEMMA PendingSteps ==
  ASSUME Types, Holding, Barriers, [Next]_vars, NEW p \in Producers, NEW s \in Subscribers
  PROVE  \/ PushLock(p)
         \/ /\ pushed'[p] = pushed[p] /\ delayedPushes'[p] = delayedPushes[p]
            /\ Pending(p, s)' => Pending(p, s)
            /\ Pending(p, s) /\ ~Pending(p, s)' =>
                 holders[s] = {} \/ (PushConsume(p) /\ s = Head(todo[p]))
<1> DEFINE Goal == \/ PushLock(p)
                   \/ /\ pushed'[p] = pushed[p] /\ delayedPushes'[p] = delayedPushes[p]
                      /\ Pending(p, s)' => Pending(p, s)
                      /\ Pending(p, s) /\ ~Pending(p, s)' =>
                           holders[s] = {} \/ (PushConsume(p) /\ s = Head(todo[p]))
<1>1. ASSUME pc'[p] = pc[p], todo'[p] = todo[p], pushed'[p] = pushed[p],
             delayedPushes'[p] = delayedPushes[p]
      PROVE  Goal
  BY <1>1 DEF Pending
<1>2. ASSUME NEW q \in Producers, q # p, PushLock(q) PROVE Goal
  BY <1>1, <1>2 DEF PushLock, Types
<1>3. ASSUME NEW q \in Producers, PushPromote(q) PROVE Goal
  <2>1. UNCHANGED <<pushed, delayedPushes>>
    BY <1>3 DEF PushPromote
  <2>2. CASE q # p
    <3>1. pc'[p] = pc[p] /\ todo'[p] = todo[p]
      BY <1>3, <2>2 DEF PushPromote, Types
    <3> QED BY <1>1, <2>1, <3>1
  <2>3. CASE q = p
    <3>1. /\ pc[p] = "iterate" /\ todo[p] # <<>>
          /\ \A t : In(t, todo[p]) <=> t = Head(todo[p]) \/ In(t, Tail(todo[p]))
      BY <1>3, <2>3, InTail DEF PushPromote, Types
    <3>2. \/ holders[Head(todo[p])] = {} /\ todo'[p] = Tail(todo[p]) /\ pc'[p] = pc[p]
          \/ pc'[p] = "consume" /\ todo'[p] = todo[p]
      BY <1>3, <2>3 DEF PushPromote, Types
    <3> QED BY <2>1, <3>1, <3>2 DEF Pending
  <2> QED BY <2>2, <2>3
<1>4. ASSUME NEW q \in Producers, PushConsume(q) PROVE Goal
  <2>1. UNCHANGED <<todo, pushed, delayedPushes>> /\ pc' = [pc EXCEPT ![q] = "release"]
        /\ pc[q] = "consume"
    BY <1>4 DEF PushConsume
  <2>2. CASE q # p
    BY <1>1, <2>1, <2>2 DEF Types
  <2>3. CASE q = p
    <3>1. \A t : In(t, todo[p]) <=> t = Head(todo[p]) \/ In(t, Tail(todo[p]))
      BY <2>1, <2>3, InTail DEF Holding, Types
    <3>2. pc'[p] = "release"
      BY <2>1, <2>3 DEF Types
    <3> QED BY <1>4, <2>1, <2>3, <3>1, <3>2 DEF Pending
  <2> QED BY <2>2, <2>3
<1>5. ASSUME NEW q \in Producers, PushRelease(q) PROVE Goal
  <2>1. UNCHANGED <<pushed, delayedPushes>> /\ pc[q] = "release"
    BY <1>5 DEF PushRelease
  <2>2. CASE q # p
    <3>1. pc'[p] = pc[p] /\ todo'[p] = todo[p]
      BY <1>5, <2>2 DEF PushRelease, Types
    <3> QED BY <1>1, <2>1, <3>1
  <2>3. CASE q = p
    <3>1. \/ pc'[p] = "stuck" /\ todo'[p] = todo[p]
          \/ pc'[p] = "iterate" /\ todo'[p] = Tail(todo[p])
      BY <1>5, <2>3 DEF PushRelease, Types
    <3> QED BY <2>1, <2>3, <3>1 DEF Pending
  <2> QED BY <2>2, <2>3
<1>6. ASSUME NEW q \in Producers, PushUnlock(q) PROVE Goal
  <2>1. UNCHANGED <<todo, pushed, delayedPushes>> /\ pc' = [pc EXCEPT ![q] = "idle"]
        /\ pc[q] = "iterate" /\ todo[q] = <<>>
    BY <1>6 DEF PushUnlock
  <2>2. CASE q # p
    BY <1>1, <2>1, <2>2 DEF Types
  <2>3. CASE q = p
    <3>1. ~In(s, todo[p]) /\ pc'[p] = "idle"
      BY <2>1, <2>3 DEF In, Types
    <3> QED BY <2>1, <2>3, <3>1 DEF Pending
  <2> QED BY <2>2, <2>3
<1>7. ASSUME pc[p] \in {"idle", "barrier"}, pc'[p] \in {"idle", "barrier"},
             UNCHANGED <<pushed, delayedPushes>>
      PROVE  Goal
  BY <1>7 DEF Pending
<1>8. ASSUME NEW q \in Producers, NEW l \in Loops, BarrierPush(q, l) PROVE Goal
  <2>1. UNCHANGED <<todo, pushed, delayedPushes>> /\ pc' = [pc EXCEPT ![q] = "barrier"]
        /\ pc[q] = "idle"
    BY <1>8 DEF BarrierPush
  <2> QED BY <1>1, <1>7, <2>1 DEF Types
<1>9. ASSUME NEW l \in Loops, LoopReturn(l) PROVE Goal
  <2>1. /\ pc' = Released(running[l]) /\ UNCHANGED <<todo, pushed, delayedPushes>>
        /\ running[l] \in Events
    BY <1>9 DEF LoopReturn, Types
  <2>2. CASE running[l].kind = "barrier"
    <3>1. running[l].from \in Producers /\ running[l] = BarrierOf(running[l].from)
      BY <2>1, <2>2, EventShapes
    <3>2. pc[running[l].from] = "barrier" /\ pc' = [pc EXCEPT ![running[l].from] = "idle"]
      BY <2>1, <2>2, <3>1 DEF Barriers, BarrierAt, Released
    <3> QED BY <1>1, <1>7, <2>1, <3>1, <3>2 DEF Types
  <2>3. CASE running[l].kind # "barrier"
    BY <1>1, <2>1, <2>3 DEF Released
  <2> QED BY <2>2, <2>3
<1>10. ASSUME UNCHANGED pushVars PROVE Goal
  BY <1>1, <1>10 DEF pushVars
<1>11. PushLock(p) => Goal
  OBVIOUS
<1> HIDE DEF Goal
<1>12. Goal
  BY <1>2, <1>3, <1>4, <1>5, <1>6, <1>8, <1>9, <1>10, <1>11
     DEF Next, vars, DtorClear, DtorUnsubscribe, DtorDiscard, LoopPop, SchedulerFire
<1> QED BY <1>12 DEF Goal

LEMMA NotAheadStays ==
  ASSUME Types, Holding, Barriers, [Next]_vars, NEW e \in Calls, NotAhead(e)
  PROVE  NotAhead(e)'
<1>1. e.sub \in Subscribers /\ e.from \in Producers /\ e.n \in Nat
  BY CallsAreEvents
<1>2. CASE PushLock(e.from)
  <2>1. pushed'[e.from] = pushed[e.from] + 1 /\ pushed[e.from] \in Nat
    BY <1>1, <1>2 DEF PushLock, Types
  <2> QED BY <1>1, <2>1 DEF NotAhead
<1>3. CASE ~PushLock(e.from)
  BY <1>1, <1>3, PendingSteps DEF NotAhead
<1> QED BY <1>2, <1>3

LEMMA BoundedStep ==
  ASSUME Types, Holding, Barriers, Placed, Bounded, [Next]_vars
  PROVE  Bounded'
<1> SUFFICES ASSUME NEW e \in Calls, Immediately(e),
                    In(e, Waiting(e.sub)') \/ In(e, ran'[e.sub])
             PROVE  NotAhead(e)'
  BY DEF Bounded
<1> DEFINE s == e.sub
           p == e.from
<1>0. /\ s \in Subscribers /\ LoopOf[s] \in Loops /\ PriorityOf[s] \in Priorities
      /\ e \in Events /\ p \in Producers /\ PriorityOfEvent(e) = PriorityOf[s]
  BY CallsAreEvents, SubscribersHaveALoop, PrioritiesOfEvents
<1>1. CASE In(e, Waiting(s)) \/ In(e, ran[s])
  BY <1>1, NotAheadStays DEF Bounded
<1>2. CASE In(e, Waiting(s)') /\ ~In(e, Waiting(s))
  <2>1. PICK q \in Producers : NewCall(q, e)
    BY <1>0, <1>2, NewEvents DEF Waiting
  <2>2. /\ q = p /\ s = Head(todo[p]) /\ pushed' = pushed /\ e.n = pushed[p]
        /\ todo' = todo /\ pc'[p] = "release" /\ todo[p] # <<>>
    <3>1. q = p /\ s = Head(todo[p]) /\ e.n = pushed[p] /\ PushConsume(p)
      BY <2>1 DEF NewCall
    <3>2. /\ pushed' = pushed /\ todo' = todo /\ pc' = [pc EXCEPT ![p] = "release"]
          /\ pc[p] = "consume"
      BY <3>1 DEF PushConsume
    <3>3. todo[p] # <<>>
      BY <1>0, <3>2 DEF Holding
    <3>4. pc'[p] = "release"
      BY <1>0, <3>2 DEF Types
    <3> QED BY <3>1, <3>2, <3>3, <3>4
  <2>3. ~In(s, Tail(todo[p]))
    BY <1>0, <2>2, OnceTail DEF Holding, Types
  <2>4. pushed[p] \in Nat
    BY <1>0 DEF Types
  <2> QED BY <2>2, <2>3, <2>4 DEF NotAhead, Pending
<1>3. CASE In(e, ran'[s]) /\ ~In(e, ran[s])
  <2>1. PICK l \in Loops, r \in Priorities, d \in Calls :
          ran'[s] = Append(ran[s], d) /\ In(d, m_queue_map[l][r])
    BY <1>0, <1>3, NewRuns
  <2>2. e = d
    BY <1>0, <1>3, <2>1, InAppend DEF Types
  <2>3. LoopOf[s] = l /\ PriorityOf[s] = r
    BY <1>0, <2>1, <2>2 DEF Placed
  <2> QED BY <1>1, <2>1, <2>2, <2>3 DEF Waiting
<1> QED BY <1>1, <1>2, <1>3

LEMMA InTheirOrderStep ==
  ASSUME Types, Holding, Placed, Bounded, InTheirOrder, [Next]_vars
  PROVE  InTheirOrder'
<1> SUFFICES ASSUME NEW s \in Subscribers PROVE Ordered(ran'[s], Waiting(s)')
  BY DEF InTheirOrder
<1> DEFINE k == LoopOf[s]
           q == PriorityOf[s]
           w == m_queue_map[k][q]
           v == m_queue_map'[k][q]
<1>1. k \in Loops /\ q \in Priorities /\ q # Barrier
  BY SubscribersHaveALoop, SubscribersHaveAPriority
     DEF Priorities, High, Low, Barrier
<1>2. w \in Seq(Events) /\ ran[s] \in Seq(Calls)
  BY <1>1 DEF Types
<1>3. ran[s] \in Seq(Events)
  <2>1. Calls \subseteq Events
    BY DEF Events
  <2> QED BY <1>2, <2>1
<1>4. Ordered(ran[s], w)
  BY DEF InTheirOrder, Waiting
<1>5. Waiting(s)' = v
  BY DEF Waiting
<1> HIDE DEF k, q, w, v
<1>6. CASE Quiet
  <2>1. ran' = ran /\ (v = w \/ \E e \in Events : v = Append(w, e) /\ ~Immediately(e))
    BY <1>1, <1>6 DEF Quiet, v, w
  <2> QED BY <1>2, <1>4, <1>5, <2>1, OrderedAppendOther
<1>7. ASSUME NEW p \in Producers, NEW e \in Calls, NewCall(p, e)
      PROVE  Ordered(ran'[s], v)
  <2>1. /\ e \in Events /\ ran' = ran /\ Immediately(e) /\ e.from = p /\ e.n = pushed[p]
        /\ e.sub = Head(todo[p]) /\ e.sub \in Subscribers /\ PushConsume(p)
    BY <1>7, NewCallIs DEF NewCall
  <2>2. v = w \/ (v = Append(w, e) /\ k = LoopOf[e.sub] /\ q = PriorityOf[e.sub])
    BY <1>1, <1>7, NewCallIs DEF v, w
  <2>3. Pending(p, e.sub)
    <3>1. pc[p] = "consume" /\ todo[p] # <<>>
      BY <2>1 DEF PushConsume, Holding
    <3>2. In(e.sub, todo[p])
      BY <2>1, <3>1, InTail DEF Types
    <3> QED BY <3>1, <3>2 DEF Pending
  <2>4. ASSUME NEW d \in Calls, In(d, Waiting(e.sub)) \/ In(d, ran[e.sub])
        PROVE  InOrder(d, e)
    <3> SUFFICES ASSUME Immediately(d), d.sub = e.sub, d.from = p PROVE d.n < pushed[p]
      BY <2>1 DEF InOrder
    <3>1. NotAhead(d)
      BY <2>4 DEF Bounded
    <3>2. d.n \in Nat /\ pushed[p] \in Nat
      BY CallsAreEvents DEF Types
    <3> QED BY <2>3, <3>1, <3>2 DEF NotAhead
  <2>5. CASE v = Append(w, e) /\ k = LoopOf[e.sub] /\ q = PriorityOf[e.sub]
    <3>1. w = Waiting(e.sub)
      BY <2>5 DEF w, Waiting
    <3>2. ASSUME NEW i \in 1 .. Len(ran[s]) PROVE InOrder(ran[s][i], e)
      <4>1. ran[s][i] \in Calls /\ In(ran[s][i], ran[s])
        BY <1>2 DEF In
      <4>2. ran[s][i].sub = s
        BY <4>1 DEF Placed
      <4>3. CASE s = e.sub
        BY <2>4, <4>1, <4>3
      <4>4. CASE s # e.sub
        BY <4>2, <4>4 DEF InOrder
      <4> QED BY <4>3, <4>4
    <3>3. ASSUME NEW i \in 1 .. Len(w) PROVE InOrder(w[i], e)
      <4>1. w[i] \in Events /\ In(w[i], Waiting(e.sub))
        BY <1>2, <3>1 DEF In
      <4>2. CASE w[i] \in Calls
        BY <2>4, <4>1, <4>2
      <4>3. CASE w[i] \notin Calls
        BY <4>1, <4>3, EventShapes DEF InOrder, Immediately
      <4> QED BY <4>2, <4>3
    <3>4. Ordered(ran[s], Append(w, e))
      BY <1>2, <1>4, <2>1, <3>2, <3>3, OrderedAppendNew
    <3> QED BY <2>1, <2>5, <3>4
  <2> QED BY <1>4, <2>1, <2>2, <2>5
<1>8. ASSUME NEW p \in Producers, NEW l \in Loops, BarrierPush(p, l)
      PROVE  Ordered(ran'[s], v)
  <2>1. v = w /\ ran' = ran
    BY <1>1, <1>8, BarrierPushIs DEF v, w
  <2> QED BY <1>4, <2>1
<1>9. ASSUME NEW t \in Subscribers, DtorDiscard(t) PROVE Ordered(ran'[s], v)
  <2>1. (v = w \/ v = Without(w, EventsFor(t, w))) /\ ran' = ran
    BY <1>1, <1>9, DiscardIs DEF v, w
  <2> QED BY <1>2, <1>4, <2>1, OrderedWithout
<1>10. ASSUME NEW l \in Loops, NEW r \in Priorities, NEW e \in Events, Popped(l, r, e)
       PROVE  Ordered(ran'[s], v)
  <2>1. (v = w /\ ~(k = l /\ q = r)) \/ (v = Tail(w) /\ w # <<>> /\ e = Head(w) /\ k = l /\ q = r)
    BY <1>1, <1>10 DEF Popped, v, w
  <2>2. ran'[s] = IF e.kind = "call" /\ e.sub = s THEN Append(ran[s], e) ELSE ran[s]
    BY <1>10 DEF Popped
  <2>3. Ordered(ran[s], v)
    BY <1>2, <1>4, <2>1, OrderedTail
  <2>4. CASE ~(e.kind = "call" /\ e.sub = s)
    BY <2>2, <2>3, <2>4
  <2>5. CASE e.kind = "call" /\ e.sub = s /\ ~Immediately(e)
    BY <1>3, <2>2, <2>3, <2>5, OrderedRunOther
  <2>6. CASE e.kind = "call" /\ e.sub = s /\ Immediately(e)
    <3>1. In(e, m_queue_map[l][r])
      BY <1>10, InTail DEF Popped, Types
    <3>2. k = l /\ q = r
      BY <2>6, <3>1, PrioritiesOfEvents DEF Placed, k, q
    <3>3. v = Tail(w) /\ w # <<>> /\ e = Head(w)
      BY <2>1, <3>2
    <3>4. Ordered(Append(ran[s], e), Tail(w))
      BY <1>2, <1>3, <1>4, <3>3, OrderedPop
    <3> QED BY <2>2, <2>6, <3>3, <3>4
  <2> QED BY <2>4, <2>5, <2>6
<1> QED BY <1>5, <1>6, <1>7, <1>8, <1>9, <1>10, QueueSteps

-----------------------------------------------------------------------------
(* What was pushed *)
Arrived(e) == In(e, Waiting(e.sub)) \/ In(e, ran[e.sub])

NothingIsLost ==
  \A s \in Subscribers, p \in Producers : phase[s] = "alive" =>
    \A k \in Immediate(p) :
      Arrived(Call(s, p, k, FALSE)) \/ (k = pushed[p] /\ Pending(p, s))

Flushed ==
  \A l \in Loops, p \in Producers, s \in Subscribers :
    running[l] = BarrierOf(p) /\ phase[s] = "alive" /\ LoopOf[s] = l =>
      \A k \in Immediate(p) : In(Call(s, p, k, FALSE), ran[s])

LEMMA PhaseSteps ==
  ASSUME Types, [Next]_vars, NEW s \in Subscribers
  PROVE  /\ phase'[s] = "alive" => phase[s] = "alive"
         /\ phase[s] = "destroyed" => phase'[s] = "destroyed"
         /\ phase'[s] = "destroyed" => phase[s] = "destroyed" \/ DtorDiscard(s)
<1>1. ASSUME NEW t \in Subscribers, DtorClear(t)
      PROVE  /\ phase[t] = "alive" /\ phase'[t] \in {"unsubscribe", "discard"}
             /\ s # t => phase'[s] = phase[s]
  BY <1>1 DEF DtorClear, AfterClear, Types
<1>2. ASSUME NEW t \in Subscribers, DtorUnsubscribe(t)
      PROVE  /\ phase[t] = "unsubscribe" /\ phase'[t] = "discard"
             /\ s # t => phase'[s] = phase[s]
  BY <1>2 DEF DtorUnsubscribe, Types
<1>3. ASSUME NEW t \in Subscribers, DtorDiscard(t)
      PROVE  /\ phase[t] = "discard" /\ phase'[t] = "destroyed"
             /\ s # t => phase'[s] = phase[s]
  BY <1>3 DEF DtorDiscard, Types
<1>4. \/ \E t \in Subscribers : DtorClear(t) \/ DtorUnsubscribe(t) \/ DtorDiscard(t)
      \/ UNCHANGED phase
  <2>1. ASSUME NEW p \in Producers,
               PushLock(p) \/ PushPromote(p) \/ PushConsume(p) \/ PushRelease(p)
               \/ PushUnlock(p) \/ \E l \in Loops : BarrierPush(p, l)
        PROVE  UNCHANGED phase
    BY <2>1 DEF PushLock, PushPromote, PushConsume, PushRelease, PushUnlock, BarrierPush
  <2>2. ASSUME NEW l \in Loops, LoopPop(l) \/ LoopReturn(l) PROVE UNCHANGED phase
    BY <2>2 DEF LoopPop, LoopReturn
  <2>3. ASSUME NEW e \in m_delayed_events, SchedulerFire(e) PROVE UNCHANGED phase
    BY <2>3 DEF SchedulerFire
  <2> QED BY <2>1, <2>2, <2>3 DEF Next, vars
<1> QED BY <1>1, <1>2, <1>3, <1>4

LEMMA RunsStay ==
  ASSUME Types, Holding, [Next]_vars, NEW s \in Subscribers, NEW e, In(e, ran[s])
  PROVE  In(e, ran'[s])
<1>1. CASE ran'[s] = ran[s]
  BY <1>1
<1>2. CASE ran'[s] # ran[s]
  <2>1. PICK d \in Calls : ran'[s] = Append(ran[s], d)
    BY <1>2, NewRuns
  <2> QED BY <2>1, InAppend DEF Types
<1> QED BY <1>1, <1>2

LEMMA ArrivedStays ==
  ASSUME Types, Holding, [Next]_vars, NEW e \in Calls, Arrived(e), phase'[e.sub] = "alive"
  PROVE  Arrived(e)'
<1> DEFINE s == e.sub
           k == LoopOf[s]
           q == PriorityOf[s]
           w == m_queue_map[k][q]
           v == m_queue_map'[k][q]
<1>1. k \in Loops /\ q \in Priorities /\ s \in Subscribers /\ e.kind = "call"
  BY CallsAreEvents, SubscribersHaveALoop, SubscribersHaveAPriority
     DEF Priorities, High, Low, Barrier
<1>2. w \in Seq(Events)
  BY <1>1 DEF Types
<1>3. Arrived(e) <=> In(e, w) \/ In(e, ran[s])
  BY DEF Arrived, Waiting
<1>4. Arrived(e)' <=> In(e, v) \/ In(e, ran'[s])
  BY DEF Arrived, Waiting
<1>5. phase'[s] = "alive"
  OBVIOUS
<1> HIDE DEF s, k, q, w, v
<1>6. CASE In(e, ran[s])
  BY <1>1, <1>4, <1>6, RunsStay
<1>7. CASE In(e, w)
  <2>0. ASSUME NEW d \in Events PROVE In(e, Append(w, d))
    BY <1>2, <1>7, InAppend
  <2>1. Quiet => In(e, v)
    <3>1. Quiet => v = w \/ \E d \in Events : v = Append(w, d)
      BY <1>1 DEF Quiet, v, w
    <3> QED BY <1>7, <2>0, <3>1
  <2>2. ASSUME NEW p \in Producers, NEW d \in Calls, NewCall(p, d) PROVE In(e, v)
    <3>1. (v = w \/ v = Append(w, d)) /\ d \in Events
      BY <1>1, <2>2, NewCallIs, ZenonT(40) DEF v, w
    <3> QED BY <1>7, <2>0, <3>1
  <2>3. ASSUME NEW p \in Producers, NEW l \in Loops, BarrierPush(p, l) PROVE In(e, v)
    <3>1. (v = w \/ v = Append(w, BarrierOf(p))) /\ BarrierOf(p) \in Events
      BY <1>1, <2>3, BarrierPushIs DEF v, w
    <3> QED BY <1>7, <2>0, <3>1
  <2>4. ASSUME NEW t \in Subscribers, DtorDiscard(t) PROVE In(e, v)
    <3>1. phase'[t] = "destroyed"
      BY <2>4 DEF DtorDiscard, Types
    <3> QED BY <1>1, <1>5, <1>7, <2>4, <3>1, DiscardIs DEF v, w, s
  <2>5. ASSUME NEW l \in Loops, NEW r \in Priorities, NEW d \in Events, Popped(l, r, d)
        PROVE  In(e, v) \/ In(e, ran'[s])
    <3>1. v = w \/ (v = Tail(w) /\ w # <<>> /\ d = Head(w))
      BY <1>1, <2>5 DEF Popped, v, w
    <3>2. CASE e = d
      <4>1. ran'[s] = Append(ran[s], e) /\ ran[s] \in Seq(Calls)
        BY <1>1, <2>5, <3>2 DEF Popped, Types, s
      <4> QED BY <4>1, InAppend
    <3>3. CASE e # d
      <4>1. w # <<>> => e = Head(w) \/ In(e, Tail(w))
        BY <1>2, <1>7, InTail
      <4> QED BY <1>7, <3>1, <3>3, <4>1
    <3> QED BY <3>2, <3>3
  <2> QED BY <1>4, <2>1, <2>2, <2>3, <2>4, <2>5, QueueSteps
<1> QED BY <1>3, <1>6, <1>7

LEMMA NothingIsLostStep ==
  ASSUME Types, Holding, Barriers, NothingIsLost, [Next]_vars
  PROVE  NothingIsLost'
<1> SUFFICES ASSUME NEW s \in Subscribers, NEW p \in Producers, phase'[s] = "alive",
                    NEW k \in Immediate(p)'
             PROVE  Arrived(Call(s, p, k, FALSE))' \/ (k = pushed'[p] /\ Pending(p, s)')
  BY DEF NothingIsLost
<1> DEFINE e == Call(s, p, k, FALSE)
<1>1. phase[s] = "alive" /\ pushed[p] \in Nat /\ delayedPushes[p] \in SUBSET Nat
  BY PhaseSteps DEF Types
<1>2. k \in Nat
  <2>1. k \in 1 .. pushed'[p] /\ pushed'[p] \in Nat
    BY TypesStep DEF Immediate, Types
  <2> QED BY <2>1
<1>3. e \in Calls /\ e.sub = s
  BY <1>2, ImmediateCalls
<1>4. Arrived(e) => Arrived(e)'
  BY <1>3, ArrivedStays
<1> HIDE DEF e
<1>5. CASE PushLock(p)
  <2>1. /\ pushed'[p] = pushed[p] + 1 /\ delayedPushes[p] \subseteq delayedPushes'[p]
        /\ pc[p] = "idle" /\ pc'[p] = "iterate" /\ todo'[p] = m_subscriptions
    BY <1>5 DEF PushLock, Types
  <2>2. CASE k = pushed'[p]
    BY <1>1, <2>1, <2>2 DEF Pending, Holding
  <2>3. CASE k # pushed'[p]
    <3>1. k \in Immediate(p)
      BY <1>1, <1>2, <2>1, <2>3 DEF Immediate
    <3> QED BY <1>1, <1>4, <2>1, <3>1 DEF NothingIsLost, Pending, e
  <2> QED BY <2>2, <2>3
<1>6. CASE ~PushLock(p)
  <2>1. /\ pushed'[p] = pushed[p] /\ delayedPushes'[p] = delayedPushes[p]
        /\ Pending(p, s) /\ ~Pending(p, s)' =>
             holders[s] = {} \/ (PushConsume(p) /\ s = Head(todo[p]))
    BY <1>6, PendingSteps
  <2>2. k \in Immediate(p)
    BY <2>1 DEF Immediate
  <2>3. CASE k = pushed[p] /\ Pending(p, s) /\ ~Pending(p, s)'
    <3>1. Owner \in holders[s]
      BY <1>1 DEF Holding
    <3>2. PushConsume(p) /\ s = Head(todo[p])
      BY <2>1, <2>3, <3>1
    <3>3. pushed[p] \notin delayedPushes[p]
      BY <2>2, <2>3 DEF Immediate
    <3>4. PICK d \in Calls : NewCall(p, d)
      BY <3>2, <3>3, ConsumeSteps
    <3>5. d = e
      BY <2>3, <3>2, <3>4 DEF NewCall, e
    <3>6. /\ LoopOf[s] \in Loops /\ PriorityOf[s] \in Priorities /\ e \in Events
          /\ \A l \in Loops, r \in Priorities :
               m_queue_map'[l][r] = IF l = LoopOf[s] /\ r = PriorityOf[s]
                                    THEN Append(m_queue_map[l][r], e) ELSE m_queue_map[l][r]
      BY <1>3, <3>4, <3>5, NewCallIs
    <3>7. In(e, m_queue_map'[LoopOf[s]][PriorityOf[s]])
      <4> DEFINE w == m_queue_map[LoopOf[s]][PriorityOf[s]]
      <4>1. w \in Seq(Events)
        BY <3>6 DEF Types
      <4>2. m_queue_map'[LoopOf[s]][PriorityOf[s]] = Append(w, e)
        BY <3>6
      <4> HIDE DEF w
      <4>3. In(e, Append(w, e))
        BY <3>6, <4>1, InAppend
      <4> QED BY <4>2, <4>3
    <3> QED BY <1>3, <3>7 DEF Arrived, Waiting, e
  <2> QED BY <1>1, <1>4, <2>1, <2>2, <2>3 DEF NothingIsLost, e
<1> QED BY <1>5, <1>6

LEMMA FlushedStep ==
  ASSUME Types, Holding, Placed, Barriers, NothingIsLost, Flushed, [Next]_vars
  PROVE  Flushed'
<1> SUFFICES ASSUME NEW l \in Loops, NEW p \in Producers, NEW s \in Subscribers,
                    running'[l] = BarrierOf(p), phase'[s] = "alive", LoopOf[s] = l,
                    NEW k \in Immediate(p)'
             PROVE  In(Call(s, p, k, FALSE), ran'[s])
  BY DEF Flushed
<1> DEFINE e == Call(s, p, k, FALSE)
<1>1. phase[s] = "alive"
  BY PhaseSteps
<1>2. pc[p] = "barrier"
  BY NewBarriers DEF Barriers, BarrierAt
<1>3. k \in Immediate(p) /\ ~Pending(p, s)
  <2>1. ~PushLock(p) /\ ~Pending(p, s)
    BY <1>2 DEF PushLock, Pending
  <2> QED BY <2>1, PendingSteps DEF Immediate
<1>4. k \in Nat
  <2>1. k \in 1 .. pushed[p] /\ pushed[p] \in Nat
    BY <1>3 DEF Immediate, Types
  <2> QED BY <2>1
<1>5. e \in Calls /\ e.sub = s
  BY <1>4, ImmediateCalls
<1> HIDE DEF e
<1>6. In(e, ran[s])
  <2>1. CASE running[l] = BarrierOf(p)
    BY <1>1, <1>3, <2>1 DEF Flushed, e
  <2>2. CASE Popped(l, Barrier, BarrierOf(p))
    <3>1. PriorityOf[s] \in Priorities /\ PriorityOf[s] < Barrier
      BY SubscribersHaveAPriority DEF Priorities, High, Low, Barrier
    <3>2. Waiting(s) = <<>>
      BY <2>2, <3>1 DEF Popped, Waiting
    <3>3. ~In(e, Waiting(s))
      BY <3>2 DEF In
    <3>4. Arrived(e)
      BY <1>1, <1>3 DEF NothingIsLost, e
    <3> QED BY <1>5, <3>3, <3>4 DEF Arrived
  <2> QED BY <2>1, <2>2, NewBarriers
<1> QED BY <1>6, RunsStay DEF e

-----------------------------------------------------------------------------
(* Events that outlive their subscriber *)

(* The push of e holds the last reference to the subscription. *)
Held(e) == pc[e.from] \in {"release", "stuck"} /\ e.sub = Head(todo[e.from])

SurvivorsAreHeld ==
  /\ \A e \in late : phase[e.sub] = "destroyed"
  /\ \A e \in Calls :
       Immediately(e) /\ phase[e.sub] = "destroyed" /\ (e \in late \/ In(e, Waiting(e.sub))) =>
         Held(e)

LEMMA NewLates ==
  ASSUME Types, [Next]_vars, NEW e \in late', e \notin late
  PROVE  /\ e.kind = "call" /\ phase[e.sub] = "destroyed"
         /\ \E l \in Loops, r \in Priorities : Popped(l, r, e) /\ In(e, m_queue_map[l][r])
<1>1. PICK l \in Loops : LoopPop(l)
  <2>1. ASSUME NEW p \in Producers,
               PushLock(p) \/ PushPromote(p) \/ PushConsume(p) \/ PushRelease(p)
               \/ PushUnlock(p) \/ \E l \in Loops : BarrierPush(p, l)
        PROVE  UNCHANGED late
    BY <2>1 DEF PushLock, PushPromote, PushConsume, PushRelease, PushUnlock, BarrierPush
  <2>2. ASSUME NEW l \in Loops, LoopReturn(l) PROVE UNCHANGED late
    BY <2>2 DEF LoopReturn
  <2>3. ASSUME NEW d \in m_delayed_events, SchedulerFire(d) PROVE UNCHANGED late
    BY <2>3 DEF SchedulerFire
  <2>4. ASSUME NEW s \in Subscribers, DtorClear(s) \/ DtorUnsubscribe(s) \/ DtorDiscard(s)
        PROVE  UNCHANGED late
    BY <2>4 DEF DtorClear, DtorUnsubscribe, DtorDiscard
  <2> QED BY <2>1, <2>2, <2>3, <2>4 DEF Next, vars
<1>2. PICK r \in Priorities, d \in Events : Popped(l, r, d)
  BY <1>1, PopSteps
<1>3. e = d /\ d.kind = "call" /\ phase[d.sub] = "destroyed"
  BY <1>2 DEF Popped
<1>4. In(d, m_queue_map[l][r])
  BY <1>2, InTail DEF Popped, Types
<1> QED BY <1>2, <1>3, <1>4

LEMMA HeldStays ==
  ASSUME Types, Holding, Barriers, [Next]_vars, NEW e \in Calls, Held(e),
         phase[e.sub] = "destroyed"
  PROVE  Held(e)'
<1> DEFINE p == e.from
           s == e.sub
<1>1. p \in Producers /\ s \in Subscribers
  BY CallsAreEvents
<1>2. pc[p] \in {"release", "stuck"} /\ s = Head(todo[p]) /\ phase[s] = "destroyed"
  BY DEF Held
<1>3. pc'[p] \in {"release", "stuck"} /\ todo'[p] = todo[p] => Held(e)'
  BY <1>2 DEF Held
<1> HIDE DEF p, s
<1>4. CASE PushRelease(p)
  <2>1. pc[p] = "release"
    BY <1>4 DEF PushRelease
  <2>2. lock = p /\ p \in holders[s] /\ Owner \notin holders[s]
    BY <1>1, <1>2, <2>1 DEF Holding, Pushing
  <2>3. \A q \in Producers : q \in holders[s] => q = p
    BY <1>1, <2>2 DEF Holding, Pushing
  <2>4. holders[s] \in SUBSET (Producers \cup {Owner})
    BY <1>1 DEF Types
  <2>5. holders[s] = {p}
    BY <2>2, <2>3, <2>4
  <2>6. pc' = [pc EXCEPT ![p] = "stuck"] /\ UNCHANGED todo
    BY <1>2, <1>4, <2>5 DEF PushRelease
  <2> QED BY <1>1, <1>3, <2>6 DEF Types
<1>5. ASSUME NEW q \in Producers,
             \/ PushLock(q) \/ PushPromote(q) \/ PushConsume(q) \/ (PushRelease(q) /\ q # p)
             \/ PushUnlock(q) \/ \E l \in Loops : BarrierPush(q, l)
      PROVE  Held(e)'
  <2>1. q # p
    BY <1>2, <1>5 DEF PushLock, PushPromote, PushConsume, PushUnlock, BarrierPush
  <2>2. pc'[p] = pc[p] /\ todo'[p] = todo[p]
    BY <1>1, <1>5, <2>1 DEF PushLock, PushPromote, PushConsume, PushRelease, PushUnlock,
       BarrierPush, Types
  <2> QED BY <1>2, <1>3, <2>2
<1>6. ASSUME NEW l \in Loops, LoopReturn(l) PROVE Held(e)'
  <2>1. /\ pc' = Released(running[l]) /\ UNCHANGED todo /\ running[l] \in Events
    BY <1>6 DEF LoopReturn, Types
  <2>2. CASE running[l].kind = "barrier"
    <3>1. running[l].from \in Producers /\ running[l] = BarrierOf(running[l].from)
      BY <2>1, <2>2, EventShapes
    <3>2. pc[running[l].from] = "barrier" /\ pc' = [pc EXCEPT ![running[l].from] = "idle"]
      BY <2>1, <2>2, <3>1 DEF Barriers, BarrierAt, Released
    <3>3. pc'[p] = pc[p]
      BY <1>1, <1>2, <3>1, <3>2 DEF Types
    <3> QED BY <1>2, <1>3, <2>1, <3>3
  <2>3. CASE running[l].kind # "barrier"
    BY <1>2, <1>3, <2>1, <2>3 DEF Released
  <2> QED BY <2>2, <2>3
<1>7. UNCHANGED <<pc, todo>> => Held(e)'
  BY <1>2, <1>3
<1>8. UNCHANGED pushVars => Held(e)'
  BY <1>7 DEF pushVars
<1> QED
  BY <1>4, <1>5, <1>6, <1>8
     DEF Next, vars, DtorClear, DtorUnsubscribe, DtorDiscard, LoopPop, SchedulerFire

LEMMA SurvivorsAreHeldStep ==
  ASSUME Types, Holding, Placed, Barriers, SurvivorsAreHeld, [Next]_vars
  PROVE  SurvivorsAreHeld'
<1>1. ASSUME NEW e \in late' PROVE phase'[e.sub] = "destroyed"
  <2>1. e \in Calls /\ e.sub \in Subscribers
    BY TypesStep, CallsAreEvents DEF Types
  <2>2. phase[e.sub] = "destroyed"
    BY NewLates DEF SurvivorsAreHeld
  <2> QED BY <2>1, <2>2, PhaseSteps
<1>2. ASSUME NEW e \in Calls, Immediately(e), phase'[e.sub] = "destroyed",
             e \in late' \/ In(e, Waiting(e.sub)')
      PROVE  Held(e)'
  <2>0. /\ e.sub \in Subscribers /\ LoopOf[e.sub] \in Loops /\ PriorityOf[e.sub] \in Priorities
        /\ PriorityOfEvent(e) = PriorityOf[e.sub] /\ e \in Events /\ e.kind = "call"
    BY CallsAreEvents, SubscribersHaveALoop, PrioritiesOfEvents
  <2>1. CASE phase[e.sub] = "destroyed"
    <3>1. CASE e \in late \/ In(e, Waiting(e.sub))
      BY <1>2, <2>1, <3>1, HeldStays DEF SurvivorsAreHeld
    <3>2. CASE e \in late' /\ e \notin late
      <4>1. PICK l \in Loops, r \in Priorities : In(e, m_queue_map[l][r])
        BY <3>2, NewLates
      <4>2. In(e, Waiting(e.sub))
        BY <1>2, <2>0, <4>1 DEF Placed, Waiting
      <4> QED BY <3>1, <4>2
    <3>3. CASE In(e, Waiting(e.sub)') /\ ~In(e, Waiting(e.sub))
      <4>1. PICK p \in Producers : NewCall(p, e)
        BY <1>2, <2>0, <3>3, NewEvents DEF Waiting
      <4>2. p = e.from /\ e.sub = Head(todo[p]) /\ PushConsume(p)
        BY <4>1 DEF NewCall
      <4>3. pc'[p] = "release" /\ todo' = todo
        BY <4>2 DEF PushConsume, Types
      <4> QED BY <4>2, <4>3 DEF Held
    <3> QED BY <1>2, <3>1, <3>2, <3>3
  <2>2. CASE phase[e.sub] # "destroyed"
    <3>1. DtorDiscard(e.sub)
      BY <1>2, <2>0, <2>2, PhaseSteps
    <3>2. ~In(e, Waiting(e.sub)')
      BY <2>0, <3>1, DiscardIs DEF Waiting
    <3>3. late' = late
      BY <3>1 DEF DtorDiscard
    <3> QED BY <1>2, <2>2, <3>2, <3>3 DEF SurvivorsAreHeld
  <2> QED BY <2>1, <2>2
<1> QED BY <1>1, <1>2 DEF SurvivorsAreHeld
-----------------------------------------------------------------------------
(* The inductive invariant, and the theorems *)
IInv ==
  /\ Types /\ Holding /\ Placed /\ Barriers
  /\ Bounded /\ InTheirOrder
  /\ NothingIsLost /\ Flushed
  /\ SurvivorsAreHeld

LEMMA InitIInv == Init => IInv
<1> SUFFICES ASSUME Init PROVE IInv
  OBVIOUS
<1>1. Types
  BY InitTypes
<1>2. /\ \A l \in Loops, q \in Priorities : m_queue_map[l][q] = <<>>
      /\ \A l \in Loops : running[l] = None
      /\ \A s \in Subscribers : ran[s] = <<>> /\ phase[s] = "alive" /\ holders[s] = {Owner}
      /\ \A p \in Producers : pc[p] = "idle" /\ todo[p] = <<>> /\ pushed[p] = 0
      /\ m_subscriptions = Subscribed /\ late = {}
  BY DEF Init
<1>3. \A x : ~In(x, <<>>)
  BY DEF In
<1>4. Once(<<>>) /\ Ordered(<<>>, <<>>)
  BY DEF Once, Ordered
<1>5. \A s \in Subscribers : LoopOf[s] \in Loops /\ PriorityOf[s] \in Priorities
  BY SubscribersHaveALoop, SubscribersHaveAPriority DEF Priorities, High, Low, Barrier
<1>6. Holding
  <2>1. Once(m_subscriptions) /\ \A s \in Subscribers : In(s, m_subscriptions)
    BY <1>2, EveryoneSubscribed DEF Once, In
  <2> QED BY <1>2, <1>4, <2>1, ThreadsAreProducers DEF Holding, Pushing
<1>7. Placed
  BY <1>2, <1>3 DEF Placed
<1>8. Barriers
  <2>1. \A p \in Producers, l \in Loops : ~BarrierAt(p, l)
    BY <1>2, <1>3, BarrierShapes DEF BarrierAt
  <2>2. \A l \in Loops : m_queue_map[l][Barrier] = <<>>
    BY <1>2 DEF Priorities, High, Barrier
  <2> QED BY <1>3, <1>4, <2>1, <2>2 DEF Barriers
<1>9. ASSUME NEW e \in Calls PROVE ~Arrived(e) /\ ~In(e, Waiting(e.sub))
  <2>1. e.sub \in Subscribers
    BY CallsAreEvents
  <2> QED BY <1>2, <1>3, <1>5, <2>1 DEF Arrived, Waiting
<1>10. Bounded
  BY <1>9 DEF Bounded, Arrived
<1>11. InTheirOrder
  BY <1>2, <1>4, <1>5 DEF InTheirOrder, Waiting
<1>12. \A p \in Producers : Immediate(p) = {}
  BY <1>2 DEF Immediate
<1>13. NothingIsLost /\ Flushed
  BY <1>12 DEF NothingIsLost, Flushed
<1>14. SurvivorsAreHeld
  BY <1>2, <1>9 DEF SurvivorsAreHeld
<1> QED BY <1>1, <1>6, <1>7, <1>8, <1>10, <1>11, <1>13, <1>14 DEF IInv

LEMMA IInvStep == IInv /\ [Next]_vars => IInv'
<1> SUFFICES ASSUME IInv, [Next]_vars PROVE IInv'
  OBVIOUS
<1>1. Types' /\ Holding' /\ Placed' /\ Barriers'
  BY TypesStep, HoldingStep, PlacedStep, BarriersStep DEF IInv
<1>2. Bounded' /\ InTheirOrder'
  BY BoundedStep, InTheirOrderStep DEF IInv
<1>3. NothingIsLost' /\ Flushed'
  BY NothingIsLostStep, FlushedStep DEF IInv
<1>4. SurvivorsAreHeld'
  BY SurvivorsAreHeldStep DEF IInv
<1> QED BY <1>1, <1>2, <1>3, <1>4 DEF IInv

LEMMA IInvHolds == Spec => []IInv
BY InitIInv, IInvStep, PTL DEF Spec

(* EventChannel::push and the queues: the pushes of a thread reach a subscriber in
   their order, for any number of threads, loops and priorities. *)
THEOREM RunInOrder == Spec => []PushesRunInOrder
<1>1. IInv => PushesRunInOrder
  <2> SUFFICES ASSUME IInv, NEW s \in Subscribers,
                      NEW i \in DOMAIN ran[s], NEW j \in DOMAIN ran[s], i < j,
                      ran[s][i].from = ran[s][j].from,
                      ~ran[s][i].delayed, ~ran[s][j].delayed
               PROVE  ran[s][i].n < ran[s][j].n
    BY DEF PushesRunInOrder
  <2>1. ran[s] \in Seq(Calls) /\ i \in 1 .. Len(ran[s]) /\ j \in 1 .. Len(ran[s])
    BY DEF IInv, Types
  <2>2. /\ ran[s][i] \in Calls /\ ran[s][j] \in Calls
        /\ In(ran[s][i], ran[s]) /\ In(ran[s][j], ran[s])
    BY <2>1 DEF In
  <2>3. ran[s][i].sub = s /\ ran[s][j].sub = s
    BY <2>2 DEF IInv, Placed
  <2>4. Immediately(ran[s][i]) /\ Immediately(ran[s][j])
    BY <2>2, CallsAreEvents DEF Immediately
  <2>5. InOrder(ran[s][i], ran[s][j])
    BY <2>1 DEF IInv, InTheirOrder, Ordered
  <2> QED BY <2>3, <2>4, <2>5 DEF InOrder
<1> QED BY <1>1, IInvHolds, PTL

LEMMA QueuedIs ==
  ASSUME Types, NEW l \in Loops, NEW e
  PROVE  e \in Queued(l) <=> \E p \in Priorities : In(e, m_queue_map[l][p])
<1>1. \A p \in Priorities : DOMAIN m_queue_map[l][p] = 1 .. Len(m_queue_map[l][p])
  BY DEF Types
<1> QED BY <1>1 DEF Queued, In

LEMMA RanEventsAre ==
  ASSUME Types, NEW s \in Subscribers, NEW e
  PROVE  e \in RanEvents(s) <=> In(e, ran[s])
<1>1. DOMAIN ran[s] = 1 .. Len(ran[s])
  BY DEF Types
<1> QED BY <1>1 DEF RanEvents, In

(* discard_events and the destructors: what a finished push had for a subscriber that
   lives is in its queue or ran. *)
THEOREM NoPushIsLost == Spec => []NoEventIsLost
<1>1. IInv => NoEventIsLost
  <2> SUFFICES ASSUME IInv, NEW s \in Subscribers, NEW p \in Producers, phase[s] = "alive",
                      NEW k \in Finished(p)
               PROVE  Call(s, p, k, FALSE) \in Queued(LoopOf[s]) \cup RanEvents(s)
    BY DEF NoEventIsLost
  <2>1. k \in Immediate(p) /\ (k = pushed[p] => pc[p] \in {"idle", "barrier"})
    BY DEF Finished
  <2>2. pc[p] \in {"idle", "barrier"} => ~Pending(p, s)
    BY DEF Pending
  <2>3. k \in Nat
    <3>1. k \in 1 .. pushed[p] /\ pushed[p] \in Nat
      BY <2>1 DEF Immediate, IInv, Types
    <3> QED BY <3>1
  <2> DEFINE e == Call(s, p, k, FALSE)
  <2>4. Arrived(e)
    BY <2>1, <2>2 DEF IInv, NothingIsLost
  <2>5. e.sub = s
    BY <2>3, ImmediateCalls
  <2> HIDE DEF e
  <2>6. In(e, ran[s]) => e \in RanEvents(s)
    BY RanEventsAre DEF IInv
  <2>7. LoopOf[s] \in Loops /\ PriorityOf[s] \in Priorities
    BY SubscribersHaveALoop, SubscribersHaveAPriority DEF Priorities, High, Low, Barrier
  <2>8. In(e, Waiting(s)) => e \in Queued(LoopOf[s])
    BY <2>7, QueuedIs DEF IInv, Waiting
  <2> QED BY <2>4, <2>5, <2>6, <2>8 DEF Arrived, e
<1> QED BY <1>1, IInvHolds, PTL

(* EventBarrier::wait returns behind everything its thread had pushed to the loop. *)
THEOREM BarriersFlush == Spec => []BarrierFlushes
<1>1. IInv => BarrierFlushes
  BY RanEventsAre DEF IInv, Flushed, BarrierFlushes
<1> QED BY <1>1, IInvHolds, PTL

(* ~EventSubcriber: an event that is there after it was pushed by a thread that never
   gets past the channel's mutex. *)
THEOREM SurvivorsAreStuck == Spec => []SurvivorsMeanDeadlock
<1>1. IInv => SurvivorsMeanDeadlock
  <2> SUFFICES ASSUME IInv, NEW e, e.kind = "call", ~e.delayed, phase[e.sub] = "destroyed",
                      e \in late \/ \E l \in Loops : e \in Queued(l)
               PROVE  Held(e)
    BY DEF SurvivorsMeanDeadlock, Held
  <2>1. Immediately(e)
    BY DEF Immediately
  <2>2. CASE e \in late
    BY <2>1, <2>2 DEF IInv, Types, SurvivorsAreHeld
  <2>3. CASE \E l \in Loops : e \in Queued(l)
    <3>1. PICK l \in Loops, p \in Priorities : In(e, m_queue_map[l][p])
      BY <2>3, QueuedIs DEF IInv
    <3>2. e \in Events
      BY <3>1 DEF IInv, Types, In
    <3>3. e \in Calls /\ PriorityOfEvent(e) = PriorityOf[e.sub]
      BY <3>2, EventShapes, PrioritiesOfEvents
    <3>4. In(e, Waiting(e.sub))
      BY <2>1, <3>1, <3>2, <3>3 DEF IInv, Placed, Waiting
    <3> QED BY <2>1, <3>3, <3>4 DEF IInv, SurvivorsAreHeld
  <2> QED BY <2>2, <2>3
<1> QED BY <1>1, IInvHolds, PTL
=============================================================================
