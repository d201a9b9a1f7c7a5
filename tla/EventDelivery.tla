----------------------------- MODULE EventDelivery -----------------------------
(***************************************************************************)
(* How an event gets from a channel to a callback, thread by thread:       *)
(* EventChannel::push, the priority queue of an EventLoop, the Scheduler   *)
(* for delayed events, and the destruction of an EventSubcriber            *)
(* (src/frontend/crypto/util).                                             *)
(*                                                                         *)
(* Threads: the producers, which push into one channel (market data,       *)
(* websocket and gateway threads); one thread for each event loop; the     *)
(* scheduler; and the thread that destroys a subscriber, which may be any  *)
(* thread: a destruction inside a callback is the case where the loop does *)
(* not move meanwhile.  A step ends where another thread can interfere:    *)
(* at a mutex and at the reference count of a subscription.                *)
(***************************************************************************)
EXTENDS Queues, FiniteSets

CONSTANTS
  Producers,    \* threads that push into the channel
  Subscribers,  \* EventSubcriber objects, each with one subscription
  Loops,        \* EventLoop objects
  LoopOf,       \* m_event_loop of each subscriber
  PriorityOf,   \* m_priority of each subscription
  Subscribed,   \* m_subscriptions at the start: subscribers in subscription order
  MaxPushes,    \* bound: events each producer pushes
  MaxDelayed    \* bound: of these, how many with push_delayed

(* enum class Priority; Barrier is the last to be served. *)
High == 0
Normal == 1
Low == 2
Barrier == 3
Priorities == High .. Barrier

ASSUME SubscribersHaveALoop == LoopOf \in [Subscribers -> Loops]
ASSUME SubscribersHaveAPriority == PriorityOf \in [Subscribers -> High .. Low]
ASSUME EveryoneSubscribed ==
  /\ Subscribed \in Seq(Subscribers)
  /\ \A s \in Subscribers : \E i \in 1 .. Len(Subscribed) : Subscribed[i] = s
  /\ \A i, j \in 1 .. Len(Subscribed) : Subscribed[i] = Subscribed[j] => i = j
ASSUME BoundsAreNatural ==
  MaxPushes \in [Producers -> Nat] /\ MaxDelayed \in [Producers -> Nat]

None == [kind |-> "none"]

(* A LambdaEvent: the callback and subscriber id it carries, and who made it. *)
Call(s, p, k, late) == [kind |-> "call", sub |-> s, from |-> p, n |-> k, delayed |-> late]
(* What the scheduler's channel pushes: a callback of the loop itself that pushes
   the delayed event it wraps. *)
Hop(e)        == [kind |-> "hop", inner |-> e]
BarrierOf(p)  == [kind |-> "barrier", from |-> p]

(* Mutant: a barrier is served before what it has to wait for. *)
PriorityOfEvent_BarrierFirst(e) ==
  CASE e.kind = "call"    -> PriorityOf[e.sub]
    [] e.kind = "hop"     -> Normal
    [] e.kind = "barrier" -> High

PriorityOfEvent(e) ==
  CASE e.kind = "call"    -> PriorityOf[e.sub]
    [] e.kind = "hop"     -> Normal
    [] e.kind = "barrier" -> Barrier

VARIABLES
  m_queue_map,      \* of each loop: a list of events for each priority
  running,          \* the event each loop's thread is executing
  m_subscriptions,  \* the channel's list
  lock,             \* thread that holds the mutex of m_subscriptions
  holders,          \* owners of each EventSubscription: its subscriber, pushers
  phase,            \* how far ~EventSubcriber of each subscriber has come
  pc,               \* of each producer
  todo,             \* subscriptions a producer's push has still to visit
  pushed,           \* events each producer has pushed or is pushing
  delayedPushes,    \* which of these are push_delayed
  m_delayed_events, \* the scheduler's multimap
  ran,              \* history: for each subscriber, what ran
  late              \* history: events started after their subscriber's destructor

chVars   == <<m_subscriptions, lock, holders>>
pushVars == <<pc, todo, pushed, delayedPushes>>
vars     == <<m_queue_map, running, chVars, phase, pushVars, m_delayed_events, ran, late>>

Owner == "owner"
Free  == "free"

ASSUME ThreadsAreProducers == Owner \notin Producers /\ Free \notin Producers

Init ==
  /\ m_queue_map = [l \in Loops |-> [p \in Priorities |-> <<>>]]
  /\ running = [l \in Loops |-> None]
  /\ m_subscriptions = Subscribed
  /\ lock = Free
  /\ holders = [s \in Subscribers |-> {Owner}]
  /\ phase = [s \in Subscribers |-> "alive"]
  /\ pc = [p \in Producers |-> "idle"]
  /\ todo = [p \in Producers |-> <<>>]
  /\ pushed = [p \in Producers |-> 0]
  /\ delayedPushes = [p \in Producers |-> {}]
  /\ m_delayed_events = {}
  /\ ran = [s \in Subscribers |-> <<>>]
  /\ late = {}

-----------------------------------------------------------------------------
(* ThreadSafePriorityQueue *)

(* Mutant: a stack instead of a queue. *)
Enqueued_AtFront(queues, l, e) ==
  [queues EXCEPT ![l][PriorityOfEvent(e)] = <<e>> \o @]

Enqueued(queues, l, e) ==
  [queues EXCEPT ![l][PriorityOfEvent(e)] = Append(@, e)]

Queued(l) ==
  UNION {{m_queue_map[l][p][i] : i \in DOMAIN m_queue_map[l][p]} : p \in Priorities}

(* Mutant: the predicate drops the callbacks of every subscriber. *)
discard_events_Everyone(l, s) ==
  [m_queue_map EXCEPT ![l] =
     [p \in Priorities |-> SelectSeq(@[p], LAMBDA e : e.kind # "call")]]

(* The predicate of discard_subscriber_events: a wrapped event carries the loop's own
   subscriber id, so it does not match. *)
EventsFor(s, q) ==
  {e \in {q[i] : i \in 1 .. Len(q)} : e.kind = "call" /\ e.sub = s}

discard_events(l, s) ==
  [m_queue_map EXCEPT ![l] = [p \in Priorities |-> Without(@[p], EventsFor(s, @[p]))]]

-----------------------------------------------------------------------------
(* EventChannel::push and push_delayed, run by producer p *)

PushLock(p) ==
  /\ pc[p] = "idle" /\ pushed[p] < MaxPushes[p]
  /\ lock = Free
  /\ lock' = p
  /\ pushed' = [pushed EXCEPT ![p] = @ + 1]
  /\ \/ UNCHANGED delayedPushes
     \/ /\ Cardinality(delayedPushes[p]) < MaxDelayed[p]
        /\ delayedPushes' = [delayedPushes EXCEPT ![p] = @ \cup {pushed[p] + 1}]
  /\ todo' = [todo EXCEPT ![p] = m_subscriptions]
  /\ pc' = [pc EXCEPT ![p] = "iterate"]
  /\ UNCHANGED <<m_queue_map, running, m_subscriptions, holders, phase,
                 m_delayed_events, ran, late>>

(* wptr.lock(): the subscription may be gone already. *)
PushPromote(p) ==
  /\ pc[p] = "iterate" /\ todo[p] # <<>>
  /\ LET s == Head(todo[p]) IN
       IF holders[s] = {}
       THEN /\ todo' = [todo EXCEPT ![p] = Tail(@)]
            /\ UNCHANGED <<pc, holders>>
       ELSE /\ holders' = [holders EXCEPT ![s] = @ \cup {p}]
            /\ pc' = [pc EXCEPT ![p] = "consume"]
            /\ UNCHANGED todo
  /\ UNCHANGED <<m_queue_map, running, m_subscriptions, lock, phase, pushed,
                 delayedPushes, m_delayed_events, ran, late>>

(* m_consumer.push, or m_consumer.push_delayed: EventLoop::push_delayed gives the
   event to the scheduler. *)
PushConsume(p) ==
  /\ pc[p] = "consume"
  /\ pc' = [pc EXCEPT ![p] = "release"]
  /\ LET s == Head(todo[p])
         e == Call(s, p, pushed[p], pushed[p] \in delayedPushes[p])
     IN IF e.delayed
        THEN /\ m_delayed_events' = m_delayed_events \cup {e}
             /\ UNCHANGED m_queue_map
        ELSE /\ m_queue_map' = Enqueued(m_queue_map, LoopOf[s], e)
             /\ UNCHANGED m_delayed_events
  /\ UNCHANGED <<running, chVars, phase, todo, pushed, delayedPushes, ran, late>>

(* The reference of this turn of the loop goes.  If it was the last one, the
   subscription is destroyed here and calls unsubscribe, which locks the mutex
   this thread holds: it never returns. *)
PushRelease(p) ==
  /\ pc[p] = "release"
  /\ LET s == Head(todo[p]) IN
       /\ holders' = [holders EXCEPT ![s] = @ \ {p}]
       /\ IF holders[s] = {p}
          THEN pc' = [pc EXCEPT ![p] = "stuck"] /\ UNCHANGED todo
          ELSE /\ pc' = [pc EXCEPT ![p] = "iterate"]
               /\ todo' = [todo EXCEPT ![p] = Tail(@)]
  /\ UNCHANGED <<m_queue_map, running, m_subscriptions, lock, phase, pushed,
                 delayedPushes, m_delayed_events, ran, late>>

PushUnlock(p) ==
  /\ pc[p] = "iterate" /\ todo[p] = <<>>
  /\ lock' = Free
  /\ pc' = [pc EXCEPT ![p] = "idle"]
  /\ UNCHANGED <<m_queue_map, running, m_subscriptions, holders, phase, todo, pushed,
                 delayedPushes, m_delayed_events, ran, late>>

-----------------------------------------------------------------------------
(* ~EventSubcriber *)

AfterClear(s) == IF holders[s] = {Owner} THEN "unsubscribe" ELSE "discard"

(* m_subscriptions.clear(): whoever drops the last reference unsubscribes. *)
DtorClear(s) ==
  /\ phase[s] = "alive"
  /\ holders' = [holders EXCEPT ![s] = @ \ {Owner}]
  /\ phase' = [phase EXCEPT ![s] = AfterClear(s)]
  /\ UNCHANGED <<m_queue_map, running, m_subscriptions, lock, pushVars,
                 m_delayed_events, ran, late>>

DtorUnsubscribe(s) ==
  /\ phase[s] = "unsubscribe"
  /\ lock = Free
  /\ m_subscriptions' = Without(m_subscriptions, {s})
  /\ phase' = [phase EXCEPT ![s] = "discard"]
  /\ UNCHANGED <<m_queue_map, running, lock, holders, pushVars, m_delayed_events, ran,
                 late>>

(* Mutant: the queue is left as it is. *)
DtorDiscard_Nothing(s) ==
  /\ phase[s] = "discard"
  /\ phase' = [phase EXCEPT ![s] = "destroyed"]
  /\ UNCHANGED <<m_queue_map, running, chVars, pushVars, m_delayed_events, ran, late>>

DtorDiscard(s) ==
  /\ phase[s] = "discard"
  /\ m_queue_map' = discard_events(LoopOf[s], s)
  /\ phase' = [phase EXCEPT ![s] = "destroyed"]
  /\ UNCHANGED <<running, chVars, pushVars, m_delayed_events, ran, late>>

-----------------------------------------------------------------------------
(* BasicEventLoop::run *)

(* wait_and_pop takes the first event of the most urgent list that has one. *)
LoopPop(l) ==
  /\ running[l] = None
  /\ \E p \in Priorities :
       /\ m_queue_map[l][p] # <<>>
       /\ \A q \in Priorities : q < p => m_queue_map[l][q] = <<>>
       /\ LET e == Head(m_queue_map[l][p]) IN
            /\ running' = [running EXCEPT ![l] = e]
            /\ m_queue_map' = [m_queue_map EXCEPT ![l][p] = Tail(@)]
            /\ IF e.kind = "call"
               THEN /\ ran' = [ran EXCEPT ![e.sub] = Append(@, e)]
                    /\ late' = IF phase[e.sub] = "destroyed" THEN late \cup {e} ELSE late
               ELSE UNCHANGED <<ran, late>>
  /\ UNCHANGED <<chVars, phase, pushVars, m_delayed_events>>

(* Mutant: the barrier's promise is never set. *)
Released_Never(e) == pc

(* The callback of an EventBarrier releases the thread that waits. *)
Released(e) == IF e.kind = "barrier" THEN [pc EXCEPT ![e.from] = "idle"] ELSE pc

(* The callback returns; the loop's own callback pushes what it was handed. *)
LoopReturn(l) ==
  /\ running[l] # None
  /\ running' = [running EXCEPT ![l] = None]
  /\ LET e == running[l] IN
       /\ m_queue_map' = IF e.kind = "hop" THEN Enqueued(m_queue_map, l, e.inner)
                                           ELSE m_queue_map
       /\ pc' = Released(e)
  /\ UNCHANGED <<chVars, phase, todo, pushed, delayedPushes, m_delayed_events,
                 ran, late>>

(* Scheduler::run: the channel of the event's loop has every loop as a subscriber,
   because EventLoop::m_guid is default constructed and so the same for all. *)
SchedulerFire(e) ==
  /\ e \in m_delayed_events
  /\ m_delayed_events' = m_delayed_events \ {e}
  /\ m_queue_map' = [l \in Loops |-> [m_queue_map[l] EXCEPT ![Normal] = Append(@, Hop(e))]]
  /\ UNCHANGED <<running, chVars, phase, pushVars, ran, late>>

(* EventBarrier: a producer queues an event of the last priority and waits (bound: it
   does so once it has made all its pushes, when a wait has most to cover). *)
BarrierPush(p, l) ==
  /\ pc[p] = "idle" /\ pushed[p] = MaxPushes[p]
  /\ pc' = [pc EXCEPT ![p] = "barrier"]
  /\ m_queue_map' = Enqueued(m_queue_map, l, BarrierOf(p))
  /\ UNCHANGED <<running, chVars, phase, todo, pushed, delayedPushes,
                 m_delayed_events, ran, late>>

Next ==
  \/ \E p \in Producers :
       \/ PushLock(p) \/ PushPromote(p) \/ PushConsume(p) \/ PushRelease(p)
       \/ PushUnlock(p)
       \/ \E l \in Loops : BarrierPush(p, l)
  \/ \E s \in Subscribers : DtorClear(s) \/ DtorUnsubscribe(s) \/ DtorDiscard(s)
  \/ \E l \in Loops : LoopPop(l) \/ LoopReturn(l)
  \/ \E e \in m_delayed_events : SchedulerFire(e)

(* The loops' threads run for ever and every callback returns. *)
Fairness == \A l \in Loops : WF_vars(LoopPop(l)) /\ WF_vars(LoopReturn(l))

Spec == Init /\ [][Next]_vars /\ Fairness

-----------------------------------------------------------------------------
RanEvents(s)      == {ran[s][i] : i \in DOMAIN ran[s]}
Immediate(p)      == (1 .. pushed[p]) \ delayedPushes[p]
Finished(p)       == IF pc[p] \in {"idle", "barrier"} THEN Immediate(p)
                                                     ELSE Immediate(p) \ {pushed[p]}

(* What one thread pushes into a channel reaches each subscriber in that order and
   not twice, whatever the other threads and the priorities do. *)
PushesRunInOrder ==
  \A s \in Subscribers : \A i, j \in DOMAIN ran[s] :
    LET e == ran[s][i]
        f == ran[s][j]
    IN i < j /\ e.from = f.from /\ ~e.delayed /\ ~f.delayed => e.n < f.n

(* discard_events drops the events of the destroyed subscriber only: whatever a
   finished push had for a subscriber that is still alive is queued or has run. *)
NoEventIsLost ==
  \A s \in Subscribers, p \in Producers :
    phase[s] = "alive" =>
      \A k \in Finished(p) :
        Call(s, p, k, FALSE) \in Queued(LoopOf[s]) \cup RanEvents(s)

(* EventBarrier::wait returns only after everything its thread had pushed to the
   loop's subscribers ran. *)
BarrierFlushes ==
  \A l \in Loops, p \in Producers :
    running[l] = BarrierOf(p) =>
      \A s \in Subscribers : phase[s] = "alive" /\ LoopOf[s] = l =>
        \A k \in Immediate(p) : Call(s, p, k, FALSE) \in RanEvents(s)

(* ~EventSubcriber clears its subscriptions and then discards: an event pushed
   without delay survives its subscriber only if its push held the last reference to
   the subscription, and that push then never gets past the channel's mutex. *)
SurvivorsMeanDeadlock ==
  \A e \in late \cup UNION {Queued(l) : l \in Loops} :
    e.kind = "call" /\ ~e.delayed /\ phase[e.sub] = "destroyed" =>
      /\ pc[e.from] \in {"release", "stuck"}
      /\ Head(todo[e.from]) = e.sub

(* A thread that waits on an EventBarrier is released: the pushes are bounded here, so
   no flow of more urgent events starves the last priority. *)
BarrierReturns == \A p \in Producers : pc[p] = "barrier" ~> pc[p] = "idle"

(* EventLoopSubscriber.h:20, "Provides a guarantee: No Event will be executed after
   EventSubcriber's destructor". *)
NoEventAfterDestructor == late = {}
=============================================================================
