--------------------------- MODULE TimeseriesCharts ---------------------------
(***************************************************************************)
(* src/frontend/crypto/util/EventTimeseriesChannel.h between the event     *)
(* loop of a strategy instance, which pushes values, and the user          *)
(* interface's thread, which opens and closes chart windows on it          *)
(* (src/frontend/chart_window.cpp) and may destroy the instance meanwhile. *)
(*                                                                         *)
(* A value is the number of its push.  A step ends where the other thread  *)
(* can interfere: at the mutexes of the data and of the subscriptions and  *)
(* at the reference count of a subscription.                               *)
(***************************************************************************)
EXTENDS Integers, Sequences, SequencesExt, Queues

CONSTANTS
  Charts,      \* chart windows
  TimeOf,      \* the timestamp of each value, and so the number of values
  Capacities   \* values of m_capacity: sets of at most one duration

ASSUME TimesAreNumbers == TimeOf \in Seq(Int) /\ Capacities \subseteq SUBSET Nat
ASSUME TimeIsMonotone ==
  \A i, j \in DOMAIN TimeOf : i < j => TimeOf[i] <= TimeOf[j]

VARIABLES
  m_capacity,
  m_data,
  m_subscriptions,
  lock,       \* who holds the mutex of m_subscriptions
  pc,         \* where the strategy's loop is in push
  pushed,     \* the values stored so far
  todo,       \* subscriptions that push has still to visit
  window,     \* how far each chart window is
  attached,   \* charts whose subscription still points to the channel (m_channel)
  posted,     \* signals in the queue of the user interface's thread
  shown,      \* history: the values each chart has been given
  opened,     \* history: how many values had been stored when its snapshot was taken
  destroyed,  \* the channel is destroyed
  crashed     \* the use of a destroyed object

pushVars == <<pc, pushed, todo>>
uiVars == <<window, attached, shown, opened>>
vars == <<m_capacity, m_data, m_subscriptions, lock, pushVars, uiVars, posted, destroyed,
          crashed>>

Init ==
  /\ m_capacity \in Capacities
  /\ m_data = <<>> /\ m_subscriptions = <<>>
  /\ lock = "free"
  /\ pc = "idle" /\ pushed = 0 /\ todo = <<>>
  /\ window = [c \in Charts |-> "none"] /\ attached = {}
  /\ posted = <<>>
  /\ shown = [c \in Charts |-> <<>>] /\ opened = [c \in Charts |-> 0]
  /\ destroyed = FALSE /\ crashed = FALSE

-----------------------------------------------------------------------------
(* The strategy's loop: push *)

(* Mutant: a value that is exactly as old as the capacity goes too. *)
Outdated_AtCapacity(v, newest) ==
  \E capacity \in m_capacity : TimeOf[v] <= TimeOf[newest] - capacity

Outdated(v, newest) ==
  \E capacity \in m_capacity : TimeOf[v] < TimeOf[newest] - capacity

StoreValue ==
  /\ pc = "idle" /\ pushed < Len(TimeOf) /\ ~destroyed
  /\ pushed' = pushed + 1
  /\ m_data' = Append(Without(m_data, {v \in 1 .. pushed : Outdated(v, pushed + 1)}), pushed + 1)
  /\ pc' = "stored"
  /\ UNCHANGED <<m_capacity, m_subscriptions, lock, todo, uiVars, posted, destroyed, crashed>>

LockSubscriptions ==
  /\ pc = "stored" /\ lock = "free" /\ ~destroyed
  /\ lock' = "strategy" /\ todo' = m_subscriptions
  /\ pc' = "visiting"
  /\ UNCHANGED <<m_capacity, m_data, m_subscriptions, pushed, uiVars, posted, destroyed,
                 crashed>>

(* UNWRAP_CONTINUE(subscribtion, sub_wptr.lock()): from here on the push shares the
   subscription. *)
Promote ==
  /\ pc = "visiting" /\ todo # <<>>
  /\ IF window[Head(todo)] = "open"
     THEN pc' = "promoted" /\ UNCHANGED todo
     ELSE todo' = Tail(todo) /\ UNCHANGED pc
  /\ UNCHANGED <<m_capacity, m_data, m_subscriptions, lock, pushed, uiVars, posted,
                 destroyed, crashed>>

(* The chart's consumer emits a signal, which is queued for the other thread.  A consumer
   that went with its window is used all the same. *)
PushToConsumer ==
  /\ pc = "promoted"
  /\ pc' = "given"
  /\ IF window[Head(todo)] = "open"
     THEN /\ posted' = Append(posted, [chart |-> Head(todo), value |-> pushed])
          /\ UNCHANGED crashed
     ELSE crashed' \in BOOLEAN /\ UNCHANGED posted
  /\ UNCHANGED <<m_capacity, m_data, m_subscriptions, lock, pushed, todo, uiVars, destroyed>>

(* If the window went meanwhile, this is the last reference: the subscription's destructor
   calls unsubscribe, which waits for the mutex that its own thread holds. *)
Release ==
  /\ pc = "given"
  /\ IF window[Head(todo)] = "open"
     THEN pc' = "visiting" /\ todo' = Tail(todo)
     ELSE pc' = "stuck" /\ UNCHANGED todo
  /\ UNCHANGED <<m_capacity, m_data, m_subscriptions, lock, pushed, uiVars, posted,
                 destroyed, crashed>>

PushReturns ==
  /\ pc = "visiting" /\ todo = <<>>
  /\ pc' = "idle" /\ lock' = "free"
  /\ UNCHANGED <<m_capacity, m_data, m_subscriptions, pushed, todo, uiVars, posted,
                 destroyed, crashed>>

(* StrategyInstance's m_event_loop is its first member: the channels are destroyed while
   the loop's thread may still be in a callback that pushes. *)
PushDestroyed ==
  /\ destroyed /\ (pc = "stored" \/ (pc = "idle" /\ pushed < Len(TimeOf)))
  /\ crashed' = TRUE
  /\ UNCHANGED <<m_capacity, m_data, m_subscriptions, lock, pushVars, uiVars, posted,
                 destroyed>>

-----------------------------------------------------------------------------
(* The user interface's thread: it opens or closes one window at a time. *)

UiIdle == \A c \in Charts : window[c] \notin {"opening", "closing"}

(* subscribe: the entry comes first *)
Subscribe(c) ==
  /\ UiIdle /\ window[c] = "none" /\ lock = "free" /\ ~destroyed
  /\ lock' = "ui"
  /\ m_subscriptions' = Append(m_subscriptions, c)
  /\ attached' = attached \cup {c}
  /\ window' = [window EXCEPT ![c] = "opening"]
  /\ UNCHANGED <<m_capacity, m_data, pushVars, shown, opened, posted, destroyed, crashed>>

(* then the data; a signal emitted in the thread of its receiver is a call, so that the
   snapshot is drawn at once, under both mutexes. *)
DrawSnapshot(c) ==
  /\ window[c] = "opening"
  /\ window' = [window EXCEPT ![c] = "open"]
  /\ shown' = [shown EXCEPT ![c] = m_data]
  /\ opened' = [opened EXCEPT ![c] = pushed]
  /\ lock' = "free"
  /\ UNCHANGED <<m_capacity, m_data, m_subscriptions, pushVars, attached, posted, destroyed,
                 crashed>>

(* on_lambda *)
DrawIncrement ==
  /\ UiIdle /\ posted # <<>>
  /\ posted' = Tail(posted)
  /\ shown' = [shown EXCEPT ![Head(posted).chart] = Append(@, Head(posted).value)]
  /\ UNCHANGED <<m_capacity, m_data, m_subscriptions, lock, pushVars, window, attached,
                 opened, destroyed, crashed>>

SharedByPush(c) == pc \in {"promoted", "given"} /\ Head(todo) = c

(* ~EventSubcriber gives up its reference, and Qt drops the signals queued for a window that
   is destroyed.  The subscription goes with the last reference. *)
CloseWindow(c) ==
  /\ UiIdle /\ window[c] = "open"
  /\ window' = [window EXCEPT
       ![c] = IF SharedByPush(c) \/ c \notin attached THEN "closed" ELSE "closing"]
  /\ posted' = Without(posted, [chart : {c}, value : DOMAIN TimeOf])
  /\ UNCHANGED <<m_capacity, m_data, m_subscriptions, lock, pushVars, attached, shown,
                 opened, destroyed, crashed>>

(* Mutant: the oldest subscription goes. *)
Erased_First(subscriptions, c) ==
  IF subscriptions = <<>> THEN <<>> ELSE Tail(subscriptions)

Erased(subscriptions, c) == Without(subscriptions, {c})

Unsubscribe(c) ==
  /\ window[c] = "closing" /\ lock = "free"
  /\ m_subscriptions' = Erased(m_subscriptions, c)
  /\ window' = [window EXCEPT ![c] = "closed"]
  /\ UNCHANGED <<m_capacity, m_data, lock, pushVars, attached, shown, opened, posted,
                 destroyed, crashed>>

(* ~EventTimeseriesChannel, when the window that owns the instance runs another one *)
DestroyChannel ==
  /\ UiIdle /\ ~destroyed /\ lock = "free"
  /\ destroyed' = TRUE
  /\ attached' = {} /\ m_subscriptions' = <<>>
  /\ UNCHANGED <<m_capacity, m_data, lock, pushVars, window, shown, opened, posted, crashed>>

-----------------------------------------------------------------------------
PushStep ==
  \/ StoreValue
  \/ LockSubscriptions
  \/ Promote
  \/ PushToConsumer
  \/ Release
  \/ PushReturns
  \/ PushDestroyed

ChartStep(c) ==
  \/ Subscribe(c)
  \/ DrawSnapshot(c)
  \/ CloseWindow(c)
  \/ Unsubscribe(c)

Next ==
  /\ ~crashed
  /\ \/ PushStep
     \/ \E c \in Charts : ChartStep(c)
     \/ DrawIncrement
     \/ DestroyChannel

(* A push and a click once begun go on, and the window's event loop runs. *)
Fairness ==
  /\ WF_vars(~crashed /\ PushStep)
  /\ WF_vars(~crashed /\ DrawIncrement)
  /\ \A c \in Charts :
       WF_vars(~crashed /\ DrawSnapshot(c)) /\ WF_vars(~crashed /\ Unsubscribe(c))

Spec == Init /\ [][Next]_vars /\ Fairness

-----------------------------------------------------------------------------
TooOld(n) ==
  {v \in 1 .. n : \E capacity \in m_capacity : TimeOf[n] - TimeOf[v] > capacity}

Snapshot(n) == Without([v \in 1 .. n |-> v], TooOld(n))

(* subscribe and push, in two threads and under two mutexes: a chart opened at any moment
   shows every value that was not too old then and every later one in order, none missing;
   only the value that was being pushed when it opened may come twice. *)
ChartsShowTheSeries ==
  \A c \in Charts : window[c] = "open" =>
    \E again \in {0, 1} :
      LET all == Snapshot(opened[c]) \o [k \in 1 .. pushed |-> opened[c] - again + k]
      IN again <= opened[c] /\ IsPrefix(shown[c], all)

(* A value pushed while a chart is open is drawn in the end, whatever the other windows do,
   unless it is closed, its instance destroyed, or the push has met the last
   reference to a subscription. *)
ChartsCatchUp ==
  \A c \in Charts : \A v \in DOMAIN TimeOf :
    window[c] = "open" /\ opened[c] < v /\ v <= pushed ~>
      \/ v \in ToSet(shown[c])
      \/ window[c] # "open" \/ destroyed \/ crashed \/ pc = "stuck"
=============================================================================
