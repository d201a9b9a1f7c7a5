------------------------------ MODULE MarketData ------------------------------
(***************************************************************************)
(* Who asks for live market data: the main window                          *)
(* (src/frontend/mainwindow.cpp) starts one live strategy after the other  *)
(* and stops them; a StrategyInstance asks the gateway from its own loop;  *)
(* the gateway's loop serves the requests when it is not reconnecting.     *)
(*                                                                         *)
(* An instance is named by the guid of the one LiveMDRequest it makes.     *)
(* Its orders and its position are left out.                               *)
(*                                                                         *)
(* The window builds its gateway with the constructor's default, start =   *)
(* false (mainwindow.h:137), which makes no client and refuses each live   *)
(* request; with start = TRUE the model has what the class is written for. *)
(***************************************************************************)
EXTENDS MarketDataGateway

CONSTANTS
  Starts,      \* values of the gateway constructor's start: a set of Booleans
  MaxPanics,   \* bound: errors of strategies that stop them
  MaxPosted    \* bound: statuses on their way to the window

None == "none"

ASSUME NoneIsNoRequest == None \notin LiveRequests

VARIABLES
  requests,    \* LiveMDRequests in the queue of the gateway's loop
  current,     \* m_strategy_instance
  used,        \* history: instances created so far
  events,      \* "start" and "stop" in the queue of the current instance's loop
  m_live_md_requests,
  stopping,    \* m_stop_request_handled
  finished,    \* m_finish_promise has its value
  panicked,    \* m_status_on_stop is Panic
  retrieved,   \* finish_future has been called
  pb_run, pb_stop,   \* the window's buttons
  posted,      \* statuses on their way to the window
  subscribed,  \* m_sub is subscribed to the instance's statuses
  uiWaits,     \* a click on Stop waits for the finish promise
  overtaken,   \* history: live requests handled after their strategy was stopped
  abandoned,   \* history: strategies replaced while they ran
  panics       \* history: a count for the bound

instVars == <<events, m_live_md_requests, stopping, finished, panicked>>
uiVars   == <<current, used, retrieved, pb_run, pb_stop, uiWaits, subscribed, abandoned>>
rest     == <<requests, instVars, uiVars, posted, overtaken, panics>>
vars     == <<gwVars, rest>>

Init ==
  /\ \E start \in Starts : Init_Gateway(start)
  /\ requests = <<>>
  /\ current = None /\ used = {}
  /\ events = <<>> /\ m_live_md_requests = {}
  /\ stopping = FALSE /\ finished = FALSE /\ panicked = FALSE
  /\ pb_run = TRUE /\ pb_stop = FALSE /\ uiWaits = FALSE /\ retrieved = FALSE
  /\ posted = <<>> /\ subscribed = FALSE
  /\ overtaken = {} /\ abandoned = {} /\ panics = 0

-----------------------------------------------------------------------------
(* The main window.  What an instance has posted is delivered even when another one has
   taken its place: MainWindowEventConsumer discards nothing. *)

UiIdle == ~uiWaits /\ pc["gateway"] # "starting"

(* The instance there was is destroyed, whatever it is doing. *)
on_pb_run_clicked(i) ==
  /\ UiIdle /\ pb_run /\ i \notin used
  /\ StrategyLoopReplaced
  /\ current' = i /\ used' = used \cup {i}
  /\ abandoned' = IF current = None \/ finished THEN abandoned ELSE abandoned \cup {current}
  /\ events' = <<"start">> /\ m_live_md_requests' = {}
  /\ stopping' = FALSE /\ finished' = FALSE /\ panicked' = FALSE
  /\ subscribed' = TRUE /\ retrieved' = FALSE
  /\ UNCHANGED <<requests, pb_run, pb_stop, uiWaits, posted, overtaken, panics>>

(* Every status but Live ends the subscription. *)
handle_status_changed ==
  /\ posted # <<>> /\ ~uiWaits
  /\ posted' = Tail(posted)
  /\ pb_stop' = (Head(posted) = "Live")
  /\ pb_run' = (Head(posted) # "Live")
  /\ subscribed' = (subscribed /\ Head(posted) = "Live")
  /\ UNCHANGED <<gwVars, requests, instVars, current, used, retrieved, uiWaits, abandoned,
                 overtaken, panics>>

(* stop_async: for each of m_live_md_requests *)
Unsubscribed ==
  \/ m_live_md_requests = {} /\ UNCHANGED gwVars
  \/ \E r \in m_live_md_requests : unsubscribe_from_live(r)

stop_async ==
  /\ Unsubscribed
  /\ events' = Append(events, "stop")
  /\ overtaken' = overtaken \cup ({current} \ m_live_requests)

(* The window then waits for the finish promise: it shows nothing meanwhile. *)
on_pb_stop_clicked ==
  /\ UiIdle /\ pb_stop /\ ~retrieved
  /\ stop_async
  /\ uiWaits' = TRUE /\ retrieved' = TRUE
  /\ UNCHANGED <<requests, m_live_md_requests, stopping, finished, panicked, current, used,
                 pb_run, pb_stop, posted, subscribed, abandoned, panics>>

(* get_future throws when it is called again: Stop has stayed enabled because the window
   was no longer subscribed when the instance stopped. *)
StopClickedAgain ==
  /\ UiIdle /\ pb_stop /\ retrieved
  /\ Crash
  /\ UNCHANGED rest

StopReturns ==
  /\ uiWaits /\ finished
  /\ uiWaits' = FALSE
  /\ UNCHANGED <<gwVars, requests, instVars, current, used, retrieved, pb_run, pb_stop,
                 posted, subscribed, abandoned, overtaken, panics>>

-----------------------------------------------------------------------------
(* The strategy instance's loop: it waits while it reconnects the gateway. *)

Runs(event) == events # <<>> /\ Head(events) = event /\ pc["strategy"] = "idle"

(* m_status.push: a bound keeps only MaxPosted undelivered statuses. *)
Post(status) ==
  posted' = IF subscribed /\ Len(posted) < MaxPosted THEN Append(posted, status) ELSE posted

Started == current # None /\ "start" \notin {events[k] : k \in DOMAIN events}

(* after_every_event, ready_to_finish and finish_if_needed_and_ready, over the state an
   event has left: an instance without requests says that it has stopped also before it
   has started and at each event after it has finished.  Whether its position is closed
   is anybody's guess once it runs. *)
after_every_event ==
  \E closed \in IF Started THEN BOOLEAN ELSE {TRUE} :
    LET ready_to_finish == closed /\ m_live_md_requests' = {} IN
      /\ IF ready_to_finish THEN Post(IF panicked THEN "Panic" ELSE "Stopped")
                            ELSE UNCHANGED posted
      /\ finished' = (finished \/ (stopping' /\ ready_to_finish))

StartRequest ==
  /\ Runs("start")
  /\ events' = Tail(events)
  /\ m_live_md_requests' = {current}
  /\ Post("Live")
  /\ requests' = Append(requests, current)
  /\ UNCHANGED <<gwVars, stopping, finished, panicked, uiVars, overtaken, panics>>

(* The strategy's error channel: stop_async(true), in its own loop. *)
Panics ==
  /\ pc["strategy"] = "idle" /\ m_live_md_requests # {}
  /\ panics < MaxPanics
  /\ panics' = panics + 1
  /\ stop_async
  /\ panicked' = TRUE
  /\ Post("Panic")
  /\ UNCHANGED <<requests, m_live_md_requests, stopping, finished, uiVars>>

StopRequest ==
  /\ Runs("stop")
  /\ events' = Tail(events)
  /\ m_live_md_requests' = {}
  /\ stopping' = TRUE
  /\ after_every_event
  /\ UNCHANGED <<gwVars, requests, panicked, uiVars, overtaken, panics>>

(* An event that this model leaves out: a trade, or a price of whatever symbol the gateway
   is subscribed to, which reaches every instance. *)
OtherEvent ==
  /\ current # None /\ pc["strategy"] = "idle"
  /\ Started \/ (topics # {} /\ conn = "open")
  /\ UNCHANGED <<m_live_md_requests, stopping>> /\ after_every_event
  /\ UNCHANGED <<gwVars, requests, events, panicked, uiVars, overtaken, panics>>

-----------------------------------------------------------------------------
(* The gateway's loop *)

GatewayServes ==
  /\ pc["gateway"] = "idle" /\ requests # <<>>
  /\ requests' = Tail(requests)
  /\ handle_live(Head(requests))
  /\ UNCHANGED <<instVars, uiVars, posted, overtaken, panics>>

-----------------------------------------------------------------------------
LoopStep(l) ==
  \/ handle_request(l)
  \/ ResetPong(l)
  \/ WaitSucceeds(l)
  \/ WaitTimesOut(l)
  \/ WaitReadsFreedMemory(l)
  \/ Resubscribe(l)

ClientSteps ==
  \/ on_connected
  \/ ConnectionCloses
  \/ ConnectionGoesSilent
  \/ ClientThreadEnds
  \/ on_pong_received
  \/ WorkerPings

InstanceSteps ==
  \/ StartRequest
  \/ StopRequest
  \/ OtherEvent

Next ==
  /\ ~crashed
  /\ \/ \E l \in Loops : LoopStep(l) /\ UNCHANGED rest
     \/ (ClientSteps \/ CheckFires) /\ UNCHANGED rest
     \/ \E i \in LiveRequests : on_pb_run_clicked(i)
     \/ handle_status_changed
     \/ on_pb_stop_clicked
     \/ StopClickedAgain
     \/ StopReturns
     \/ InstanceSteps
     \/ Panics
     \/ GatewayServes

Spec == Init /\ [][Next]_vars

-----------------------------------------------------------------------------
(* reconnect_ws_client, handle_event(LiveMDRequest) and unsubscribe_from_live, in three
   threads: whenever the connection is watched and no loop is replacing it, exactly the
   live requests are subscribed on it. *)
SubscriptionsAreTheRequests ==
  m_ping_sender /\ (\A l \in Loops : pc[l] \in {"idle", "verified"}) =>
    topics = {SymbolOf[r] : r \in m_live_requests}

(* StrategyInstanceTest.cpp:251, "Must unsubscribe on stop": the gateway keeps a live
   request no longer than its strategy wants prices, unless the stop overtook the
   request in the gateway's queue or the strategy was replaced while it ran.  One such
   request blocks every later one ("More than one MD live request"). *)
RequestsHaveOwners ==
  \A r \in m_live_requests \ (overtaken \cup abandoned) :
    r = current /\ r \in m_live_md_requests

(* ConnectionWatcher: a gateway whose loop is the only one in the process gives up a
   connection it watches and that answers only if a pong fell between the ping and the
   reset behind it, ConnectionWatcher.cpp:33-39. *)
AnsweringConnectionsAreKept ==
  [][conn = "open" /\ conn' = "connecting" /\ m_ping_sender /\ running = {"gateway"} =>
       pingsUnanswered > 0 \/ pongLost]_vars

(* on_connection_verified, on_connection_lost and reconnect_ws_client: from the first
   connection on, a check is delayed, queued or under way, so that no way of losing a
   connection, and no other thread that handles checks too, ends the watch over it. *)
WatchGoesOn ==
  watched => delayed > 0 \/ \E l \in Loops : checks[l] > 0 \/ pc[l] # "idle"
=============================================================================
