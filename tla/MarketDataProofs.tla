--------------------------- MODULE MarketDataProofs ---------------------------
(***************************************************************************)
(* The market data connection, for every number of requests, symbols,      *)
(* checks and instances, whatever the network and the user do: the watch   *)
(* over it never ends; what it carries are the live requests, and while it *)
(* answers it is kept; and every live request has an owner, though it      *)
(* passes through the queue of its instance's loop and the queue of the    *)
(* gateway's loop and is cancelled from a third thread.                    *)
(***************************************************************************)
EXTENDS MarketData, TLAPS

(* The variables the watch depends on have their types. *)
WatchTypes ==
  /\ running \subseteq Loops /\ "gateway" \in running
  /\ delayed \in Nat
  /\ checks \in [Loops -> Nat]
  /\ pc \in [Loops -> {"idle", "starting", "waiting", "ready", "verified"}]

(* While the gateway's constructor waits for its first connection nobody else is there to
   set up a watch: the constructor that gives up leaves none behind. *)
StartsAlone ==
  pc["gateway"] = "starting" =>
    /\ ~watched /\ running = {"gateway"}
    /\ pc["strategy"] = "idle" /\ checks["strategy"] = 0

(* The next check is with the scheduler or in the queue of the gateway's own loop, or a
   loop is at a point of reconnect_ws_client behind which it is delayed again. *)
WatchIsHeld ==
  watched => \/ delayed > 0
             \/ checks["gateway"] > 0
             \/ \E l \in Loops : pc[l] \in {"waiting", "ready"}

WatchInv ==
  /\ WatchTypes
  /\ pc["strategy"] # "starting"
  /\ StartsAlone
  /\ WatchIsHeld

watchVars == <<running, delayed, checks, pc, watched>>

-----------------------------------------------------------------------------
(* A delayed check more: the bound keeps it a number, and one at least. *)
LEMMA CappedIsPositive ==
  ASSUME NEW n \in Nat
  PROVE  Capped(n + 1) \in Nat /\ Capped(n + 1) > 0
BY BoundsArePositive DEF Capped

(* In the initial state nothing is watched. *)
LEMMA InitWatchInv == Init => WatchInv
<1> SUFFICES ASSUME NEW start \in Starts, Init_Gateway(start) PROVE WatchInv
  BY DEF Init
<1> QED
  BY DEF Init_Gateway, WatchInv, WatchTypes, StartsAlone, WatchIsHeld, Loops

(* Steps of the network, of the client's thread and of the others leave it alone. *)
LEMMA StutterWatchInv == WatchInv /\ UNCHANGED watchVars => WatchInv'
BY DEF WatchInv, WatchTypes, StartsAlone, WatchIsHeld, watchVars

(* A loop takes a check out of its queue: it finds the connection alive and delays the
   next check, or replaces the client. *)
LEMMA HandleRequestStep ==
  ASSUME WatchInv, NEW l \in Loops, handle_request(l)
  PROVE  WatchInv'
<1> USE DEF WatchInv, WatchTypes, StartsAlone, WatchIsHeld
<1>1. checks' = [checks EXCEPT ![l] = @ - 1] /\ checks[l] > 0 /\ pc[l] = "idle"
  BY DEF handle_request
<1>2. running' = running /\ watched' = watched
  BY DEF handle_request
<1>3. CASE FoundAlive
  <2>1. delayed' = Capped(delayed + 1) /\ pc' = [pc EXCEPT ![l] = "verified"]
    BY <1>3 DEF handle_request
  <2>2. delayed' \in Nat /\ delayed' > 0
    BY <2>1, CappedIsPositive
  <2> QED
    BY <1>1, <1>2, <2>1, <2>2 DEF Loops
<1>4. CASE ~FoundAlive
  <2>1. delayed' = delayed /\ pc' = [pc EXCEPT ![l] = "waiting"]
    BY <1>4 DEF handle_request, ClientReplaced
  <2> QED
    BY <1>1, <1>2, <2>1 DEF Loops
<1> QED
  BY <1>3, <1>4

(* The step of the scheduler: the gateway's loop gets the check, whoever else gets it. *)
LEMMA CheckFiresStep == WatchInv /\ CheckFires => WatchInv'
<1> SUFFICES ASSUME WatchInv, CheckFires PROVE WatchInv'
  OBVIOUS
<1> USE DEF WatchInv, WatchTypes, StartsAlone, WatchIsHeld
<1>1. /\ delayed' = delayed - 1 /\ delayed > 0
      /\ checks' = [l \in Loops |-> IF l \in running THEN Capped(checks[l] + 1) ELSE 0]
      /\ running' = running /\ pc' = pc /\ watched' = watched
  BY DEF CheckFires
<1>2. \A l \in Loops : Capped(checks[l] + 1) \in Nat /\ Capped(checks[l] + 1) > 0
  BY CappedIsPositive
<1> QED
  BY <1>1, <1>2 DEF Loops

(* Behind each way out of reconnect_ws_client a check is delayed again; only the constructor
   gives up, and then nothing was watched. *)
LEMMA ReconnectStep ==
  ASSUME WatchInv, NEW l \in Loops, WaitSucceeds(l) \/ WaitTimesOut(l) \/ Resubscribe(l)
  PROVE  WatchInv'
<1> USE DEF WatchInv, WatchTypes, StartsAlone, WatchIsHeld, Waits
<1>1. Capped(delayed + 1) \in Nat /\ Capped(delayed + 1) > 0
  BY CappedIsPositive
<1>2. CASE WaitSucceeds(l)
  BY <1>2 DEF WaitSucceeds, Loops
<1>3. CASE WaitTimesOut(l)
  <2>1. CASE pc[l] = "starting"
    BY <1>3, <2>1 DEF WaitTimesOut, RetryAfter, Loops
  <2>2. CASE pc[l] # "starting"
    BY <1>1, <1>3, <2>2 DEF WaitTimesOut, RetryAfter, Loops
  <2> QED
    BY <2>1, <2>2
<1>4. CASE Resubscribe(l)
  <2>1. CASE m_live_requests # {} /\ ~Sendable
    BY <1>4, <2>1, StutterWatchInv DEF Resubscribe, Crash, watchVars
  <2>2. CASE ~(m_live_requests # {} /\ ~Sendable)
    BY <1>1, <1>4, <2>2 DEF Resubscribe, Loops
  <2> QED
    BY <2>1, <2>2
<1> QED
  BY <1>2, <1>3, <1>4

(* A step of one of the loops that handle checks. *)
LEMMA LoopStepWatchInv ==
  ASSUME WatchInv, NEW l \in Loops, LoopStep(l)
  PROVE  WatchInv'
<1>1. CASE handle_request(l)
  BY <1>1, HandleRequestStep
<1>2. CASE ResetPong(l)
  BY <1>2 DEF ResetPong, WatchInv, WatchTypes, StartsAlone, WatchIsHeld, Loops
<1>3. CASE WaitSucceeds(l) \/ WaitTimesOut(l) \/ Resubscribe(l)
  BY <1>3, ReconnectStep
<1>4. CASE WaitReadsFreedMemory(l)
  BY <1>4, StutterWatchInv DEF WaitReadsFreedMemory, Crash, watchVars
<1> QED
  BY <1>1, <1>2, <1>3, <1>4 DEF LoopStep

(* A new strategy: the queue that goes with the old loop was not the only one. *)
LEMMA RunClickedStep ==
  ASSUME WatchInv, NEW i \in LiveRequests, on_pb_run_clicked(i)
  PROVE  WatchInv'
<1>1. pc["gateway"] # "starting" /\ StrategyLoopReplaced
  BY DEF on_pb_run_clicked, UiIdle
<1> QED
  BY <1>1 DEF StrategyLoopReplaced, WatchInv, WatchTypes, StartsAlone, WatchIsHeld, Loops

(* Requests and cancellations: none of them touches the watch. *)
LEMMA RequestsStutter ==
  ASSUME NEW r, handle_live(r) \/ unsubscribe_from_live(r)
  PROVE  UNCHANGED watchVars
BY DEF handle_live, unsubscribe_from_live, Crash, gwVars, watchVars

(* Each step keeps the invariant. *)
LEMMA StepWatchInv == WatchInv /\ [Next]_vars => WatchInv'
<1> SUFFICES ASSUME WatchInv, [Next]_vars PROVE WatchInv'
  OBVIOUS
<1>1. ASSUME NEW l \in Loops, LoopStep(l) PROVE WatchInv'
  BY <1>1, LoopStepWatchInv
<1>2. CASE ClientSteps
  <2>1. UNCHANGED watchVars
    BY <1>2 DEF ClientSteps, on_connected, ConnectionCloses, ConnectionGoesSilent,
       ClientThreadEnds, on_pong_received, WorkerPings, watchVars
  <2> QED
    BY <2>1, StutterWatchInv
<1>3. CASE CheckFires
  BY <1>3, CheckFiresStep
<1>4. ASSUME NEW i \in LiveRequests, on_pb_run_clicked(i) PROVE WatchInv'
  BY <1>4, RunClickedStep
<1>5. CASE handle_status_changed \/ StopReturns \/ StartRequest \/ StopRequest \/ OtherEvent
  <2>1. UNCHANGED watchVars
    BY <1>5 DEF handle_status_changed, StopReturns, StartRequest, StopRequest, OtherEvent,
       gwVars, watchVars
  <2> QED
    BY <2>1, StutterWatchInv
<1>6. CASE on_pb_stop_clicked \/ Panics
  <2>1. UNCHANGED watchVars
    BY <1>6, RequestsStutter DEF on_pb_stop_clicked, Panics, stop_async, Unsubscribed,
       gwVars, watchVars
  <2> QED
    BY <2>1, StutterWatchInv
<1>7. CASE StopClickedAgain
  BY <1>7, StutterWatchInv DEF StopClickedAgain, Crash, watchVars
<1>8. CASE GatewayServes
  <2>1. UNCHANGED watchVars
    BY <1>8, RequestsStutter DEF GatewayServes
  <2> QED
    BY <2>1, StutterWatchInv
<1>9. CASE UNCHANGED vars
  BY <1>9, StutterWatchInv DEF vars, gwVars, watchVars
<1> QED
  BY <1>1, <1>2, <1>3, <1>4, <1>5, <1>6, <1>7, <1>8, <1>9 DEF Next, InstanceSteps

(* Once the market data gateway has been connected, there is always a next check of its
   connection: ByBitMarketDataGateway.cpp and ConnectionWatcher.cpp. *)
THEOREM TheWatchGoesOn == Spec => []WatchGoesOn
<1>1. WatchInv => WatchGoesOn
  BY DEF WatchInv, WatchTypes, WatchIsHeld, WatchGoesOn, Loops
<1> QED
  BY <1>1, InitWatchInv, StepWatchInv, PTL DEF Spec

-----------------------------------------------------------------------------
Symbols == {SymbolOf[r] : r \in m_live_requests}

(* The gateway takes one live request; the client was never asked for anything else; and
   behind the watcher's back nobody forgets to ask a new client again. *)
SubsInv ==
  /\ \A r, q \in m_live_requests : r = q
  /\ topics \subseteq Symbols
  /\ m_ping_sender => Symbols \subseteq topics \/ \E l \in Loops : pc[l] = "ready"

subsVars == <<m_live_requests, topics, m_ping_sender, pc>>

LEMMA StutterSubsInv == SubsInv /\ UNCHANGED subsVars => SubsInv'
BY DEF SubsInv, subsVars, Symbols

(* A request, in the gateway's loop, and a cancellation, in any. *)
LEMMA RequestsSubsInv ==
  ASSUME SubsInv, NEW r, handle_live(r) \/ unsubscribe_from_live(r)
  PROVE  SubsInv'
<1>1. UNCHANGED <<m_ping_sender, pc>>
  BY DEF handle_live, unsubscribe_from_live, Crash, gwVars, watcher
<1>2. CASE UNCHANGED subsVars
  BY <1>2, StutterSubsInv
<1>3. CASE /\ m_live_requests = {} /\ m_live_requests' = {r}
           /\ topics' = topics \cup {SymbolOf[r]}
  BY <1>1, <1>3 DEF SubsInv, Symbols
<1>4. CASE /\ r \in m_live_requests /\ m_live_requests' = m_live_requests \ {r}
           /\ topics' = topics \ {SymbolOf[r]}
  <2>1. m_live_requests = {r} /\ m_live_requests' = {}
    BY <1>4 DEF SubsInv
  <2> QED BY <1>1, <1>4, <2>1 DEF SubsInv, Symbols
<1> QED
  BY <1>2, <1>3, <1>4 DEF handle_live, LiveAccepted, unsubscribe_from_live, LiveErased, Crash,
     gwVars, client, watcher, subsVars

(* A check and what it leads to. *)
LEMMA LoopStepSubsInv ==
  ASSUME WatchTypes, SubsInv, NEW l \in Loops, LoopStep(l)
  PROVE  SubsInv'
<1>1. CASE handle_request(l)
  <2>1. pc[l] = "idle" /\ UNCHANGED m_live_requests
    BY <1>1 DEF handle_request
  <2>2. CASE FoundAlive
    <3>1. pc' = [pc EXCEPT ![l] = "verified"] /\ UNCHANGED <<topics, m_ping_sender>>
      BY <1>1, <2>2 DEF handle_request
    <3>2. \A k \in Loops : pc[k] = "ready" => pc'[k] = "ready"
      BY <2>1, <3>1 DEF WatchTypes
    <3> QED BY <2>1, <3>1, <3>2 DEF SubsInv, Symbols
  <2>3. CASE ~FoundAlive
    BY <1>1, <2>1, <2>3 DEF handle_request, ClientReplaced, SubsInv, Symbols
  <2> QED BY <2>2, <2>3
<1>2. CASE ResetPong(l) \/ WaitTimesOut(l)
  <2>1. /\ pc[l] # "ready" /\ pc' = [pc EXCEPT ![l] = "idle"]
        /\ UNCHANGED <<m_live_requests, topics, m_ping_sender>>
    BY <1>2 DEF ResetPong, WaitTimesOut, Waits, client, watcher
  <2>2. \A k \in Loops : pc[k] = "ready" => pc'[k] = "ready"
    BY <2>1 DEF WatchTypes
  <2> QED BY <2>1, <2>2 DEF SubsInv, Symbols
<1>3. CASE WaitSucceeds(l)
  <2>1. pc'[l] = "ready" /\ UNCHANGED <<m_live_requests, topics>>
    BY <1>3 DEF WaitSucceeds, WatchTypes
  <2> QED BY <2>1 DEF SubsInv, Symbols
<1>4. CASE Resubscribe(l)
  <2>1. CASE m_live_requests # {} /\ ~Sendable
    BY <1>4, <2>1, StutterSubsInv DEF Resubscribe, Crash, client, watcher, subsVars
  <2>2. CASE ~(m_live_requests # {} /\ ~Sendable)
    <3>1. topics' = topics \cup Symbols /\ UNCHANGED m_live_requests
      BY <1>4, <2>2 DEF Resubscribe, Resubscribed, Symbols
    <3> QED BY <3>1 DEF SubsInv, Symbols
  <2> QED BY <2>1, <2>2
<1>5. CASE WaitReadsFreedMemory(l)
  BY <1>5, StutterSubsInv DEF WaitReadsFreedMemory, Crash, client, watcher, subsVars
<1> QED BY <1>1, <1>2, <1>3, <1>4, <1>5 DEF LoopStep

LEMMA StepSubsInv == WatchTypes /\ SubsInv /\ [Next]_vars => SubsInv'
<1> SUFFICES ASSUME WatchTypes, SubsInv, [Next]_vars PROVE SubsInv'
  OBVIOUS
<1>1. ASSUME NEW l \in Loops, LoopStep(l) PROVE SubsInv'
  BY <1>1, LoopStepSubsInv
<1>2. CASE ClientSteps \/ CheckFires
  <2>1. UNCHANGED subsVars
    BY <1>2 DEF ClientSteps, on_connected, ConnectionCloses, ConnectionGoesSilent,
       ClientThreadEnds, on_pong_received, WorkerPings, CheckFires, client, watcher, subsVars
  <2> QED BY <2>1, StutterSubsInv
<1>3. ASSUME NEW i \in LiveRequests, on_pb_run_clicked(i) PROVE SubsInv'
  BY <1>3, StutterSubsInv DEF on_pb_run_clicked, StrategyLoopReplaced, client, watcher, subsVars
<1>4. CASE handle_status_changed \/ StopReturns \/ StartRequest \/ StopRequest \/ OtherEvent
  <2>1. UNCHANGED subsVars
    BY <1>4 DEF handle_status_changed, StopReturns, StartRequest, StopRequest, OtherEvent,
       gwVars, client, watcher, subsVars
  <2> QED BY <2>1, StutterSubsInv
<1>5. CASE on_pb_stop_clicked \/ Panics
  <2>1. UNCHANGED gwVars \/ \E r \in m_live_md_requests : unsubscribe_from_live(r)
    BY <1>5 DEF on_pb_stop_clicked, Panics, stop_async, Unsubscribed
  <2>2. CASE UNCHANGED gwVars
    BY <2>2, StutterSubsInv DEF gwVars, client, watcher, subsVars
  <2> QED BY <2>1, <2>2, RequestsSubsInv
<1>6. CASE StopClickedAgain
  BY <1>6, StutterSubsInv DEF StopClickedAgain, Crash, client, watcher, subsVars
<1>7. CASE GatewayServes
  BY <1>7, RequestsSubsInv DEF GatewayServes
<1>8. CASE UNCHANGED vars
  BY <1>8, StutterSubsInv DEF vars, gwVars, client, watcher, subsVars
<1> QED
  BY <1>1, <1>2, <1>3, <1>4, <1>5, <1>6, <1>7, <1>8 DEF Next, InstanceSteps

(* reconnect_ws_client, LiveMDRequests and unsubscribe_from_live: a connection that is
   watched and not being replaced carries the live requests, no more and no less. *)
THEOREM ConnectionCarriesTheRequests == Spec => []SubscriptionsAreTheRequests
<1>1. Init => SubsInv
  BY DEF Init, Init_Gateway, SubsInv, Symbols
<1>2. SubsInv => SubscriptionsAreTheRequests
  BY DEF SubsInv, Symbols, SubscriptionsAreTheRequests
<1>3. WatchInv => WatchTypes
  BY DEF WatchInv
<1> QED
  BY <1>1, <1>2, <1>3, InitWatchInv, StepWatchInv, StepSubsInv, PTL DEF Spec

-----------------------------------------------------------------------------
(* While the gateway's loop is the only one, what the watcher knows of a connection it
   watches is right: without a pong since the last reset an answer is on its way, or it
   was lost between a ping and the reset; and before the reset there is the answer to
   the ping just sent. *)
AnsweringInv ==
  /\ running \in {{"gateway"}, Loops}
  /\ pingsUnanswered \in Nat
  /\ running = {"gateway"} =>
       /\ pc["strategy"] = "idle" /\ checks["strategy"] = 0 /\ usesDestroyed = {}
       /\ pc["gateway"] = "verified" => conn # "connecting"
       /\ conn = "open" /\ m_ping_sender =>
            \/ pingsUnanswered > 0 \/ pongLost
            \/ m_pong_received /\ pc["gateway"] # "verified"

answeringVars == <<running, conn, pingsUnanswered, m_ping_sender, m_pong_received, pc,
                   usesDestroyed, checks, pongLost>>

LEMMA StutterAnsweringInv == AnsweringInv /\ UNCHANGED answeringVars => AnsweringInv'
BY DEF AnsweringInv, answeringVars

(* A ping to a connection that is open will be answered, as long as it stays open. *)
LEMMA PingIsAnswered ==
  ASSUME pingsUnanswered \in Nat
  PROVE  /\ Pinged \in Nat /\ Pinged >= pingsUnanswered
         /\ conn = "open" => Pinged > 0
BY BoundsArePositive DEF Pinged

LEMMA RequestsAnsweringInv ==
  ASSUME AnsweringInv, NEW r, handle_live(r) \/ unsubscribe_from_live(r)
  PROVE  AnsweringInv'
<1>1. UNCHANGED answeringVars
  BY DEF handle_live, unsubscribe_from_live, Crash, gwVars, client, watcher, answeringVars
<1> QED BY <1>1, StutterAnsweringInv

LEMMA ClientStepAnsweringInv ==
  ASSUME AnsweringInv, ClientSteps \/ CheckFires
  PROVE  AnsweringInv'
<1>1. CASE on_connected
  BY <1>1 DEF on_connected, AnsweringInv
<1>2. CASE ConnectionCloses \/ ConnectionGoesSilent \/ ClientThreadEnds
  BY <1>2 DEF ConnectionCloses, ConnectionGoesSilent, ClientThreadEnds, watcher, client,
     AnsweringInv
<1>3. CASE on_pong_received
  <2>1. pingsUnanswered > 0 /\ pingsUnanswered' = pingsUnanswered - 1 /\ m_pong_received'
        /\ UNCHANGED <<running, conn, m_ping_sender, pc, usesDestroyed, checks>>
    BY <1>3 DEF on_pong_received, PongHandled
  <2>2. pc["gateway"] = "verified" => pongLost'
    BY <1>3, Zenon DEF on_pong_received, Loops
  <2> QED BY <2>1, <2>2 DEF AnsweringInv
<1>4. CASE WorkerPings
  BY <1>4, PingIsAnswered DEF WorkerPings, watcher, AnsweringInv
<1>5. CASE CheckFires
  BY <1>5 DEF CheckFires, client, watcher, AnsweringInv, Loops
<1> QED BY <1>1, <1>2, <1>3, <1>4, <1>5 DEF ClientSteps

LEMMA LoopStepAnsweringInv ==
  ASSUME WatchTypes, AnsweringInv, NEW l \in Loops, LoopStep(l)
  PROVE  AnsweringInv'
<1> USE DEF AnsweringInv
<1>0. UNCHANGED running
  BY DEF LoopStep, handle_request, ResetPong, WaitSucceeds, WaitTimesOut,
     WaitReadsFreedMemory, Resubscribe, Crash
<1>1. Pinged \in Nat /\ pingsUnanswered' \in Nat
  BY PingIsAnswered DEF LoopStep, handle_request, ResetPong, WaitSucceeds, WaitTimesOut,
     WaitReadsFreedMemory, Resubscribe, Crash, ClientReplaced, client
<1>2. CASE running # {"gateway"}
  BY <1>0, <1>1, <1>2
<1>3. CASE running = {"gateway"}
  <2>1. l = "gateway"
    BY <1>3 DEF LoopStep, handle_request, ResetPong, WaitSucceeds, WaitTimesOut,
       WaitReadsFreedMemory, Resubscribe, Waits, Loops
  <2>2. pc'["strategy"] = "idle" /\ checks'["strategy"] = 0
    BY <1>3, <2>1 DEF LoopStep, handle_request, ResetPong, WaitSucceeds, WaitTimesOut,
       WaitReadsFreedMemory, Resubscribe, Crash, ClientReplaced, WatchTypes, Loops
  <2>3. usesDestroyed' = {}
    BY <1>3, <2>1 DEF LoopStep, handle_request, ResetPong, WaitSucceeds, WaitTimesOut,
       WaitReadsFreedMemory, Resubscribe, Crash, ClientReplaced, WatchTypes, Loops
  <2>4. CASE handle_request(l)
    <3>1. CASE FoundAlive
      <4>1. pc'["gateway"] = "verified" /\ pingsUnanswered' = Pinged
            /\ UNCHANGED <<conn, m_ping_sender, m_pong_received, pongLost>>
        BY <2>1, <2>4, <3>1 DEF handle_request, WatchTypes, Loops
      <4>2. conn # "connecting"
        BY <3>1 DEF FoundAlive, Sendable
      <4> QED BY <1>0, <1>1, <2>2, <2>3, <4>1, <4>2, PingIsAnswered
    <3>2. CASE ~FoundAlive
      <4>1. pc'["gateway"] = "waiting" /\ ~m_ping_sender'
        BY <2>1, <2>4, <3>2 DEF handle_request, ClientReplaced, WatchTypes, Loops
      <4> QED BY <1>0, <1>1, <2>2, <2>3, <4>1
    <3> QED BY <3>1, <3>2
  <2>5. CASE ResetPong(l)
    <3>1. pc["gateway"] = "verified" /\ pc'["gateway"] = "idle"
          /\ UNCHANGED <<conn, pingsUnanswered, m_ping_sender, pongLost>>
      BY <2>1, <2>5 DEF ResetPong, client, WatchTypes, Loops
    <3> QED BY <1>0, <1>1, <1>3, <2>2, <2>3, <3>1
  <2>6. CASE WaitSucceeds(l)
    <3>1. pc'["gateway"] = "ready" /\ pingsUnanswered' = Pinged
          /\ UNCHANGED <<conn, m_pong_received, pongLost>>
      BY <2>1, <2>6 DEF WaitSucceeds, WatchTypes, Loops
    <3> QED BY <1>0, <1>1, <2>2, <2>3, <3>1, PingIsAnswered
  <2>7. CASE WaitTimesOut(l) \/ Resubscribe(l)
    <3>1. /\ UNCHANGED <<conn, pingsUnanswered, m_ping_sender, m_pong_received, pongLost>>
          /\ pc["gateway"] # "verified"
          /\ UNCHANGED pc \/ pc'["gateway"] = "idle"
      BY <2>1, <2>7 DEF WaitTimesOut, Resubscribe, Waits, Crash, client, watcher,
         WatchTypes, Loops
    <3> QED BY <1>0, <1>1, <1>3, <2>2, <2>3, <3>1
  <2>8. CASE WaitReadsFreedMemory(l)
    BY <2>8, StutterAnsweringInv DEF WaitReadsFreedMemory, Crash, client, watcher,
       answeringVars
  <2> QED BY <2>4, <2>5, <2>6, <2>7, <2>8 DEF LoopStep
<1> QED BY <1>2, <1>3

LEMMA StepAnsweringInv == WatchTypes /\ AnsweringInv /\ [Next]_vars => AnsweringInv'
<1> SUFFICES ASSUME WatchTypes, AnsweringInv, [Next]_vars PROVE AnsweringInv'
  OBVIOUS
<1>1. ASSUME NEW l \in Loops, LoopStep(l) PROVE AnsweringInv'
  BY <1>1, LoopStepAnsweringInv
<1>2. CASE ClientSteps \/ CheckFires
  BY <1>2, ClientStepAnsweringInv
<1>3. ASSUME NEW i \in LiveRequests, on_pb_run_clicked(i) PROVE AnsweringInv'
  <2>1. running' = Loops /\ UNCHANGED pingsUnanswered /\ Loops # {"gateway"}
    BY <1>3 DEF on_pb_run_clicked, StrategyLoopReplaced, client, Loops
  <2> QED BY <2>1 DEF AnsweringInv
<1>4. CASE handle_status_changed \/ StopReturns \/ StartRequest \/ StopRequest \/ OtherEvent
  <2>1. UNCHANGED answeringVars
    BY <1>4 DEF handle_status_changed, StopReturns, StartRequest, StopRequest, OtherEvent,
       gwVars, client, watcher, answeringVars
  <2> QED BY <2>1, StutterAnsweringInv
<1>5. CASE on_pb_stop_clicked \/ Panics
  <2>1. UNCHANGED gwVars \/ \E r \in m_live_md_requests : unsubscribe_from_live(r)
    BY <1>5 DEF on_pb_stop_clicked, Panics, stop_async, Unsubscribed
  <2>2. CASE UNCHANGED gwVars
    BY <2>2, StutterAnsweringInv DEF gwVars, client, watcher, answeringVars
  <2> QED BY <2>1, <2>2, RequestsAnsweringInv
<1>6. CASE StopClickedAgain
  BY <1>6, StutterAnsweringInv DEF StopClickedAgain, Crash, client, watcher, answeringVars
<1>7. CASE GatewayServes
  BY <1>7, RequestsAnsweringInv DEF GatewayServes
<1>8. CASE UNCHANGED vars
  BY <1>8, StutterAnsweringInv DEF vars, gwVars, client, watcher, answeringVars
<1> QED
  BY <1>1, <1>2, <1>3, <1>4, <1>5, <1>6, <1>7, <1>8 DEF Next, InstanceSteps

(* Only a check that found no answer starts to connect. *)
LEMMA OnlySilenceReconnects ==
  ASSUME AnsweringInv, [Next]_vars, conn = "open", conn' = "connecting", m_ping_sender,
         running = {"gateway"}
  PROVE  pingsUnanswered > 0 \/ pongLost
<1>1. ~(UNCHANGED gwVars \/ UNCHANGED vars)
  BY DEF gwVars, vars, client
<1>2. \A r : ~handle_live(r) /\ ~unsubscribe_from_live(r)
  BY DEF handle_live, unsubscribe_from_live, Crash, gwVars, client
<1>3. ~(StopClickedAgain \/ on_pb_stop_clicked \/ Panics)
  BY <1>1, <1>2 DEF StopClickedAgain, on_pb_stop_clicked, Panics, stop_async, Unsubscribed,
     Crash, client
<1>4. \A i \in LiveRequests : ~on_pb_run_clicked(i)
  BY DEF on_pb_run_clicked, StrategyLoopReplaced, client
<1>5. ~(\/ handle_status_changed \/ StopReturns \/ StartRequest \/ StopRequest
        \/ OtherEvent \/ GatewayServes)
  BY <1>1, <1>2 DEF handle_status_changed, StopReturns, StartRequest, StopRequest,
     OtherEvent, GatewayServes
<1>6. ~(ClientSteps \/ CheckFires)
  BY DEF ClientSteps, on_connected, ConnectionCloses, ConnectionGoesSilent,
     ClientThreadEnds, on_pong_received, WorkerPings, CheckFires, client
<1>7. PICK l \in Loops : LoopStep(l)
  BY <1>1, <1>3, <1>4, <1>5, <1>6 DEF Next, InstanceSteps
<1>8. handle_request(l) /\ ~FoundAlive
  BY <1>7 DEF LoopStep, handle_request, ResetPong, WaitSucceeds, WaitTimesOut,
     WaitReadsFreedMemory, Resubscribe, Crash, client
<1>9. ~m_pong_received
  BY <1>8 DEF FoundAlive, Sendable
<1> QED BY <1>9 DEF AnsweringInv

(* ConnectionWatcher::handle_request and on_pong_received: as long as no strategy has
   added a loop, a connection that answers is given up only if a pong fell between a
   ping and the reset behind it, for any bound of the checks and the pings. *)
THEOREM AnswersKeepTheConnection == Spec => AnsweringConnectionsAreKept
<1>1. Init => AnsweringInv
  BY DEF Init, Init_Gateway, AnsweringInv, Loops
<1>2. AnsweringInv /\ [Next]_vars =>
        [conn = "open" /\ conn' = "connecting" /\ m_ping_sender /\ running = {"gateway"} =>
           pingsUnanswered > 0 \/ pongLost]_vars
  BY OnlySilenceReconnects
<1>3. WatchInv => WatchTypes
  BY DEF WatchInv
<1> QED
  BY <1>1, <1>2, <1>3, InitWatchInv, StepWatchInv, StepAnsweringInv, PTL
  DEF Spec, AnsweringConnectionsAreKept

-----------------------------------------------------------------------------
Excused == overtaken \cup abandoned

Queued(queue, e) == \E k \in 1 .. Len(queue) : queue[k] = e

QueueTypes ==
  /\ events \in Seq({"start", "stop"}) /\ requests \in Seq(LiveRequests)
  /\ current # None => current \in LiveRequests /\ current \in used

(* The start is the first event of an instance that has asked for nothing. *)
StartsOnce ==
  \A k \in 1 .. Len(events) : events[k] = "start" =>
    /\ k = 1 /\ current # None /\ ~stopping /\ ~finished
    /\ current \notin m_live_requests /\ ~Queued(requests, current)

(* No request is made twice. *)
AskedOnce ==
  /\ \A r \in m_live_requests : r \in used /\ ~Queued(requests, r)
  /\ \A k \in 1 .. Len(requests) : requests[k] \in used
  /\ \A j, k \in 1 .. Len(requests) : requests[j] = requests[k] => j = k

(* The instance knows of what was asked, unless it is excused. *)
OwnedOrExcused ==
  /\ m_live_md_requests \subseteq {current} \ {None}
  /\ finished => m_live_md_requests = {}
  /\ \A r \in m_live_requests \ Excused : r = current /\ r \in m_live_md_requests
  /\ \A k \in 1 .. Len(requests) : requests[k] \notin Excused =>
       requests[k] = current /\ current \in m_live_md_requests

(* Once a stop is on its way the request is cancelled and cannot come back, or it is
   excused. *)
StopLeavesNothing ==
  ~crashed /\ Queued(events, "stop") =>
    \/ current \in Excused
    \/ /\ current \notin m_live_requests /\ ~Queued(requests, current)
       /\ ~Queued(events, "start")

OwnersInv ==
  /\ QueueTypes
  /\ StartsOnce
  /\ AskedOnce
  /\ OwnedOrExcused
  /\ StopLeavesNothing

ownersVars == <<events, requests, current, used, stopping, finished, m_live_requests,
                m_live_md_requests, overtaken, abandoned, crashed>>

-----------------------------------------------------------------------------
(* Queues *)

LEMMA AppendQueues ==
  ASSUME NEW S, NEW q \in Seq(S), NEW e \in S
  PROVE  /\ Append(q, e) \in Seq(S) /\ Len(Append(q, e)) = Len(q) + 1 /\ Len(q) \in Nat
         /\ Append(q, e)[Len(q) + 1] = e
         /\ \A k \in 1 .. Len(q) : Append(q, e)[k] = q[k]
         /\ \A x : Queued(Append(q, e), x) <=> Queued(q, x) \/ x = e
<1>1. /\ Append(q, e) \in Seq(S) /\ Len(Append(q, e)) = Len(q) + 1 /\ Len(q) \in Nat
      /\ Append(q, e)[Len(q) + 1] = e
      /\ \A k \in 1 .. Len(q) : Append(q, e)[k] = q[k]
  OBVIOUS
<1>2. 1 .. Len(q) + 1 = (1 .. Len(q)) \cup {Len(q) + 1}
  BY <1>1
<1> QED BY <1>1, <1>2 DEF Queued

LEMMA TailLeaves ==
  ASSUME NEW S, NEW q \in Seq(S), q # <<>>
  PROVE  /\ Tail(q) \in Seq(S) /\ Len(Tail(q)) = Len(q) - 1
         /\ Len(q) \in Nat \ {0} /\ Head(q) = q[1] /\ Head(q) \in S
         /\ \A k \in 1 .. Len(q) - 1 : k + 1 \in 1 .. Len(q) /\ Tail(q)[k] = q[k + 1]
         /\ \A x : Queued(Tail(q), x) => Queued(q, x)
         /\ Queued(q, Head(q))
<1>1. /\ Tail(q) \in Seq(S) /\ Len(Tail(q)) = Len(q) - 1
      /\ Len(q) \in Nat \ {0} /\ Head(q) = q[1] /\ Head(q) \in S
  OBVIOUS
<1>2. \A k \in 1 .. Len(q) - 1 : k + 1 \in 1 .. Len(q) /\ Tail(q)[k] = q[k + 1]
  BY <1>1
<1> QED BY <1>1, <1>2 DEF Queued

-----------------------------------------------------------------------------
LEMMA InitOwnersInv == Init => OwnersInv
<1> SUFFICES ASSUME Init PROVE OwnersInv
  OBVIOUS
<1>1. /\ requests = <<>> /\ events = <<>> /\ m_live_md_requests = {} /\ m_live_requests = {}
      /\ current = None
  BY DEF Init, Init_Gateway
<1>2. Len(requests) = 0 /\ Len(events) = 0 /\ 1 .. 0 = {}
  BY <1>1
<1> QED
  BY <1>1, <1>2 DEF OwnersInv, QueueTypes, StartsOnce, AskedOnce, OwnedOrExcused,
     StopLeavesNothing, Queued

LEMMA StutterOwnersInv == OwnersInv /\ UNCHANGED ownersVars => OwnersInv'
BY DEF OwnersInv, ownersVars, QueueTypes, StartsOnce, AskedOnce, OwnedOrExcused,
   StopLeavesNothing, Queued, Excused

(* Steps of the gateway's loop, of the client and of the scheduler change no request; they
   may end the process. *)
LEMMA WatchOwnersInv ==
  ASSUME OwnersInv, UNCHANGED rest, UNCHANGED m_live_requests, ~crashed
  PROVE  OwnersInv'
<1>1. UNCHANGED <<events, requests, current, used, stopping, finished, m_live_md_requests,
                  overtaken, abandoned>>
  BY DEF rest, instVars, uiVars
<1> QED
  BY <1>1 DEF OwnersInv, QueueTypes, StartsOnce, AskedOnce, OwnedOrExcused,
     StopLeavesNothing, Queued, Excused

(* The window replaces an instance. *)
LEMMA RunOwnersInv ==
  ASSUME OwnersInv, NEW i \in LiveRequests, on_pb_run_clicked(i)
  PROVE  OwnersInv'
<1> USE DEF OwnersInv
<1>0. /\ i \notin used /\ i # None /\ used' = used \cup {i} /\ current' = i
      /\ events' = <<"start">> /\ m_live_md_requests' = {} /\ ~stopping' /\ ~finished'
      /\ UNCHANGED <<requests, overtaken, m_live_requests, crashed>>
      /\ abandoned' = IF current = None \/ finished THEN abandoned
                                                    ELSE abandoned \cup {current}
  BY NoneIsNoRequest DEF on_pb_run_clicked, StrategyLoopReplaced
<1>1. Len(events') = 1 /\ events'[1] = "start" /\ events' \in Seq({"start", "stop"})
  BY <1>0
<1>2. 1 .. 1 = {1} /\ "start" # "stop"
  OBVIOUS
<1>3. i \notin m_live_requests /\ ~Queued(requests, i)
  BY <1>0 DEF AskedOnce, Queued
<1>4. QueueTypes'
  BY <1>0, <1>1 DEF QueueTypes
<1>5. StartsOnce'
  BY <1>0, <1>1, <1>2, <1>3 DEF StartsOnce, Queued
<1>6. AskedOnce'
  BY <1>0 DEF AskedOnce, Queued
<1>7. OwnedOrExcused'
  <2>1. CASE current = None \/ finished
    <3>1. m_live_md_requests = {}
      BY <2>1 DEF OwnedOrExcused
    <3>2. /\ \A r \in m_live_requests : r \in Excused
          /\ \A k \in 1 .. Len(requests) : requests[k] \in Excused
      BY <3>1 DEF OwnedOrExcused
    <3> QED BY <1>0, <3>2 DEF OwnedOrExcused, Excused
  <2>2. CASE ~(current = None \/ finished)
    <3>1. Excused' = Excused \cup {current}
      BY <1>0, <2>2 DEF Excused
    <3>2. /\ \A r \in m_live_requests : r \in Excused'
          /\ \A k \in 1 .. Len(requests) : requests[k] \in Excused'
      BY <3>1 DEF OwnedOrExcused
    <3> QED BY <1>0, <3>2 DEF OwnedOrExcused
  <2> QED BY <2>1, <2>2
<1>8. StopLeavesNothing'
  BY <1>1, <1>2 DEF StopLeavesNothing, Queued
<1> QED BY <1>4, <1>5, <1>6, <1>7, <1>8

(* stop_async, by the window or by the instance itself *)
LEMMA StopAsyncOwnersInv ==
  ASSUME OwnersInv, stop_async,
         UNCHANGED <<requests, m_live_md_requests, stopping, finished, current, used, abandoned>>
  PROVE  OwnersInv'
<1> USE DEF OwnersInv
<1>0. /\ events' = Append(events, "stop")
      /\ overtaken' = overtaken \cup ({current} \ m_live_requests)
  BY DEF stop_async
<1>1. /\ m_live_requests' \subseteq m_live_requests
      /\ \/ crashed' /\ UNCHANGED m_live_requests
         \/ m_live_md_requests = {} /\ UNCHANGED m_live_requests
         \/ \E r \in m_live_md_requests : r \notin m_live_requests'
  BY DEF stop_async, Unsubscribed, unsubscribe_from_live, LiveErased, Crash, gwVars
<1>2. /\ Len(events) \in Nat /\ Len(events') = Len(events) + 1
      /\ events' \in Seq({"start", "stop"})
      /\ events'[Len(events) + 1] = "stop"
      /\ \A k \in 1 .. Len(events) : events'[k] = events[k]
      /\ \A x : Queued(events', x) <=> Queued(events, x) \/ x = "stop"
  BY <1>0, AppendQueues DEF QueueTypes
<1>3. Excused \subseteq Excused'
  BY <1>0 DEF Excused
<1>4. QueueTypes'
  BY <1>2 DEF QueueTypes
<1>5. StartsOnce'
  BY <1>1, <1>2 DEF StartsOnce, Queued
<1>6. AskedOnce'
  BY <1>1 DEF AskedOnce, Queued
<1>7. OwnedOrExcused'
  BY <1>1, <1>3 DEF OwnedOrExcused
<1>8. StopLeavesNothing'
  <2> SUFFICES ASSUME ~crashed', current \notin Excused'
               PROVE  /\ current \notin m_live_requests' /\ ~Queued(requests, current)
                      /\ ~Queued(events', "start")
    BY DEF StopLeavesNothing, Queued
  <2>1. current \in m_live_requests /\ current \notin Excused
    BY <1>0, <1>3 DEF Excused
  <2>2. current \in m_live_md_requests
    BY <2>1 DEF OwnedOrExcused
  <2>3. current \notin m_live_requests'
    BY <1>1, <2>2 DEF OwnedOrExcused
  <2>4. ~Queued(requests, current)
    BY <2>1 DEF AskedOnce
  <2>5. ~Queued(events, "start")
    BY <2>1 DEF StartsOnce, Queued
  <2> QED BY <1>2, <2>3, <2>4, <2>5
<1> QED BY <1>4, <1>5, <1>6, <1>7, <1>8

LEMMA StartRequestOwnersInv ==
  ASSUME OwnersInv, StartRequest, ~crashed
  PROVE  OwnersInv'
<1> USE DEF OwnersInv
<1>0. /\ events # <<>> /\ Head(events) = "start" /\ events' = Tail(events)
      /\ m_live_md_requests' = {current} /\ requests' = Append(requests, current)
      /\ UNCHANGED <<stopping, finished, current, used, abandoned, overtaken,
                     m_live_requests, crashed>>
  BY DEF StartRequest, Runs, gwVars, uiVars
<1>1. /\ Tail(events) \in Seq({"start", "stop"}) /\ Len(Tail(events)) = Len(events) - 1
      /\ Len(events) \in Nat \ {0} /\ Head(events) = events[1]
      /\ \A k \in 1 .. Len(events) - 1 : k + 1 \in 1 .. Len(events)
                                         /\ Tail(events)[k] = events[k + 1]
      /\ \A x : Queued(Tail(events), x) => Queued(events, x)
      /\ Queued(events, "start")
  BY <1>0, TailLeaves DEF QueueTypes
<1>2. /\ current # None /\ ~finished /\ current \notin m_live_requests
      /\ ~Queued(requests, current)
  BY <1>0, <1>1 DEF StartsOnce
<1>3. current \in LiveRequests /\ current \in used
  BY <1>2 DEF QueueTypes
<1>4. /\ Len(requests) \in Nat /\ Len(requests') = Len(requests) + 1
      /\ requests' \in Seq(LiveRequests)
      /\ requests'[Len(requests) + 1] = current
      /\ \A k \in 1 .. Len(requests) : requests'[k] = requests[k]
      /\ \A x : Queued(requests', x) <=> Queued(requests, x) \/ x = current
  BY <1>0, <1>3, AppendQueues DEF QueueTypes
<1>5. \A k \in 1 .. Len(requests') : k \in 1 .. Len(requests) \/ k = Len(requests) + 1
  BY <1>4
<1>6. ~Queued(events', "start")
  BY <1>0, <1>1 DEF StartsOnce, Queued
<1>7. QueueTypes'
  BY <1>0, <1>1, <1>4 DEF QueueTypes
<1>8. StartsOnce'
  BY <1>6 DEF StartsOnce, Queued
<1>9. AskedOnce'
  <2>1. \A r \in m_live_requests : r \in used /\ ~Queued(requests', r)
    BY <1>2, <1>4 DEF AskedOnce
  <2>2. \A k \in 1 .. Len(requests') : requests'[k] \in used
    BY <1>3, <1>4, <1>5 DEF AskedOnce
  <2>3. \A k \in 1 .. Len(requests) : requests[k] # current
    BY <1>2 DEF Queued
  <2>4. \A j, k \in 1 .. Len(requests') : requests'[j] = requests'[k] => j = k
    BY <1>4, <1>5, <2>3 DEF AskedOnce
  <2> QED BY <1>0, <2>1, <2>2, <2>4 DEF AskedOnce, Queued
<1>10. OwnedOrExcused'
  BY <1>0, <1>2, <1>4, <1>5 DEF OwnedOrExcused, Excused
<1>11. StopLeavesNothing'
  <2>1. Queued(events', "stop") => current \in Excused
    BY <1>0, <1>1 DEF StopLeavesNothing
  <2> QED BY <1>0, <2>1 DEF StopLeavesNothing, Queued, Excused
<1> QED BY <1>7, <1>8, <1>9, <1>10, <1>11

LEMMA StopRequestOwnersInv ==
  ASSUME OwnersInv, StopRequest, ~crashed
  PROVE  OwnersInv'
<1> USE DEF OwnersInv
<1>0. /\ events # <<>> /\ Head(events) = "stop" /\ events' = Tail(events)
      /\ m_live_md_requests' = {}
      /\ UNCHANGED <<requests, current, used, abandoned, overtaken, m_live_requests, crashed>>
  BY DEF StopRequest, Runs, gwVars, uiVars
<1>1. /\ Tail(events) \in Seq({"start", "stop"}) /\ Len(Tail(events)) = Len(events) - 1
      /\ Len(events) \in Nat \ {0} /\ Head(events) = events[1]
      /\ \A k \in 1 .. Len(events) - 1 : k + 1 \in 1 .. Len(events)
                                         /\ Tail(events)[k] = events[k + 1]
      /\ \A x : Queued(Tail(events), x) => Queued(events, x)
      /\ Queued(events, "stop")
  BY <1>0, TailLeaves DEF QueueTypes
<1>2. ~Queued(events', "start")
  BY <1>0, <1>1 DEF StartsOnce, Queued
<1>3. \/ current \in Excused
      \/ current \notin m_live_requests /\ ~Queued(requests, current)
  BY <1>1 DEF StopLeavesNothing
<1>4. QueueTypes'
  BY <1>0, <1>1 DEF QueueTypes
<1>5. StartsOnce'
  BY <1>2 DEF StartsOnce, Queued
<1>6. AskedOnce'
  BY <1>0 DEF AskedOnce, Queued
<1>7. OwnedOrExcused'
  BY <1>0, <1>3 DEF OwnedOrExcused, Excused, Queued
<1>8. StopLeavesNothing'
  BY <1>0, <1>2, <1>3 DEF StopLeavesNothing, Excused, Queued
<1> QED BY <1>4, <1>5, <1>6, <1>7, <1>8

(* An instance that finishes with an event has no request, and has started. *)
LEMMA OtherEventOwnersInv ==
  ASSUME OwnersInv, OtherEvent
  PROVE  OwnersInv'
<1> USE DEF OwnersInv
<1>0. UNCHANGED <<requests, current, used, abandoned, overtaken, m_live_requests, crashed,
                  m_live_md_requests, stopping, events>>
  BY DEF OtherEvent, gwVars, uiVars
<1>1. finished' => finished \/ (stopping /\ m_live_md_requests = {})
  <2>1. after_every_event
    BY DEF OtherEvent
  <2>2. PICK closed \in IF Started THEN BOOLEAN ELSE {TRUE} :
          finished' = (finished \/ (stopping' /\ closed /\ m_live_md_requests' = {}))
    BY <2>1, Zenon DEF after_every_event
  <2>3. stopping' = stopping /\ m_live_md_requests' = m_live_md_requests
    BY <1>0
  <2> QED BY <2>2, <2>3, Zenon
<1>2. QueueTypes' /\ AskedOnce' /\ StopLeavesNothing'
  BY <1>0 DEF QueueTypes, AskedOnce, StopLeavesNothing, Queued, Excused
<1>3. StartsOnce'
  BY <1>0, <1>1 DEF StartsOnce, Queued
<1>4. OwnedOrExcused'
  BY <1>0, <1>1 DEF OwnedOrExcused, Excused
<1> QED BY <1>2, <1>3, <1>4

(* The gateway takes the first request of its queue, or drops it. *)
LEMMA GatewayServesOwnersInv ==
  ASSUME OwnersInv, GatewayServes
  PROVE  OwnersInv'
<1> USE DEF OwnersInv
<1> DEFINE r == Head(requests)
<1>0. /\ requests # <<>> /\ requests' = Tail(requests)
      /\ UNCHANGED <<events, current, used, abandoned, overtaken, m_live_md_requests,
                     stopping, finished>>
      /\ crashed => crashed'
  BY DEF GatewayServes, instVars, uiVars, handle_live, Crash, gwVars
<1>1. \/ UNCHANGED m_live_requests
      \/ m_live_requests = {} /\ m_live_requests' = {r}
  BY DEF GatewayServes, handle_live, LiveAccepted, Crash, gwVars
<1>2. /\ Tail(requests) \in Seq(LiveRequests) /\ Len(Tail(requests)) = Len(requests) - 1
      /\ Len(requests) \in Nat \ {0} /\ Head(requests) = requests[1]
      /\ \A k \in 1 .. Len(requests) - 1 : k + 1 \in 1 .. Len(requests)
                                           /\ Tail(requests)[k] = requests[k + 1]
      /\ \A x : Queued(Tail(requests), x) => Queued(requests, x)
      /\ Queued(requests, r)
  BY <1>0, TailLeaves DEF QueueTypes
<1>3. 1 \in 1 .. Len(requests) /\ \A k \in 1 .. Len(requests) - 1 : k + 1 # 1
  BY <1>2
<1>4. r \in used /\ ~Queued(requests', r)
  BY <1>0, <1>2, <1>3 DEF AskedOnce, Queued
<1>5. QueueTypes'
  BY <1>0, <1>2 DEF QueueTypes
<1>6. StartsOnce'
  BY <1>0, <1>1, <1>2 DEF StartsOnce, Queued
<1>7. AskedOnce'
  <2>1. \A q \in m_live_requests' : q \in used /\ ~Queued(requests', q)
    BY <1>0, <1>1, <1>2, <1>4 DEF AskedOnce
  <2>2. \A k \in 1 .. Len(requests') : requests'[k] \in used
    BY <1>0, <1>2 DEF AskedOnce
  <2>3. \A j, k \in 1 .. Len(requests') : requests'[j] = requests'[k] => j = k
    BY <1>0, <1>2 DEF AskedOnce
  <2> QED BY <1>0, <2>1, <2>2, <2>3 DEF AskedOnce, Queued
<1>8. OwnedOrExcused'
  <2>1. \A q \in m_live_requests' \ Excused : q = current /\ q \in m_live_md_requests
    BY <1>1, <1>2, <1>3 DEF OwnedOrExcused
  <2>2. \A k \in 1 .. Len(requests') : requests'[k] \notin Excused =>
          requests'[k] = current /\ current \in m_live_md_requests
    BY <1>0, <1>2 DEF OwnedOrExcused
  <2> QED BY <1>0, <2>1, <2>2 DEF OwnedOrExcused, Excused
<1>9. StopLeavesNothing'
  BY <1>0, <1>1, <1>2 DEF StopLeavesNothing, Excused, Queued
<1> QED BY <1>5, <1>6, <1>7, <1>8, <1>9

LEMMA StepOwnersInv == OwnersInv /\ [Next]_vars => OwnersInv'
<1> SUFFICES ASSUME OwnersInv, [Next]_vars PROVE OwnersInv'
  OBVIOUS
<1>1. ASSUME ~crashed, NEW l \in Loops, LoopStep(l), UNCHANGED rest PROVE OwnersInv'
  <2>1. UNCHANGED m_live_requests
    BY <1>1 DEF LoopStep, handle_request, ResetPong, WaitSucceeds, WaitTimesOut,
       WaitReadsFreedMemory, Resubscribe, Crash
  <2> QED BY <1>1, <2>1, WatchOwnersInv
<1>2. ASSUME ~crashed, ClientSteps \/ CheckFires, UNCHANGED rest PROVE OwnersInv'
  <2>1. UNCHANGED m_live_requests
    BY <1>2 DEF ClientSteps, on_connected, ConnectionCloses, ConnectionGoesSilent,
       ClientThreadEnds, on_pong_received, WorkerPings, CheckFires
  <2> QED BY <1>2, <2>1, WatchOwnersInv
<1>3. ASSUME NEW i \in LiveRequests, on_pb_run_clicked(i) PROVE OwnersInv'
  BY <1>3, RunOwnersInv
<1>4. CASE handle_status_changed \/ StopReturns
  <2>1. UNCHANGED ownersVars
    BY <1>4 DEF handle_status_changed, StopReturns, gwVars, instVars, ownersVars
  <2> QED BY <2>1, StutterOwnersInv
<1>5. CASE on_pb_stop_clicked \/ Panics
  BY <1>5, StopAsyncOwnersInv DEF on_pb_stop_clicked, Panics, uiVars
<1>6. CASE StopClickedAgain /\ ~crashed
  BY <1>6, WatchOwnersInv DEF StopClickedAgain, Crash
<1>7. CASE StartRequest /\ ~crashed
  BY <1>7, StartRequestOwnersInv
<1>8. CASE StopRequest /\ ~crashed
  BY <1>8, StopRequestOwnersInv
<1>9. CASE OtherEvent
  BY <1>9, OtherEventOwnersInv
<1>10. CASE GatewayServes
  BY <1>10, GatewayServesOwnersInv
<1>11. CASE UNCHANGED vars
  BY <1>11, StutterOwnersInv DEF vars, gwVars, rest, instVars, uiVars, ownersVars
<1> QED
  BY <1>1, <1>2, <1>3, <1>4, <1>5, <1>6, <1>7, <1>8, <1>9, <1>10, <1>11
  DEF Next, InstanceSteps

(* StrategyInstance::stop_async and the two queues, tests/StrategyInstanceTest.cpp:251: for
   any number of instances, errors and statuses, a live request that stays behind was
   overtaken by its cancellation, or its strategy was replaced while it ran. *)
THEOREM LiveRequestsHaveOwners == Spec => []RequestsHaveOwners
<1>1. OwnersInv => RequestsHaveOwners
  BY DEF OwnersInv, OwnedOrExcused, Excused, RequestsHaveOwners
<1> QED BY <1>1, InitOwnersInv, StepOwnersInv, PTL DEF Spec
=============================================================================
