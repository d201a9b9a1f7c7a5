-------------------------- MODULE MarketDataGateway --------------------------
(***************************************************************************)
(* src/frontend/crypto/gateway/ByBitMarketDataGateway.cpp with the         *)
(* ConnectionWatcher it supervises and the WebSocketClient it owns         *)
(* (src/frontend/crypto/network): live requests across reconnections.      *)
(*                                                                         *)
(* Threads: the gateway's event loop, the websocket thread of the current  *)
(* client, callers of unsubscribe_from_live, and, because every EventLoop  *)
(* has the same guid (util/EventLoop.h:102), the loop of the strategy      *)
(* instance there may be, which executes a delayed PingCheckEvent as the   *)
(* gateway's own loop does; further loops would do the same.  A step is    *)
(* what runs between two points where another thread can interfere.  An    *)
(* exception that leaves a thread, or the use of a client that another     *)
(* thread has destroyed, is "crashed".                                     *)
(***************************************************************************)
EXTENDS Integers, Sequences, FiniteSets

CONSTANTS
  LiveRequests,     \* guids of LiveMDRequests
  SymbolOf,         \* LiveMDRequest::symbol
  MaxChecks,        \* bound: delayed checks; more of them change nothing
  MaxPings          \* bound: pings that still have an answer to come

Loops == {"gateway", "strategy"}

ASSUME BoundsArePositive == MaxChecks \in Nat \ {0} /\ MaxPings \in Nat \ {0}

VARIABLES
  running,          \* the loops there are
  conn,             \* m_ws_client: its connection, or "none"
  m_ready,
  pingsUnanswered,  \* on this connection
  topics,           \* what this client asked the exchange to send
  m_ping_sender,    \* the weak_ptr: TRUE if it still points to the client
  m_pong_received,
  m_live_requests,
  pc,               \* where each loop is in handle_request and reconnect_ws_client
  usesDestroyed,    \* loops polling wait_until_ready of a replaced client
  delayed,          \* PingCheckEvents in the scheduler
  checks,           \* PingCheckEvents in the queue of each loop
  pongLost,         \* history: a pong of this client fell between :38 and :39
  watched,          \* history: reconnect_ws_client has succeeded once
  crashed

client == <<conn, m_ready, pingsUnanswered, topics>>
watcher == <<m_ping_sender, m_pong_received>>
gwVars == <<running, client, watcher, m_live_requests, pc, usesDestroyed, delayed,
            checks, pongLost, watched, crashed>>

Sendable == conn \in {"open", "silent"}

Capped(n) == IF n > MaxChecks THEN MaxChecks ELSE n

(* With start: the constructor is in wait_until_ready.  Without: no client. *)
Init_Gateway(start) ==
  /\ running = {"gateway"}
  /\ conn = (IF start THEN "connecting" ELSE "none")
  /\ m_ready = FALSE /\ pingsUnanswered = 0 /\ topics = {}
  /\ m_ping_sender = FALSE /\ m_pong_received = FALSE
  /\ m_live_requests = {}
  /\ pc = [l \in Loops |-> IF l = "gateway" /\ start THEN "starting" ELSE "idle"]
  /\ usesDestroyed = {}
  /\ delayed = 0 /\ checks = [l \in Loops |-> 0]
  /\ pongLost = FALSE /\ watched = FALSE /\ crashed = FALSE

Crash ==
  /\ crashed' = TRUE
  /\ UNCHANGED <<running, client, watcher, m_live_requests, pc, usesDestroyed,
                 delayed, checks, pongLost, watched>>

-----------------------------------------------------------------------------
(* The exchange and the network, and the client's thread *)

(* open handler: a market data client has no keys, so it is connected at once. *)
on_connected ==
  /\ conn = "connecting"
  /\ conn' = "open" /\ m_ready' = TRUE /\ m_pong_received' = TRUE
  /\ UNCHANGED <<running, pingsUnanswered, topics, m_ping_sender, m_live_requests, pc,
                 usesDestroyed, delayed, checks, pongLost, watched, crashed>>

(* Refused, or closed by the peer. *)
ConnectionCloses ==
  /\ conn \in {"connecting", "open", "silent"}
  /\ conn' = "closed" /\ pingsUnanswered' = 0
  /\ UNCHANGED <<running, m_ready, topics, watcher, m_live_requests, pc, usesDestroyed,
                 delayed, checks, pongLost, watched, crashed>>

(* Nothing arrives any more, and sends still succeed. *)
ConnectionGoesSilent ==
  /\ conn = "open"
  /\ conn' = "silent"
  /\ UNCHANGED <<running, m_ready, pingsUnanswered, topics, watcher, m_live_requests, pc,
                 usesDestroyed, delayed, checks, pongLost, watched, crashed>>

(* m_client.run() returns. *)
ClientThreadEnds ==
  /\ conn = "closed" /\ m_ready
  /\ m_ready' = FALSE
  /\ UNCHANGED <<running, conn, pingsUnanswered, topics, watcher, m_live_requests, pc,
                 usesDestroyed, delayed, checks, pongLost, watched, crashed>>

(* Mutant: the "pong" operation has no handler. *)
PongHandled_Unregistered == UNCHANGED m_pong_received

PongHandled == m_pong_received' = TRUE

(* The op "pong", or "ping", reaches the watcher in the client's thread, at any point of
   a check. *)
on_pong_received ==
  /\ conn = "open" /\ pingsUnanswered > 0
  /\ pingsUnanswered' = pingsUnanswered - 1
  /\ PongHandled
  /\ pongLost' = (pongLost \/ \E l \in Loops : pc[l] = "verified")
  /\ UNCHANGED <<running, conn, m_ready, topics, m_ping_sender, m_live_requests, pc,
                 usesDestroyed, delayed, checks, watched, crashed>>

(* send_ping: a ping on a silent connection is lost. *)
Pinged == IF conn = "open" /\ pingsUnanswered < MaxPings THEN pingsUnanswered + 1
                                                         ELSE pingsUnanswered

(* m_ping_worker exists since the first successful subscription. *)
WorkerPings ==
  /\ conn = "open" /\ topics # {}
  /\ pingsUnanswered' = Pinged
  /\ UNCHANGED <<running, conn, m_ready, topics, watcher, m_live_requests, pc,
                 usesDestroyed, delayed, checks, pongLost, watched, crashed>>

-----------------------------------------------------------------------------
(* Checks *)

(* Scheduler::run: the channel of the one guid has every loop as a subscriber. *)
CheckFires ==
  /\ delayed > 0
  /\ delayed' = delayed - 1
  /\ checks' = [l \in Loops |-> IF l \in running THEN Capped(checks[l] + 1) ELSE 0]
  /\ UNCHANGED <<running, client, watcher, m_live_requests, pc, usesDestroyed, pongLost,
                 watched, crashed>>

(* make_shared<WebSocketClient>, then the old client goes: its thread is joined, a loop
   that polls it polls freed memory, and the watcher's weak_ptr expires. *)
ClientReplaced(l) ==
  /\ conn' = "connecting" /\ m_ready' = FALSE
  /\ pingsUnanswered' = 0 /\ topics' = {} /\ pongLost' = FALSE
  /\ m_ping_sender' = FALSE
  /\ usesDestroyed' = usesDestroyed \cup {k \in Loops \ {l} : pc[k] = "waiting"}
  /\ pc' = [pc EXCEPT ![l] = "waiting"]

FoundAlive == m_pong_received /\ m_ping_sender /\ Sendable

(* ConnectionWatcher::handle_request up to on_connection_verified, or as far as the new
   client of on_connection_lost. *)
handle_request(l) ==
  /\ pc[l] = "idle" /\ checks[l] > 0
  /\ checks' = [checks EXCEPT ![l] = @ - 1]
  /\ IF FoundAlive
     THEN /\ pingsUnanswered' = Pinged
          /\ delayed' = Capped(delayed + 1)
          /\ pc' = [pc EXCEPT ![l] = "verified"]
          /\ UNCHANGED <<conn, m_ready, topics, m_ping_sender, pongLost, usesDestroyed>>
     ELSE ClientReplaced(l) /\ UNCHANGED delayed
  /\ UNCHANGED <<running, m_pong_received, m_live_requests, watched, crashed>>

(* Its last statement, :39. *)
ResetPong(l) ==
  /\ pc[l] = "verified"
  /\ m_pong_received' = FALSE
  /\ pc' = [pc EXCEPT ![l] = "idle"]
  /\ UNCHANGED <<running, client, m_ping_sender, m_live_requests, usesDestroyed, delayed,
                 checks, pongLost, watched, crashed>>

-----------------------------------------------------------------------------
(* reconnect_ws_client *)

Waits(l) == pc[l] \in {"starting", "waiting"}

(* wait_until_ready returned true; the watcher gets the client there is now. *)
WaitSucceeds(l) ==
  /\ Waits(l)
  /\ m_ready \/ l \in usesDestroyed
  /\ m_ping_sender' = TRUE
  /\ pingsUnanswered' = Pinged
  /\ pc' = [pc EXCEPT ![l] = "ready"]
  /\ usesDestroyed' = usesDestroyed \ {l}
  /\ UNCHANGED <<running, conn, m_ready, topics, m_pong_received, m_live_requests,
                 delayed, checks, pongLost, watched, crashed>>

(* Mutant: on_connection_lost only logs the failure, as the constructor does. *)
RetryAfter_Never(l) == UNCHANGED delayed

(* on_connection_lost tries again in 30 s; the constructor only logs a warning. *)
RetryAfter(l) == delayed' = IF pc[l] = "starting" THEN delayed ELSE Capped(delayed + 1)

WaitTimesOut(l) ==
  /\ Waits(l)
  /\ ~m_ready \/ l \in usesDestroyed
  /\ RetryAfter(l)
  /\ pc' = [pc EXCEPT ![l] = "idle"]
  /\ usesDestroyed' = usesDestroyed \ {l}
  /\ UNCHANGED <<running, client, watcher, m_live_requests, checks, pongLost, watched,
                 crashed>>

WaitReadsFreedMemory(l) == l \in usesDestroyed /\ Crash

(* Mutant: the new client is not told of the requests. *)
Resubscribed_None == topics

Resubscribed == topics \cup {SymbolOf[r] : r \in m_live_requests}

(* Under the lock of m_live_requests; WebSocketClient::subscribe throws on a connection
   that is not open. *)
Resubscribe(l) ==
  /\ pc[l] = "ready"
  /\ IF m_live_requests # {} /\ ~Sendable
     THEN Crash
     ELSE /\ topics' = Resubscribed
          /\ delayed' = Capped(delayed + 1)
          /\ pc' = [pc EXCEPT ![l] = "idle"]
          /\ watched' = TRUE
          /\ UNCHANGED <<running, conn, m_ready, pingsUnanswered, watcher,
                         m_live_requests, usesDestroyed, checks, pongLost, crashed>>

-----------------------------------------------------------------------------
(* Loops and requests *)

(* The old instance's loop is joined, and its queue goes with it; the new one has a loop. *)
StrategyLoopReplaced ==
  /\ pc["strategy"] = "idle"
  /\ running' = Loops
  /\ checks' = [checks EXCEPT !["strategy"] = 0]
  /\ UNCHANGED <<client, watcher, m_live_requests, pc, usesDestroyed, delayed, pongLost,
                 watched, crashed>>

(* handle_event(LiveMDRequest), in the gateway's loop *)
LiveAccepted(r) == m_live_requests = {} /\ conn # "none"

handle_live(r) ==
  IF ~LiveAccepted(r) THEN UNCHANGED gwVars
  ELSE IF ~Sendable THEN Crash
  ELSE /\ topics' = topics \cup {SymbolOf[r]}
       /\ m_live_requests' = m_live_requests \cup {r}
       /\ UNCHANGED <<running, conn, m_ready, pingsUnanswered, watcher, pc, usesDestroyed,
                      delayed, checks, pongLost, watched, crashed>>

(* Mutant: the exchange is told, the request stays in the list. *)
LiveErased_Kept(r) == UNCHANGED m_live_requests

LiveErased(r) == m_live_requests' = m_live_requests \ {r}

(* In the caller's thread; m_ws_client is read without the synchronisation that its
   assignment in reconnect_ws_client would need. *)
unsubscribe_from_live(r) ==
  \/ r \notin m_live_requests /\ UNCHANGED gwVars
  \/ /\ r \in m_live_requests /\ Sendable
     /\ LiveErased(r)
     /\ topics' = topics \ {SymbolOf[r]}
     /\ UNCHANGED <<running, conn, m_ready, pingsUnanswered, watcher, pc, usesDestroyed,
                    delayed, checks, pongLost, watched, crashed>>
  \/ r \in m_live_requests /\ (~Sendable \/ \E l \in Loops : Waits(l)) /\ Crash
=============================================================================
