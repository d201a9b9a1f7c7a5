------------------------------- MODULE Optimizer -------------------------------
(***************************************************************************)
(* src/frontend/crypto/optimizer: every configuration of a grid is tried   *)
(* in a backtest of its own, by a pool of threads that share a counter, a  *)
(* collector and the one market data gateway.                              *)
(*                                                                         *)
(* The gateway's answers go to all the instances there are; each reads its *)
(* own trades to the end (StrategyInstance.cpp:349-383) and finishes.      *)
(* What the strategy earns on them is Score.                               *)
(***************************************************************************)
EXTENDS ConfigGenerator, MarketDataFiles

CONSTANTS
  Threads,    \* the pool
  Grids,      \* parameter limits the user may enter, see ConfigGenerator
  Score,      \* BestProfit of a configuration run over all the trades
  IsValid,    \* does the factory build its strategy?
  Ranges      \* time ranges the user may enter: records with start and end

ASSUME PoolIsNotEmpty == Threads # {}   \* the minimum of sb_optimizer_threads
ASSUME ScoresAreIntegers == \A g \in Grids : \A c \in GridOf(g) : Score[c] \in Int
ASSUME RangesAreTimes == \A r \in Ranges : r.start \in Int /\ r.end \in Int

VARIABLES
  grid, range, configs,
  input_iter, output_iter,
  pc,          \* where each thread is
  trial,       \* the index of the configuration it tries
  requests,    \* threads whose HistoricalMDRequest the gateway's loop has to serve
  inbox,       \* HistoricalMDGeneratorEvents in the queue of each instance
  generator,   \* the m_historical_md_generator of each: {} or {a reader}
  received,    \* history: the trades each has handled
  m_best, m_best_score,
  passed,      \* the number of configurations last shown as passed
  pushed,      \* history: the indices of the configurations pushed, in order
  lost         \* history: a file could not be had

instVars == <<requests, inbox, generator, received, lost>>
collector == <<m_best, m_best_score, passed, pushed>>
vars == <<grid, range, configs, input_iter, output_iter, pc, trial, instVars, collector>>

NoConfig == <<>>   \* std::nullopt

Init ==
  /\ grid \in Grids /\ range \in Ranges
  /\ configs = get_possible_configs(grid)
  /\ input_iter = 1 /\ output_iter = 0
  /\ pc = [t \in Threads |-> "next"] /\ trial = [t \in Threads |-> 0]
  /\ requests = <<>>
  /\ inbox = [t \in Threads |-> <<>>] /\ generator = [t \in Threads |-> {}]
  /\ received = [t \in Threads |-> <<>>]
  /\ m_best = NoConfig /\ m_best_score = -1
  /\ passed = 0 /\ pushed = <<>> /\ lost = FALSE

-----------------------------------------------------------------------------
(* The head of the loop (input_iter.fetch_add), and the construction of the instance: of
   an invalid one the constructor returns early, and nobody ever sets its promise. *)
NextTrial(t) ==
  /\ pc[t] = "next"
  /\ input_iter' = input_iter + 1
  /\ trial' = [trial EXCEPT ![t] = input_iter]
  /\ pc' = [pc EXCEPT ![t] = IF input_iter > Len(configs) THEN "ended"
                             ELSE IF IsValid[configs[input_iter]] THEN "built" ELSE "stuck"]
  /\ inbox' = [inbox EXCEPT ![t] = <<>>]
  /\ generator' = [generator EXCEPT ![t] = {}]
  /\ received' = [received EXCEPT ![t] = <<>>]
  /\ UNCHANGED <<grid, range, configs, output_iter, requests, lost, collector>>

(* run_async *)
StartTrial(t) ==
  /\ pc[t] = "built"
  /\ pc' = [pc EXCEPT ![t] = "runs"]
  /\ requests' = Append(requests, t)
  /\ UNCHANGED <<grid, range, configs, input_iter, output_iter, trial, inbox, generator,
                 received, lost, collector>>

(* The gateway's loop: one request, and its answer to every instance *)
GatewayServes ==
  /\ requests # <<>>
  /\ requests' = Tail(requests)
  /\ \E available \in {DOMAIN TradesOf, {}} :
       LET files == download(range, available) IN
         /\ lost' = (lost \/ files = <<>>)
         /\ inbox' = [t \in Threads |->
              IF pc[t] \in {"built", "runs"}
              THEN Append(inbox[t], [guid |-> Head(requests), reader |-> NewReader(files)])
              ELSE inbox[t]]
  /\ UNCHANGED <<grid, range, configs, input_iter, output_iter, pc, trial, generator,
                 received, collector>>

Solicited(t) == generator[t] = {} /\ Head(inbox[t]).guid = t

(* handle_event(HistoricalMDGeneratorEvent) *)
GeneratorArrives(t) ==
  /\ pc[t] = "runs" /\ inbox[t] # <<>>
  /\ inbox' = [inbox EXCEPT ![t] = Tail(@)]
  /\ generator' = IF Solicited(t) THEN [generator EXCEPT ![t] = {Head(inbox[t]).reader}]
                                  ELSE generator
  /\ UNCHANGED <<grid, range, configs, input_iter, output_iter, pc, trial, requests,
                 received, lost, collector>>

(* handle_event(HistoricalMDPriceEvent); after the last trade the instance stops itself
   and its promise is set.  Without a first trade nothing ever happens. *)
PriceArrives(t) ==
  /\ pc[t] = "runs"
  /\ \E reader \in generator[t] : LET next == get_next(reader) IN
       \/ /\ next.trade # None
          /\ received' = [received EXCEPT ![t] = Append(@, next.trade)]
          /\ generator' = [generator EXCEPT ![t] = {next.reader}]
          /\ UNCHANGED pc
       \/ /\ next.trade = None /\ received[t] # <<>>
          /\ generator' = [generator EXCEPT ![t] = {}]
          /\ pc' = [pc EXCEPT ![t] = "finished"]
          /\ UNCHANGED received
  /\ UNCHANGED <<grid, range, configs, input_iter, output_iter, trial, requests, inbox,
                 lost, collector>>

-----------------------------------------------------------------------------
IsBetter(score) == score >= 0 /\ score > m_best_score

(* OptimizerCollector::push without filters *)
push(config) ==
  IF IsBetter(Score[config])
  THEN m_best_score' = Score[config] /\ m_best' = config
  ELSE UNCHANGED <<m_best_score, m_best>>

(* Under the collector's lock, to the end of the loop's body.  output_iter.fetch_add(1)
   returns the count without this one. *)
CollectResult(t) ==
  /\ pc[t] = "finished"
  /\ push(configs[trial[t]])
  /\ passed' = output_iter
  /\ output_iter' = output_iter + 1
  /\ pushed' = Append(pushed, trial[t])
  /\ pc' = [pc EXCEPT ![t] = "next"]
  /\ UNCHANGED <<grid, range, configs, input_iter, trial, instVars>>

(* The threads are joined. *)
OptimizeReturns ==
  /\ \A t \in Threads : pc[t] = "ended"
  /\ pc' = [t \in Threads |-> "joined"]
  /\ passed' = Len(configs)
  /\ UNCHANGED <<grid, range, configs, input_iter, output_iter, trial, instVars, m_best,
                 m_best_score, pushed>>

ThreadStep(t) ==
  \/ NextTrial(t)
  \/ StartTrial(t)
  \/ GeneratorArrives(t)
  \/ PriceArrives(t)
  \/ CollectResult(t)

Next == (\E t \in Threads : ThreadStep(t)) \/ GatewayServes \/ OptimizeReturns

(* The pool's threads, the instances' loops and the gateway's loop all run. *)
Fairness ==
  /\ \A t \in Threads : WF_vars(ThreadStep(t))
  /\ WF_vars(GatewayServes)
  /\ WF_vars(OptimizeReturns)

Spec == Init /\ [][Next]_vars /\ Fairness

-----------------------------------------------------------------------------
Returned == \A t \in Threads : pc[t] = "joined"

(* optimize: when it returns, each configuration of the grid has been tried once, and the
   best one is given back, whatever the threads and their order: none if all lose. *)
BestOfTheGrid ==
  Returned =>
    /\ IsInjective(pushed) /\ ToSet(pushed) = DOMAIN configs
    /\ ToSet(configs) = GridOf(grid)
    /\ IF \E c \in GridOf(grid) : Score[c] >= 0
       THEN m_best \in GridOf(grid) /\ \A c \in GridOf(grid) : Score[c] <= Score[m_best]
       ELSE m_best = NoConfig

(* The days a range has an instant in, without the last one if the range ends at an
   earlier time of the day than it starts at. *)
DaysIn(span) ==
  date(span.start) ..
    (date(span.end - 1) - IF (span.end - 1) % Day < span.start % Day THEN 1 ELSE 0)

(* historical_prices_channel and get_next: a backtest has handled each trade of its days
   once and in order, though the answers of the others' requests arrive too and days
   without a trade lie in between. *)
BacktestsReadTheirDays ==
  \A t \in Threads : pc[t] = "finished" =>
    received[t] = FlattenSeq([k \in 1 .. Cardinality(DaysIn(range)) |->
                                TradesOf[date(range.start) + k - 1]])

(* If every strategy can be built, every file can be had and there is a trade, the
   optimizer returns. *)
OptimizerReturns ==
  (\A k \in DOMAIN configs : IsValid[configs[k]]) /\ (\E d \in DaysIn(range) : TradesOf[d] # <<>>)
    => <>(lost \/ Returned)
=============================================================================
