---------------------------- MODULE OptimizerProofs ----------------------------
(***************************************************************************)
(* Whatever the number of threads and of configurations, and in whichever  *)
(* order the backtests finish, each configuration is tried once and the    *)
(* best one is returned.  What get_possible_configs returns is an          *)
(* assumption here: it is computed by a fold.  The second half is about    *)
(* what a backtest reads: the trades of the days of its range, and no      *)
(* others, although all readers are answered through the same queues.      *)
(***************************************************************************)
EXTENDS Optimizer, QueueProofs, FiniteSetTheorems

(* What the generator is for. *)
GeneratorYieldsTheGrid ==
  \A g \in Grids : /\ get_possible_configs(g) \in Seq(GridOf(g))
                   /\ ToSet(get_possible_configs(g)) = GridOf(g)

Trying(t) == pc[t] \in {"built", "runs", "stuck", "finished"}

InputsAreKept ==
  /\ grid \in Grids /\ configs \in Seq(GridOf(grid)) /\ ToSet(configs) = GridOf(grid)

CountersHaveTypes ==
  /\ input_iter \in Nat \ {0}
  /\ pushed \in Seq(1 .. Len(configs))
  /\ pc \in [Threads -> {"next", "built", "runs", "stuck", "finished", "ended", "joined"}]
  /\ trial \in [Threads -> Nat]

(* The counter gives each configuration to one thread. *)
TrialsAreDistinct ==
  \A t \in Threads : Trying(t) =>
    /\ trial[t] \in 1 .. Len(configs) /\ trial[t] < input_iter
    /\ \A i \in DOMAIN pushed : pushed[i] # trial[t]
    /\ \A u \in Threads : Trying(u) /\ u # t => trial[u] # trial[t]

PushedOnce ==
  /\ \A i \in DOMAIN pushed : pushed[i] < input_iter
  /\ \A i, j \in DOMAIN pushed : pushed[i] = pushed[j] => i = j

(* No configuration the counter has passed is forgotten. *)
NoneIsSkipped ==
  \A k \in 1 .. Len(configs) : k < input_iter =>
    \/ \E i \in DOMAIN pushed : pushed[i] = k
    \/ \E t \in Threads : Trying(t) /\ trial[t] = k

(* A thread ends only when the counter has passed all of them. *)
EndedAtTheEnd ==
  \A t \in Threads : pc[t] \in {"ended", "joined"} => input_iter > Len(configs)

(* The collector holds the best of what was pushed. *)
BestOfThePushed ==
  \/ /\ m_best = NoConfig /\ m_best_score = -1
     /\ \A i \in DOMAIN pushed : Score[configs[pushed[i]]] < 0
  \/ /\ \E i \in DOMAIN pushed : m_best = configs[pushed[i]]
     /\ m_best_score = Score[m_best] /\ m_best_score >= 0
     /\ \A i \in DOMAIN pushed : Score[configs[pushed[i]]] <= m_best_score

OptInv ==
  /\ InputsAreKept
  /\ CountersHaveTypes
  /\ TrialsAreDistinct
  /\ PushedOnce
  /\ NoneIsSkipped
  /\ EndedAtTheEnd
  /\ BestOfThePushed

optVars == <<grid, configs, input_iter, pc, trial, m_best, m_best_score, pushed>>

-----------------------------------------------------------------------------
(* A configuration's score is a number. *)
LEMMA ConfigsHaveScores ==
  ASSUME InputsAreKept, NEW k \in 1 .. Len(configs)
  PROVE  configs[k] \in GridOf(grid) /\ Score[configs[k]] \in Int
<1>1. configs[k] \in GridOf(grid)
  BY DEF InputsAreKept
<1> QED BY <1>1, ScoresAreIntegers DEF InputsAreKept

LEMMA InitOptInv ==
  ASSUME GeneratorYieldsTheGrid, Init
  PROVE  OptInv
<1>1. InputsAreKept
  BY DEF GeneratorYieldsTheGrid, Init, InputsAreKept
<1>2. pushed = <<>> /\ input_iter = 1 /\ \A t \in Threads : pc[t] = "next"
  BY DEF Init
<1>3. DOMAIN pushed = {}
  BY <1>2
<1>4. CountersHaveTypes
  BY <1>2 DEF Init, CountersHaveTypes
<1>5. TrialsAreDistinct /\ EndedAtTheEnd
  BY <1>2 DEF TrialsAreDistinct, EndedAtTheEnd, Trying
<1>6. PushedOnce /\ NoneIsSkipped
  BY <1>2, <1>3 DEF PushedOnce, NoneIsSkipped
<1>7. BestOfThePushed
  BY <1>3 DEF Init, BestOfThePushed
<1> QED BY <1>1, <1>4, <1>5, <1>6, <1>7 DEF OptInv

(* A thread that only goes on with what it tries, or is done with all, changes none of it. *)
LEMMA ThreadGoesOn ==
  ASSUME OptInv, NEW t \in Threads, NEW here, NEW next,
         pc[t] = here, pc' = [pc EXCEPT ![t] = next],
         {here, next} \subseteq {"built", "runs", "stuck", "finished"},
         UNCHANGED <<grid, configs, input_iter, trial, m_best, m_best_score, pushed>>
  PROVE  OptInv'
<1> USE DEF OptInv
<1>1. \A u \in Threads : Trying(u)' <=> Trying(u)
  BY DEF CountersHaveTypes, Trying
<1>2. InputsAreKept' /\ PushedOnce' /\ BestOfThePushed'
  BY DEF InputsAreKept, PushedOnce, BestOfThePushed
<1>3. CountersHaveTypes'
  BY DEF CountersHaveTypes
<1>4. TrialsAreDistinct' /\ NoneIsSkipped'
  BY <1>1 DEF TrialsAreDistinct, NoneIsSkipped
<1>5. EndedAtTheEnd'
  BY DEF EndedAtTheEnd, CountersHaveTypes
<1> QED BY <1>2, <1>3, <1>4, <1>5

LEMMA NextTrialStep ==
  ASSUME OptInv, NEW t \in Threads, NextTrial(t)
  PROVE  OptInv'
<1> USE DEF OptInv
<1> DEFINE n == input_iter
<1>0. /\ pc[t] = "next" /\ ~Trying(t)
      /\ n \in Nat \ {0} /\ Len(configs) \in Nat
      /\ UNCHANGED <<grid, configs, m_best, m_best_score, pushed>>
      /\ input_iter' = n + 1 /\ trial' = [trial EXCEPT ![t] = n]
  BY DEF NextTrial, Trying, CountersHaveTypes, InputsAreKept, collector
<1>1. InputsAreKept' /\ BestOfThePushed'
  BY <1>0 DEF InputsAreKept, BestOfThePushed
<1>2. PushedOnce'
  BY <1>0 DEF PushedOnce, CountersHaveTypes
<1>3. CASE n > Len(configs)
  <2>1. pc' = [pc EXCEPT ![t] = "ended"]
    BY <1>3 DEF NextTrial
  <2>2. \A u \in Threads : /\ Trying(u)' <=> Trying(u)
                           /\ Trying(u) => trial'[u] = trial[u]
    BY <1>0, <2>1 DEF Trying, CountersHaveTypes
  <2>3. CountersHaveTypes'
    BY <1>0, <2>1 DEF CountersHaveTypes
  <2>4. TrialsAreDistinct'
    BY <1>0, <2>2 DEF TrialsAreDistinct, CountersHaveTypes
  <2>5. NoneIsSkipped'
    BY <1>0, <1>3, <2>2 DEF NoneIsSkipped
  <2>6. EndedAtTheEnd'
    BY <1>0, <1>3 DEF EndedAtTheEnd
  <2> QED BY <1>1, <1>2, <2>3, <2>4, <2>5, <2>6
<1>4. CASE n <= Len(configs)
  <2>1. /\ pc'[t] \in {"built", "stuck"}
        /\ pc' = [pc EXCEPT ![t] = pc'[t]]
    BY <1>0, <1>4 DEF NextTrial, CountersHaveTypes
  <2>2. /\ Trying(t)' /\ trial'[t] = n
        /\ \A u \in Threads \ {t} : (Trying(u)' <=> Trying(u)) /\ trial'[u] = trial[u]
    BY <1>0, <2>1 DEF Trying, CountersHaveTypes
  <2>3. CountersHaveTypes'
    BY <1>0, <2>1 DEF CountersHaveTypes
  <2>4. TrialsAreDistinct'
    <3>1. \A u \in Threads \ {t} : Trying(u) => trial[u] < n
      BY DEF TrialsAreDistinct
    <3>2. \A i \in DOMAIN pushed : pushed[i] < n
      BY DEF PushedOnce
    <3> QED BY <1>0, <1>4, <2>2, <3>1, <3>2 DEF TrialsAreDistinct, CountersHaveTypes
  <2>5. NoneIsSkipped'
    <3>1. \A k \in 1 .. Len(configs) : k < n + 1 => k < n \/ k = n
      BY <1>0
    <3> QED BY <1>0, <2>2, <3>1 DEF NoneIsSkipped
  <2>6. EndedAtTheEnd'
    BY <1>0, <1>4, <2>1, SMTT(20) DEF EndedAtTheEnd, CountersHaveTypes
  <2> QED BY <1>1, <1>2, <2>3, <2>4, <2>5, <2>6
<1> QED BY <1>0, <1>3, <1>4

(* OptimizerCollector::push keeps the best. *)
LEMMA CollectResultStep ==
  ASSUME OptInv, NEW t \in Threads, CollectResult(t)
  PROVE  OptInv'
<1> USE DEF OptInv
<1> DEFINE k == trial[t]
           n == Len(pushed)
           score == Score[configs[k]]
<1>0. /\ Trying(t) /\ k \in 1 .. Len(configs) /\ k < input_iter /\ n \in Nat
      /\ UNCHANGED <<grid, configs, input_iter, trial>>
      /\ pushed' = Append(pushed, k)
      /\ pc' = [pc EXCEPT ![t] = "next"]
  BY DEF CollectResult, Trying, TrialsAreDistinct, CountersHaveTypes
<1>1. /\ DOMAIN pushed = 1 .. n /\ DOMAIN pushed' = 1 .. n + 1
      /\ pushed'[n + 1] = k /\ \A i \in 1 .. n : pushed'[i] = pushed[i]
  BY <1>0 DEF CountersHaveTypes
<1>2. /\ ~Trying(t)'
      /\ \A u \in Threads \ {t} : Trying(u)' <=> Trying(u)
  BY <1>0 DEF Trying, CountersHaveTypes
<1>3. InputsAreKept'
  BY <1>0 DEF InputsAreKept
<1>4. CountersHaveTypes'
  BY <1>0 DEF CountersHaveTypes
<1>5. TrialsAreDistinct'
  BY <1>0, <1>1, <1>2 DEF TrialsAreDistinct
<1>6. PushedOnce'
  <2>1. \A i \in 1 .. n : pushed[i] # k
    BY <1>0, <1>1 DEF TrialsAreDistinct
  <2> QED BY <1>0, <1>1, <2>1 DEF PushedOnce
<1>7. NoneIsSkipped'
  <2> SUFFICES ASSUME NEW j \in 1 .. Len(configs), j < input_iter
               PROVE  \/ \E i \in 1 .. n + 1 : pushed'[i] = j
                      \/ \E u \in Threads : Trying(u)' /\ trial[u] = j
    BY <1>0, <1>1 DEF NoneIsSkipped
  <2>1. CASE j = k
    BY <1>0, <1>1, <2>1
  <2>2. CASE j # k
    BY <1>0, <1>1, <1>2, <2>2 DEF NoneIsSkipped
  <2> QED BY <2>1, <2>2
<1>8. EndedAtTheEnd'
  BY <1>0 DEF EndedAtTheEnd, CountersHaveTypes
<1>9. BestOfThePushed'
  <2>1. score \in Int /\ \A i \in 1 .. n : Score[configs[pushed[i]]] \in Int
    <3>1. \A i \in 1 .. n : pushed[i] \in 1 .. Len(configs)
      BY <1>1 DEF CountersHaveTypes
    <3>2. \A j \in 1 .. Len(configs) : Score[configs[j]] \in Int
      BY ConfigsHaveScores
    <3> QED BY <1>0, <3>1, <3>2
  <2>2. \A i \in 1 .. n : Score[configs[pushed'[i]]] = Score[configs[pushed[i]]]
    BY <1>1
  <2>3. m_best_score \in Int /\ m_best_score >= -1
    BY <1>1, <2>1 DEF BestOfThePushed
  <2>4. CASE IsBetter(score)
    <3>1. m_best' = configs[k] /\ m_best_score' = score /\ score >= 0 /\ score > m_best_score
      BY <2>4 DEF CollectResult, push, IsBetter
    <3>2. \A i \in 1 .. n : Score[configs[pushed[i]]] <= score
      BY <1>1, <2>1, <2>3, <3>1, SMTT(20) DEF BestOfThePushed
    <3> QED BY <1>0, <1>1, <2>1, <2>2, <3>1, <3>2 DEF BestOfThePushed
  <2>5. CASE ~IsBetter(score)
    <3>1. UNCHANGED <<m_best, m_best_score>> /\ (score < 0 \/ score <= m_best_score)
      BY <2>1, <2>3, <2>5 DEF CollectResult, push, IsBetter
    <3> QED BY <1>0, <1>1, <2>1, <2>2, <2>3, <3>1 DEF BestOfThePushed
  <2> QED BY <2>4, <2>5
<1> QED BY <1>3, <1>4, <1>5, <1>6, <1>7, <1>8, <1>9

LEMMA OptimizeReturnsStep ==
  ASSUME OptInv, OptimizeReturns
  PROVE  OptInv'
<1> USE DEF OptInv
<1>0. /\ pc' = [t \in Threads |-> "joined"]
      /\ UNCHANGED <<grid, configs, input_iter, trial, m_best, m_best_score, pushed>>
      /\ \A t \in Threads : pc[t] = "ended"
  BY DEF OptimizeReturns
<1>1. \A t \in Threads : ~Trying(t) /\ ~Trying(t)'
  BY <1>0 DEF Trying
<1>2. InputsAreKept' /\ PushedOnce' /\ BestOfThePushed'
  BY <1>0 DEF InputsAreKept, PushedOnce, BestOfThePushed
<1>3. CountersHaveTypes'
  BY <1>0 DEF CountersHaveTypes
<1>4. TrialsAreDistinct' /\ NoneIsSkipped'
  BY <1>0, <1>1 DEF TrialsAreDistinct, NoneIsSkipped
<1>5. EndedAtTheEnd'
  BY <1>0 DEF EndedAtTheEnd
<1> QED BY <1>2, <1>3, <1>4, <1>5

LEMMA StutterOptInv == OptInv /\ UNCHANGED optVars => OptInv'
BY DEF OptInv, optVars, InputsAreKept, CountersHaveTypes, TrialsAreDistinct, PushedOnce,
   NoneIsSkipped, EndedAtTheEnd, BestOfThePushed, Trying

LEMMA StepOptInv == OptInv /\ [Next]_vars => OptInv'
<1> SUFFICES ASSUME OptInv, [Next]_vars PROVE OptInv'
  OBVIOUS
<1>1. ASSUME NEW t \in Threads, NextTrial(t) PROVE OptInv'
  BY <1>1, NextTrialStep
<1>2. ASSUME NEW t \in Threads, StartTrial(t) PROVE OptInv'
  BY <1>2, ThreadGoesOn DEF StartTrial, collector
<1>3. ASSUME NEW t \in Threads, GeneratorArrives(t) PROVE OptInv'
  BY <1>3, StutterOptInv DEF GeneratorArrives, collector, optVars
<1>4. ASSUME NEW t \in Threads, PriceArrives(t) PROVE OptInv'
  <2>1. /\ pc[t] = "runs"
        /\ UNCHANGED <<grid, configs, input_iter, trial, m_best, m_best_score, pushed>>
        /\ UNCHANGED pc \/ pc' = [pc EXCEPT ![t] = "finished"]
    BY <1>4 DEF PriceArrives, collector
  <2>2. CASE UNCHANGED pc
    BY <2>1, <2>2, StutterOptInv DEF optVars
  <2>3. CASE pc' = [pc EXCEPT ![t] = "finished"]
    BY <2>1, <2>3, ThreadGoesOn
  <2> QED BY <2>1, <2>2, <2>3
<1>5. ASSUME NEW t \in Threads, CollectResult(t) PROVE OptInv'
  BY <1>5, CollectResultStep
<1>6. CASE GatewayServes
  BY <1>6, StutterOptInv DEF GatewayServes, collector, optVars
<1>7. CASE OptimizeReturns
  BY <1>7, OptimizeReturnsStep
<1>8. CASE UNCHANGED vars
  BY <1>8, StutterOptInv DEF vars, collector, optVars
<1> QED BY <1>1, <1>2, <1>3, <1>4, <1>5, <1>6, <1>7, <1>8 DEF Next, ThreadStep

(* When the threads are joined, nothing is being tried, so all has been pushed. *)
LEMMA InvImpliesBest == OptInv => BestOfTheGrid
<1> SUFFICES ASSUME OptInv, Returned PROVE BestOfTheGrid
  BY DEF BestOfTheGrid
<1> USE DEF OptInv
<1>1. input_iter > Len(configs) /\ \A t \in Threads : ~Trying(t)
  BY PoolIsNotEmpty DEF Returned, EndedAtTheEnd, Trying
<1>2. Len(configs) \in Nat /\ DOMAIN configs = 1 .. Len(configs) /\ input_iter \in Nat
  BY DEF InputsAreKept, CountersHaveTypes
<1>3. \A k \in DOMAIN configs : \E i \in DOMAIN pushed : pushed[i] = k
  BY <1>1, <1>2 DEF NoneIsSkipped
<1>4. \A i \in DOMAIN pushed : pushed[i] \in DOMAIN configs
  BY <1>2 DEF CountersHaveTypes
<1>5. IsInjective(pushed)
  BY DEF PushedOnce, IsInjective
<1>6. ToSet(pushed) = DOMAIN configs
  BY <1>3, <1>4 DEF ToSet
<1>7. ToSet(configs) = GridOf(grid)
  BY DEF InputsAreKept
<1>8. \A c \in GridOf(grid) : \E i \in DOMAIN pushed : c = configs[pushed[i]]
  BY <1>3, <1>7 DEF ToSet
<1>9. \A i \in DOMAIN pushed : /\ configs[pushed[i]] \in GridOf(grid)
                               /\ Score[configs[pushed[i]]] \in Int
  BY <1>2, <1>4, ConfigsHaveScores
<1>10. IF \E c \in GridOf(grid) : Score[c] >= 0
       THEN m_best \in GridOf(grid) /\ \A c \in GridOf(grid) : Score[c] <= Score[m_best]
       ELSE m_best = NoConfig
  <2>1. CASE /\ m_best = NoConfig
             /\ \A i \in DOMAIN pushed : Score[configs[pushed[i]]] < 0
    BY <1>8, <1>9, <2>1
  <2>2. CASE /\ \E i \in DOMAIN pushed : m_best = configs[pushed[i]]
             /\ m_best_score = Score[m_best] /\ m_best_score >= 0
             /\ \A i \in DOMAIN pushed : Score[configs[pushed[i]]] <= m_best_score
    BY <1>8, <1>9, <2>2
  <2> QED BY <2>1, <2>2 DEF BestOfThePushed
<1> QED BY <1>5, <1>6, <1>7, <1>10 DEF BestOfTheGrid

(* Optimizer::optimize: when all threads are joined, every configuration of the grid was
   tried exactly once and the best was returned, for any number of threads and
   configurations and any order in which the backtests end, if the generator yields the
   grid. *)
THEOREM TheBestIsReturned == GeneratorYieldsTheGrid => (Spec => []BestOfTheGrid)
<1> SUFFICES ASSUME GeneratorYieldsTheGrid PROVE Spec => []BestOfTheGrid
  OBVIOUS
<1>1. Init => OptInv
  BY InitOptInv
<1>2. OptInv /\ [Next]_vars => OptInv'
  BY StepOptInv
<1>3. OptInv => BestOfTheGrid
  BY InvImpliesBest
<1> QED BY <1>1, <1>2, <1>3, PTL DEF Spec
-----------------------------------------------------------------------------
(* f[i] is the first i of the sequences s, one after the other. *)
Flattens(f, s) == f = [i \in 1 .. Len(s) |-> IF i = 1 THEN s[i] ELSE f[i - 1] \o s[i]]

LEMMA FlattenSeqIs ==
  ASSUME NEW s, Len(s) # 0
  PROVE  FlattenSeq(s) = (CHOOSE f : Flattens(f, s))[Len(s)]
BY DEF FlattenSeq, Flattens

(* Its first n steps *)
FirstFiles(f, s, n) ==
  /\ f[0] = <<>>
  /\ \A i \in 1 .. n : f[i] = f[i - 1] \o s[i]

LEMMA FirstFilesExist ==
  ASSUME NEW S, NEW n \in Nat, NEW s, \A i \in 1 .. n : s[i] \in Seq(S)
  PROVE  \E f \in [0 .. n -> Seq(S)] : FirstFiles(f, s, n)
<1> DEFINE T == {m \in Nat : m <= n => \E f \in [0 .. m -> Seq(S)] : FirstFiles(f, s, m)}
<1>1. 0 \in T
  <2> DEFINE f == [i \in 0 .. 0 |-> <<>>]
  <2>1. f \in [0 .. 0 -> Seq(S)] /\ f[0] = <<>>
    OBVIOUS
  <2> HIDE DEF f
  <2>2. FirstFiles(f, s, 0)
    BY <2>1 DEF FirstFiles
  <2> QED BY <2>1, <2>2
<1>2. ASSUME NEW m \in T PROVE m + 1 \in T
  <2> SUFFICES ASSUME m + 1 <= n
               PROVE  \E f \in [0 .. m + 1 -> Seq(S)] : FirstFiles(f, s, m + 1)
    OBVIOUS
  <2>0. m \in Nat
    OBVIOUS
  <2>1. PICK f \in [0 .. m -> Seq(S)] : FirstFiles(f, s, m)
    OBVIOUS
  <2> DEFINE next == f[m] \o s[m + 1]
             g == [i \in 0 .. m + 1 |-> IF i = m + 1 THEN next ELSE f[i]]
  <2>2. f[m] \in Seq(S) /\ s[m + 1] \in Seq(S)
    OBVIOUS
  <2>3. next \in Seq(S)
    BY <2>2, ConcatProperties
  <2>9. f[m] \o s[m + 1] = next
    OBVIOUS
  <2> HIDE DEF next, T
  <2>4. g \in [0 .. m + 1 -> Seq(S)]
    BY <2>0, <2>3
  <2>5. /\ g[m + 1] = next /\ \A i \in 0 .. m : g[i] = f[i]
    BY <2>0
  <2> HIDE DEF g
  <2>6. \A i \in 1 .. m + 1 : g[i] = g[i - 1] \o s[i]
    <3> SUFFICES ASSUME NEW i \in 1 .. m + 1 PROVE g[i] = g[i - 1] \o s[i]
      OBVIOUS
    <3>1. i - 1 \in 0 .. m /\ g[i - 1] = f[i - 1]
      BY <2>0, <2>5
    <3>2. CASE i = m + 1
      <4>1. i - 1 = m
        BY <2>0, <3>2
      <4> QED BY <2>5, <2>9, <3>1, <3>2, <4>1
    <3>3. CASE i # m + 1
      <4>1. i \in 1 .. m /\ i \in 0 .. m
        BY <2>0, <3>3
      <4>2. f[i] = f[i - 1] \o s[i]
        BY <2>1, <4>1 DEF FirstFiles
      <4> QED BY <2>5, <3>1, <4>1, <4>2
    <3> QED BY <3>2, <3>3
  <2>7. g[0] = <<>>
    BY <2>0, <2>1, <2>5 DEF FirstFiles
  <2> QED BY <2>4, <2>6, <2>7 DEF FirstFiles
<1> HIDE DEF T
<1>3. T = Nat
  BY <1>1, <1>2, InductionOnNat DEF T
<1> QED BY <1>3 DEF T

(* Two solutions of the recursion agree. *)
LEMMA FlattensAlike ==
  ASSUME NEW S, NEW s \in Seq(Seq(S)), NEW f \in [0 .. Len(s) -> Seq(S)],
         FirstFiles(f, s, Len(s)), NEW g, Flattens(g, s)
  PROVE  \A i \in 1 .. Len(s) : g[i] = f[i]
<1> DEFINE n == Len(s)
<1> DEFINE T == {m \in Nat : m \in 1 .. n => g[m] = f[m]}
<1>0. \A i \in 1 .. n : g[i] = IF i = 1 THEN s[i] ELSE g[i - 1] \o s[i]
  BY DEF Flattens
<1>1. 0 \in T
  OBVIOUS
<1>2. ASSUME NEW m \in T PROVE m + 1 \in T
  <2> SUFFICES ASSUME m + 1 \in 1 .. n PROVE g[m + 1] = f[m + 1]
    OBVIOUS
  <2>0. m \in Nat /\ (m + 1) - 1 = m
    OBVIOUS
  <2>1. f[m + 1] = f[m] \o s[m + 1]
    BY <2>0 DEF FirstFiles
  <2>2. CASE m = 0
    <3>1. f[1] = <<>> \o s[1]
      <4>1. f[m] = <<>> /\ m + 1 = 1
        BY <2>2 DEF FirstFiles
      <4> QED BY <2>1, <4>1
    <3>2. s[1] \in Seq(S) /\ 1 \in 1 .. n
      BY <2>2
    <3>3. <<>> \o s[1] = s[1]
      BY <3>2
    <3>4. g[1] = s[1]
      BY <1>0, <3>2
    <3> QED BY <2>2, <3>1, <3>3, <3>4
  <2>3. CASE m # 0
    <3>1. m \in 1 .. n /\ g[m] = f[m]
      BY <2>0, <2>3
    <3>2. g[m + 1] = g[m] \o s[m + 1]
      <4>1. m + 1 # 1
        BY <2>0, <2>3
      <4>2. g[m + 1] = g[(m + 1) - 1] \o s[m + 1]
        BY <1>0, <4>1
      <4> QED BY <2>0, <4>2
    <3> QED BY <2>1, <3>1, <3>2
  <2> QED BY <2>2, <2>3
<1> HIDE DEF T
<1>3. T = Nat
  BY <1>1, <1>2, InductionOnNat DEF T
<1>4. \A i \in 1 .. n : i \in T
  BY <1>3
<1> QED BY <1>4 DEF T

(* FlattenSeq is the last of the prefixes. *)
LEMMA FlattenSeqIsPrefix ==
  ASSUME NEW S, NEW s \in Seq(Seq(S)), NEW f \in [0 .. Len(s) -> Seq(S)],
         FirstFiles(f, s, Len(s))
  PROVE  FlattenSeq(s) = f[Len(s)]
<1> DEFINE n == Len(s)
<1>0. n \in Nat /\ \A i \in 1 .. n : s[i] \in Seq(S)
  OBVIOUS
<1>1. CASE n = 0
  <2>1. FlattenSeq(s) = s /\ s = <<>>
    BY <1>1 DEF FlattenSeq
  <2> QED BY <1>1, <2>1 DEF FirstFiles
<1>2. CASE n # 0
  <2> DEFINE h == [i \in 1 .. n |-> f[i]]
  <2>1. Flattens(h, s)
    <3>1. \A i \in 1 .. n : h[i] = IF i = 1 THEN s[i] ELSE h[i - 1] \o s[i]
      <4> SUFFICES ASSUME NEW i \in 1 .. n PROVE h[i] = IF i = 1 THEN s[i] ELSE h[i - 1] \o s[i]
        OBVIOUS
      <4>1. h[i] = f[i] /\ f[i] = f[i - 1] \o s[i]
        BY DEF FirstFiles
      <4>2. CASE i = 1
        <5>1. f[0] = <<>> /\ <<>> \o s[1] = s[1]
          BY <1>0, <4>2 DEF FirstFiles
        <5>2. i - 1 = 0
          BY <4>2
        <5>3. h[i] = f[0] \o s[1]
          BY <4>1, <4>2, <5>2
        <5> HIDE DEF h
        <5> QED BY <4>2, <5>1, <5>3
      <4>3. CASE i # 1
        <5>1. i - 1 \in 1 .. n /\ h[i - 1] = f[i - 1]
          BY <4>3
        <5> QED BY <4>1, <4>3, <5>1
      <4> QED BY <4>2, <4>3
    <3>2. h = [i \in 1 .. n |-> h[i]]
      OBVIOUS
    <3> HIDE DEF h
    <3>3. [i \in 1 .. n |-> h[i]] = [i \in 1 .. n |-> IF i = 1 THEN s[i] ELSE h[i - 1] \o s[i]]
      BY <3>1
    <3> QED BY <3>2, <3>3 DEF Flattens
  <2> DEFINE g == CHOOSE g : Flattens(g, s)
  <2>2. Flattens(g, s)
    BY <2>1
  <2>3. FlattenSeq(s) = g[n]
    BY <1>2, FlattenSeqIs
  <2> HIDE DEF g, h, n
  <2>4. \A i \in 1 .. n : g[i] = f[i]
    BY <2>2, FlattensAlike DEF n
  <2> QED BY <1>0, <1>2, <2>3, <2>4 DEF n
<1> QED BY <1>1, <1>2
-----------------------------------------------------------------------------
(* The list of the days, counted from the start in steps of 24 hours, has a day for every
   day of DaysIn. *)
LEMMA QuotientIs ==
  ASSUME NEW k \in Int, NEW r \in 0 .. Day - 1, NEW x \in Int, x = k * Day + r
  PROVE  x \div Day = k
BY DayIsPositive

LEMMA DaysAreCounted ==
  ASSUME NEW s \in Int, NEW e \in Int
  PROVE  /\ date(s) \in Int /\ date(e - 1) \in Int
         /\ (e - s + Day - 1) \div Day
              = date(e - 1) - date(s) + 1 - IF (e - 1) % Day < s % Day THEN 1 ELSE 0
<1> DEFINE a == s \div Day
           b == (e - 1) \div Day
           p == s % Day
           q == (e - 1) % Day
<1>0. Day \in Nat \ {0}
  BY DayIsPositive
<1>1. a \in Int /\ p \in 0 .. Day - 1 /\ s = Day * a + p
  BY <1>0
<1>2. b \in Int /\ q \in 0 .. Day - 1 /\ e - 1 = Day * b + q
  BY <1>0
<1> DEFINE x == e - s + Day - 1
<1>9. date(s) = a /\ date(e - 1) = b /\ x \in Int
  BY <1>0 DEF date
<1> HIDE DEF a, b, p, q
<1>3. x = Day * b + q - (Day * a + p) + Day
  BY <1>0, <1>1, <1>2
<1>4. CASE q < p
  <2> DEFINE k == b - a
             r == q - p + Day
  <2>1. k \in Int /\ r \in 0 .. Day - 1
    BY <1>0, <1>1, <1>2, <1>4
  <2>2. x = k * Day + r
    BY <1>0, <1>1, <1>2, <1>3
  <2> HIDE DEF k, r, x
  <2>3. x \div Day = k
    BY <1>9, <2>1, <2>2, QuotientIs
  <2> QED BY <1>1, <1>2, <1>4, <1>9, <2>3 DEF k, x, p, q
<1>5. CASE ~(q < p)
  <2> DEFINE k == b - a + 1
             r == q - p
  <2>1. k \in Int /\ r \in 0 .. Day - 1
    BY <1>0, <1>1, <1>2, <1>5
  <2>2. x = k * Day + r
    BY <1>0, <1>1, <1>2, <1>3
  <2> HIDE DEF k, r, x
  <2>3. x \div Day = k
    BY <1>9, <2>1, <2>2, QuotientIs
  <2> QED BY <1>1, <1>2, <1>5, <1>9, <2>3 DEF k, x, p, q
<1> QED BY <1>4, <1>5

Days(span) == time_range_to_string_list(span)
Trades(span) == [k \in 1 .. Cardinality(DaysIn(span)) |-> TradesOf[date(span.start) + k - 1]]

LEMMA CountedDays ==
  ASSUME NEW a \in Int, NEW n \in Nat, NEW d, d = [k \in 1 .. n |-> a + k - 1]
  PROVE  d \in Seq(Int) /\ Len(d) = n
OBVIOUS

LEMMA DaysAreDaysRead ==
  ASSUME NEW span, span.start \in Int, span.end \in Int
  PROVE  /\ Cardinality(DaysIn(span)) \in Nat
         /\ Days(span) = [k \in 1 .. Cardinality(DaysIn(span)) |-> date(span.start) + k - 1]
         /\ Days(span) \in Seq(Int) /\ Len(Days(span)) = Cardinality(DaysIn(span))
<1> DEFINE s == span.start
           e == span.end
           n == (e - s + Day - 1) \div Day
           a == date(s)
           c == date(e - 1) - IF (e - 1) % Day < s % Day THEN 1 ELSE 0
<1>1. a \in Int /\ c \in Int /\ n = c - a + 1
  BY DaysAreCounted
<1>2. DaysIn(span) = a .. c
  BY DEF DaysIn
<1>3. Days(span) = [k \in 1 .. n |-> date(s) + k - 1]
  BY DEF Days, time_range_to_string_list
<1> HIDE DEF n, c, a
<1>4. Cardinality(a .. c) = IF a > c THEN 0 ELSE c - a + 1
  BY <1>1, FS_Interval
<1>5. 1 .. n = 1 .. Cardinality(a .. c) /\ Cardinality(a .. c) \in Nat
  BY <1>1, <1>4
<1>6. Days(span) = [k \in 1 .. Cardinality(a .. c) |-> a + k - 1]
  BY <1>3, <1>5 DEF a
<1> QED BY <1>1, <1>2, <1>5, <1>6, CountedDays DEF a

-----------------------------------------------------------------------------
(* The reader of a backtest that has handled rec: m files have been opened, and what was
   read from them and is not in rec waits in m_public_trades. *)
Reads(rd, rec, S, span) ==
  \E f \in [0 .. Cardinality(DaysIn(span)) -> Seq(S)], m \in 0 .. Cardinality(DaysIn(span)) :
    /\ FirstFiles(f, Trades(span), Cardinality(DaysIn(span)))
    /\ rd.m_files = SubSeq(Days(span), m + 1, Cardinality(DaysIn(span)))
    /\ rd.m_public_trades \in Seq(S) /\ rec \in Seq(S)
    /\ rec \o rd.m_public_trades = f[m]

IsReader(rd) == rd = [m_files |-> rd.m_files, m_public_trades |-> rd.m_public_trades]

(* A reader without files, of a request that failed *)
Reader(rd, rec, S, span) ==
  \/ rd = NewReader(<<>>) /\ rec = <<>>
  \/ /\ IsReader(rd) /\ ToSet(Days(span)) \subseteq DOMAIN TradesOf
     /\ Reads(rd, rec, S, span)

TradesAreIn(S, span) ==
  /\ None \notin S /\ \A d \in DOMAIN TradesOf : TradesOf[d] \in Seq(S)
  /\ span.start \in Int /\ span.end \in Int

FirstFilesIn(f, s, n, S) == f \in [0 .. n -> Seq(S)] /\ FirstFiles(f, s, n)
EmptyBetween(s, m, l) == \A i \in m + 1 .. l : s[i] = <<>>

(* Files without trades add nothing. *)
LEMMA EmptyFilesAddNothing ==
  ASSUME NEW S, NEW n \in Nat, NEW s, NEW f, FirstFilesIn(f, s, n, S),
         NEW m \in 0 .. n
  PROVE  \A l \in 0 .. n : m <= l /\ EmptyBetween(s, m, l) => f[l] = f[m]
<1> SUFFICES ASSUME NEW l \in 0 .. n, EmptyBetween(s, m, l), m <= l PROVE f[l] = f[m]
  OBVIOUS
<1>0. f \in [0 .. n -> Seq(S)] /\ FirstFiles(f, s, n)
  BY DEF FirstFilesIn
<1> DEFINE T == {j \in Nat : m + j <= l => f[m + j] = f[m]}
<1>1. 0 \in T
  OBVIOUS
<1>2. ASSUME NEW j \in T PROVE j + 1 \in T
  <2> SUFFICES ASSUME m + (j + 1) <= l PROVE f[m + (j + 1)] = f[m]
    OBVIOUS
  <2> DEFINE i == m + (j + 1)
  <2>1. i \in 1 .. n /\ i \in m + 1 .. l /\ i - 1 = m + j /\ f[m + j] = f[m]
    OBVIOUS
  <2> HIDE DEF i
  <2>2. f[i] = f[i - 1] \o s[i] /\ s[i] = <<>>
    BY <1>0, <2>1 DEF FirstFiles, EmptyBetween
  <2>3. f[i] = f[m] \o <<>> /\ f[m] \in Seq(S)
    BY <1>0, <2>1, <2>2
  <2>4. f[i] = f[m]
    BY <2>3
  <2> QED BY <2>4 DEF i
<1> HIDE DEF T
<1>3. T = Nat
  BY <1>1, <1>2, InductionOnNat DEF T
<1>4. l - m \in Nat
  OBVIOUS
<1>5. l - m \in T
  BY <1>3, <1>4
<1> QED BY <1>5 DEF T

(* The first file with trades, or 0 *)
LEMMA FirstIsFirst ==
  ASSUME NEW files, Len(files) \in Nat
  PROVE  LET n == FirstWithTrades(files) IN
         \/ n = 0 /\ \A i \in 1 .. Len(files) : TradesOf[files[i]] = <<>>
         \/ /\ n \in 1 .. Len(files) /\ TradesOf[files[n]] # <<>>
            /\ \A i \in 1 .. n - 1 : TradesOf[files[i]] = <<>>
<1> DEFINE I == {i \in 1 .. Len(files) : TradesOf[files[i]] # <<>>}
           n == FirstWithTrades(files)
<1>1. n = IF I # {} THEN (CHOOSE x \in I : \A y \in I : x <= y) ELSE 0
  BY DEF FirstWithTrades, SelectInSeq, Min
<1>2. CASE I = {}
  BY <1>1, <1>2
<1>3. CASE I # {}
  <2>1. I \in SUBSET Nat
    OBVIOUS
  <2>2. PICK x \in I : \A y \in I : ~(y < x)
    BY <1>3, <2>1, LeastExists
  <2>3. \A y \in I : x <= y
    BY <2>1, <2>2
  <2>4. n \in I /\ \A y \in I : n <= y
    BY <1>1, <1>3, <2>3
  <2>5. ASSUME NEW i \in 1 .. n - 1 PROVE TradesOf[files[i]] = <<>>
    <3>1. i \in 1 .. Len(files) /\ ~(n <= i)
      BY <2>4
    <3> QED BY <2>4, <3>1
  <2> QED BY <2>4, <2>5
<1> QED BY <1>2, <1>3

LEMMA HeadMoves ==
  ASSUME NEW S, NEW q \in Seq(S), NEW x \in Seq(S), x # <<>>
  PROVE  Append(q, Head(x)) \o Tail(x) = q \o x
OBVIOUS

(* get_next: the reader's next trade is the next of the days, and when there is none, all
   of them have been handled. *)
LEMMA ReaderGoesOn ==
  ASSUME NEW S, NEW span, TradesAreIn(S, span), NEW rd, NEW rec, Reader(rd, rec, S, span)
  PROVE  LET next == get_next(rd) IN
         /\ next.trade # None => Reader(next.reader, Append(rec, next.trade), S, span)
         /\ next.trade = None /\ rec # <<>> => rec = FlattenSeq(Trades(span))
<1> DEFINE next == get_next(rd)
           Goal == /\ next.trade # None => Reader(next.reader, Append(rec, next.trade), S, span)
                   /\ next.trade = None /\ rec # <<>> => rec = FlattenSeq(Trades(span))
           n == Cardinality(DaysIn(span))
           files == rd.m_files
           p == rd.m_public_trades
           first == FirstWithTrades(files)
<1> SUFFICES Goal
  OBVIOUS
<1>1. CASE rd = NewReader(<<>>) /\ rec = <<>>
  <2>1. files = <<>> /\ p = <<>>
    BY <1>1 DEF NewReader
  <2>2. first = 0
    <3>1. Len(<<>>) = 0
      OBVIOUS
    <3> HIDE DEF first
    <3> QED BY <2>1, <3>1, FirstIsFirst DEF first
  <2>3. next.trade = None
    BY <2>1, <2>2 DEF get_next
  <2> QED BY <1>1, <2>3
<1>2. CASE IsReader(rd) /\ ToSet(Days(span)) \subseteq DOMAIN TradesOf /\ Reads(rd, rec, S, span)
  <2>0. n \in Nat /\ Days(span) = [k \in 1 .. n |-> date(span.start) + k - 1]
    BY DaysAreDaysRead DEF TradesAreIn
  <2>9. PICK m \in 0 .. n : \E f :
          /\ f \in [0 .. n -> Seq(S)] /\ FirstFilesIn(f, Trades(span), n, S)
          /\ FirstFiles(f, Trades(span), n)
          /\ files = SubSeq(Days(span), m + 1, n)
          /\ p \in Seq(S) /\ rec \in Seq(S)
          /\ rec \o p = f[m]
    BY <1>2 DEF Reads, FirstFilesIn
  <2>1. PICK f :
          /\ f \in [0 .. n -> Seq(S)] /\ FirstFilesIn(f, Trades(span), n, S)
          /\ FirstFiles(f, Trades(span), n)
          /\ files = SubSeq(Days(span), m + 1, n)
          /\ p \in Seq(S) /\ rec \in Seq(S)
          /\ rec \o p = f[m]
    BY <2>9
  <2>2. /\ \A k \in 1 .. n : Trades(span)[k] = TradesOf[Days(span)[k]] /\ Trades(span)[k] \in Seq(S)
        /\ Trades(span) = [k \in 1 .. n |-> Trades(span)[k]]
    <3>1. \A k \in 1 .. n : Trades(span)[k] = TradesOf[Days(span)[k]]
      BY <2>0 DEF Trades
    <3>2. \A k \in 1 .. n : Days(span)[k] \in DOMAIN TradesOf
      <4> DEFINE d == Days(span)
      <4>1. DOMAIN d = 1 .. n /\ ToSet(d) \subseteq DOMAIN TradesOf
        BY <1>2, <2>0
      <4> HIDE DEF d, n
      <4>2. \A k \in 1 .. n : d[k] \in DOMAIN TradesOf
        BY <4>1 DEF ToSet
      <4> QED BY <4>2 DEF d
    <3> QED BY <3>1, <3>2 DEF TradesAreIn, Trades
  <2>3. /\ Len(files) = n - m
        /\ \A i \in 1 .. n - m : files[i] = Days(span)[m + i]
    <3>1. Days(span) \in Seq(Int) /\ Len(Days(span)) = n
      BY DaysAreDaysRead DEF TradesAreIn
    <3> QED BY <2>0, <2>1, <3>1
  <2> HIDE DEF n, files, p, first, Goal, next
  <2>7. \A j \in 0 .. n : m <= j /\ EmptyBetween(Trades(span), m, j) => f[j] = f[m]
    <3>1. FirstFilesIn(f, Trades(span), n, S) /\ n \in Nat /\ m \in 0 .. n
      BY <2>0, <2>1
    <3> QED BY <3>1, EmptyFilesAddNothing
  <2> USE DEF Goal, next
  <2>4. CASE p # <<>>
    <3>1. next = [trade |-> Head(p), reader |-> [rd EXCEPT !.m_public_trades = Tail(p)]]
      BY <2>4 DEF get_next, p
    <3> DEFINE r == [rd EXCEPT !.m_public_trades = Tail(p)]
    <3>2. next.trade = Head(p) /\ next.reader = r
      BY <3>1
    <3>3. IsReader(r) /\ r.m_files = files /\ r.m_public_trades = Tail(p)
      <4>1. rd = [m_files |-> files, m_public_trades |-> p]
        BY <1>2 DEF IsReader, files, p
      <4>2. r = [m_files |-> files, m_public_trades |-> Tail(p)]
        <5> DEFINE x == Tail(p)
        <5> HIDE DEF x
        <5>1. [rd EXCEPT !.m_public_trades = x] = [m_files |-> files, m_public_trades |-> x]
          BY <4>1
        <5> QED BY <5>1 DEF x
      <4> HIDE DEF r
      <4> QED BY <4>2 DEF IsReader
    <3>4. Head(p) \in S /\ Tail(p) \in Seq(S) /\ Append(rec, Head(p)) \in Seq(S)
      BY <2>1, <2>4
    <3>5. Append(rec, Head(p)) \o Tail(p) = rec \o p
      BY <2>1, <2>4, HeadMoves
    <3> HIDE DEF r, next
    <3>6. Reads(r, Append(rec, Head(p)), S, span)
      BY <2>1, <3>3, <3>4, <3>5 DEF Reads, n
    <3>7. Head(p) # None
      BY <3>4 DEF TradesAreIn
    <3>8. Reader(r, Append(rec, Head(p)), S, span)
      BY <1>2, <3>3, <3>6 DEF Reader
    <3> QED BY <3>2, <3>7, <3>8
  <2>5. CASE p = <<>> /\ first = 0
    <3>1. next = [trade |-> None, reader |-> NewReader(<<>>)]
      BY <2>5 DEF get_next, p, first, files
    <3>2. next.trade = None
      BY <3>1
    <3>3. \A i \in 1 .. Len(files) : TradesOf[files[i]] = <<>>
      <4>1. Len(files) \in Nat
        BY <2>0, <2>3
      <4> QED BY <2>5, <4>1, FirstIsFirst DEF first
    <3>4. EmptyBetween(Trades(span), m, n)
      <4> SUFFICES ASSUME NEW i \in m + 1 .. n PROVE Trades(span)[i] = <<>>
        BY DEF EmptyBetween
      <4>1. i - m \in 1 .. n - m /\ m + (i - m) = i /\ i \in 1 .. n
        BY <2>0
      <4>2. TradesOf[files[i - m]] = <<>> /\ files[i - m] = Days(span)[i]
        BY <2>3, <3>3, <4>1
      <4> QED BY <2>2, <4>1, <4>2
    <3>5. f[n] = f[m]
      <4>1. n \in 0 .. n /\ m <= n
        BY <2>0
      <4> QED BY <2>7, <3>4, <4>1
    <3>6. rec = f[n]
      BY <2>1, <2>5, <3>5
    <3>7. FlattenSeq(Trades(span)) = f[n]
      <4>1. Trades(span) \in Seq(Seq(S)) /\ Len(Trades(span)) = n
        <5> DEFINE t == Trades(span)
        <5>1. t = [k \in 1 .. n |-> t[k]] /\ \A k \in 1 .. n : t[k] \in Seq(S)
          BY <2>2
        <5>3. n \in Nat
          BY <2>0
        <5> DEFINE SS == Seq(S)
        <5>4. \A k \in 1 .. n : t[k] \in SS
          BY <5>1
        <5> HIDE DEF t, SS, Goal, next
        <5>2. t \in Seq(SS) /\ Len(t) = n
          BY <5>1, <5>3, <5>4
        <5> QED BY <5>2 DEF t, SS
      <4> QED BY <2>1, <4>1, FlattenSeqIsPrefix
    <3> HIDE DEF next
    <3> QED BY <3>2, <3>6, <3>7
  <2>6. CASE p = <<>> /\ first # 0
    <3>1. next = [trade |-> Head(TradesOf[files[first]]),
                  reader |-> [m_files |-> SubSeq(files, first + 1, Len(files)),
                              m_public_trades |-> Tail(TradesOf[files[first]])]]
      BY <2>6 DEF get_next, p, first, files
    <3> DEFINE l == m + first
               x == Trades(span)[l]
               r == [m_files |-> SubSeq(files, first + 1, Len(files)), m_public_trades |-> Tail(x)]
    <3>2. /\ first \in 1 .. n - m /\ TradesOf[files[first]] # <<>>
          /\ \A i \in 1 .. first - 1 : TradesOf[files[i]] = <<>>
      <4>1. Len(files) \in Nat
        BY <2>0, <2>3
      <4> QED BY <2>3, <2>6, <4>1, FirstIsFirst DEF first
    <3>3. /\ l \in 1 .. n /\ l - 1 \in 0 .. n /\ m <= l - 1
          /\ TradesOf[files[first]] = x /\ x # <<>> /\ x \in Seq(S)
      <4>1. l \in 1 .. n /\ l - 1 \in 0 .. n /\ m <= l - 1 /\ files[first] = Days(span)[l]
        <5>1. first \in Int /\ m \in Int /\ n \in Int
          BY <2>0, <3>2
        <5>2. l \in 1 .. n /\ l - 1 \in 0 .. n /\ m <= l - 1
          BY <3>2, <5>1
        <5>3. files[first] = Days(span)[m + first]
          BY <2>3, <3>2
        <5> QED BY <5>2, <5>3
      <4> HIDE DEF l
      <4> QED BY <2>2, <3>2, <4>1
    <3>4. f[l - 1] = f[m]
      <4>1. EmptyBetween(Trades(span), m, l - 1)
        <5> SUFFICES ASSUME NEW i \in m + 1 .. l - 1 PROVE Trades(span)[i] = <<>>
          BY DEF EmptyBetween
        <5>1. i - m \in 1 .. first - 1 /\ i - m \in 1 .. n - m /\ m + (i - m) = i /\ i \in 1 .. n
          <6>1. first \in Int /\ m \in Int /\ n \in Int /\ i \in Int
            BY <2>0, <3>2
          <6> QED BY <3>2, <6>1
        <5>2. TradesOf[files[i - m]] = <<>> /\ files[i - m] = Days(span)[i]
          BY <2>3, <3>2, <5>1
        <5> QED BY <2>2, <5>1, <5>2
      <4> DEFINE j == l - 1
      <4>2. m \in 0 .. n /\ j \in 0 .. n /\ m <= j /\ EmptyBetween(Trades(span), m, j)
        <5>1. j \in 0 .. n /\ m <= j
          BY <3>3
        <5> HIDE DEF l
        <5> QED BY <4>1, <5>1
      <4> HIDE DEF j, l, x, r, Goal, next
      <4>4. f[j] = f[m]
        BY <2>7, <4>2
      <4> QED BY <4>4 DEF j, l
    <3>5. f[l] = rec \o x
      <4>1. f[l] = f[l - 1] \o x
        BY <2>1, <3>3 DEF FirstFiles
      <4>2. f[m] = rec
        BY <2>1, <2>6
      <4> QED BY <3>4, <4>1, <4>2
    <3>6. next.trade = Head(x) /\ next.reader = r
      BY <3>1, <3>3
    <3>7. SubSeq(files, first + 1, Len(files)) = SubSeq(Days(span), l + 1, n)
      <4>1. Days(span) \in Seq(Int) /\ Len(Days(span)) = n
        BY DaysAreDaysRead DEF TradesAreIn, n
      <4>2. files = SubSeq(Days(span), m + 1, n)
        BY <2>1
      <4> DEFINE u == SubSeq(files, first + 1, Len(files))
                 v == SubSeq(Days(span), l + 1, n)
      <4>3. /\ Len(u) = n - l /\ u = [i \in 1 .. n - l |-> u[i]]
            /\ \A i \in 1 .. n - l : u[i] = Days(span)[l + i]
        <5>1. files \in Seq(Int) /\ Len(files) = n - m
          BY <2>0, <2>3, <4>1, <4>2
        <5>2. /\ u \in Seq(Int) /\ Len(u) = n - l
              /\ \A i \in 1 .. n - l : u[i] = files[first + i]
          <6>1. first \in Int /\ m \in Int /\ n \in Int
            BY <2>0, <3>2
          <6>2. first + 1 \in 1 .. Len(files) + 1 /\ Len(files) \in Nat
            BY <3>2, <5>1, <6>1
          <6>3. Len(u) = Len(files) - first /\ \A i \in 1 .. Len(files) - first : u[i] = files[first + i]
            BY <5>1, <6>1, <6>2
          <6>4. u \in Seq(Int)
            BY <5>1, <6>1, <6>2
          <6>5. Len(files) - first = n - l
            BY <5>1, <6>1
          <6> HIDE DEF u, l
          <6> QED BY <6>3, <6>4, <6>5
        <5> HIDE DEF u
        <5>3. \A i \in 1 .. n - l : files[first + i] = Days(span)[l + i]
          <6> SUFFICES ASSUME NEW i \in 1 .. n - l PROVE files[first + i] = Days(span)[l + i]
            OBVIOUS
          <6>1. first + i \in 1 .. n - m /\ m + (first + i) = l + i
            BY <2>0, <3>2
          <6> QED BY <2>3, <6>1
        <5> QED BY <5>2, <5>3
      <4>4. /\ Len(v) = n - l /\ v = [i \in 1 .. n - l |-> v[i]]
            /\ \A i \in 1 .. n - l : v[i] = Days(span)[l + i]
        <5> HIDE DEF l
        <5> QED BY <2>0, <3>3, <4>1
      <4> HIDE DEF u, v, l
      <4>5. u = v
        BY <4>3, <4>4
      <4> QED BY <4>5 DEF u, v
    <3>8. IsReader(r) /\ r.m_files = SubSeq(Days(span), l + 1, n) /\ r.m_public_trades = Tail(x)
      BY <3>7 DEF IsReader
    <3>9. Head(x) \in S /\ Tail(x) \in Seq(S) /\ Append(rec, Head(x)) \in Seq(S)
      <4> HIDE DEF x
      <4> QED BY <2>1, <3>3
    <3>10. Append(rec, Head(x)) \o Tail(x) = rec \o x
      <4> HIDE DEF x
      <4> QED BY <2>1, <3>3, HeadMoves
    <3> HIDE DEF r, next, l, x
    <3>11. Reads(r, Append(rec, Head(x)), S, span)
      <4>1. l \in 0 .. n
        BY <2>0, <3>3
      <4> QED BY <2>1, <3>5, <3>8, <3>9, <3>10, <4>1 DEF Reads, n
    <3>12. Head(x) # None
      BY <3>9 DEF TradesAreIn
    <3>13. Reader(r, Append(rec, Head(x)), S, span)
      BY <1>2, <3>8, <3>11 DEF Reader
    <3> QED BY <3>6, <3>12, <3>13
  <2> QED BY <2>4, <2>5, <2>6
<1> HIDE DEF Goal
<1> QED BY <1>1, <1>2 DEF Reader

-----------------------------------------------------------------------------
(* The answers that the gateway sends to the instances *)
Answers(span) ==
  {[guid |-> g, reader |-> NewReader(download(span, available))] :
     g \in Threads, available \in {DOMAIN TradesOf, {}}}

(* What a backtest in phase p with the generator gen has handled: rec *)
HasHandled(p, gen, rec, S, span) ==
  /\ p \in {"built", "runs"} =>
       /\ gen = {} => rec = <<>>
       /\ \A rd \in gen : Reader(rd, rec, S, span)
  /\ p = "finished" => rec = FlattenSeq(Trades(span))

PerThread(f) == f = [t \in Threads |-> f[t]]

ReadInv(S) ==
  /\ TradesAreIn(S, range)
  /\ requests \in Seq(Threads)
  /\ PerThread(pc) /\ PerThread(generator) /\ PerThread(received)
  /\ inbox \in [Threads -> Seq(Answers(range))]
  /\ \A t \in Threads : HasHandled(pc[t], generator[t], received[t], S, range)

AllTrades == (UNION {ToSet(TradesOf[d]) : d \in DOMAIN TradesOf}) \ {None}

LEMMA FilesAreOfAllTrades ==
  /\ None \notin AllTrades
  /\ \A d \in DOMAIN TradesOf : TradesOf[d] \in Seq(AllTrades)
<1>1. ASSUME NEW d \in DOMAIN TradesOf PROVE TradesOf[d] \in Seq(AllTrades)
  <2> DEFINE T == ToSet(TradesOf[d]) \ {None}
  <2>1. TradesOf[d] \in Seq(T)
    BY FilesHoldTrades
  <2>2. T \subseteq AllTrades
    <3> SUFFICES ASSUME NEW x \in T PROVE x \in AllTrades
      OBVIOUS
    <3>1. x \in ToSet(TradesOf[d]) /\ x # None
      OBVIOUS
    <3>2. x \in UNION {ToSet(TradesOf[e]) : e \in DOMAIN TradesOf}
      BY <3>1
    <3> QED BY <3>1, <3>2 DEF AllTrades
  <2> QED BY <2>1, <2>2, SeqMonotonic
<1>2. None \notin AllTrades
  BY DEF AllTrades
<1> QED BY <1>1, <1>2

(* A request's answer is a reader of all its days, or of none. *)
LEMMA AnswersAreReaders ==
  ASSUME NEW S, NEW span, TradesAreIn(S, span), NEW a \in Answers(span)
  PROVE  Reader(a.reader, <<>>, S, span)
<1> DEFINE n == Cardinality(DaysIn(span))
<1>1. PICK available \in {DOMAIN TradesOf, {}} : a.reader = NewReader(download(span, available))
  BY DEF Answers
<1>2. CASE ~(ToSet(Days(span)) \subseteq available)
  <2>1. download(span, available) = <<>>
    BY <1>2 DEF download, Days
  <2> QED BY <1>1, <2>1 DEF Reader
<1>3. CASE ToSet(Days(span)) \subseteq available
  <2>1. a.reader = NewReader(Days(span)) /\ ToSet(Days(span)) \subseteq DOMAIN TradesOf
    BY <1>1, <1>3 DEF download, Days
  <2>2. n \in Nat /\ Days(span) = [k \in 1 .. n |-> date(span.start) + k - 1]
    BY DaysAreDaysRead DEF TradesAreIn
  <2>3. \A k \in 1 .. n : Trades(span)[k] \in Seq(S)
    <3>1. \A k \in 1 .. n : Trades(span)[k] = TradesOf[Days(span)[k]]
      BY <2>2 DEF Trades
    <3>2. Len(Days(span)) = n
      BY <2>2
    <3>3. \A k \in 1 .. n : Days(span)[k] \in DOMAIN TradesOf
      BY <2>1, <2>2, <3>2 DEF ToSet
    <3> QED BY <3>1, <3>3 DEF TradesAreIn
  <2> HIDE DEF n
  <2>4. PICK f \in [0 .. n -> Seq(S)] : FirstFiles(f, Trades(span), n)
    BY <2>2, <2>3, FirstFilesExist
  <2>5. Days(span) = SubSeq(Days(span), 0 + 1, n)
    <3> DEFINE d == Days(span)
    <3>1. d \in Seq(Int) /\ Len(d) = n
      BY DaysAreDaysRead DEF TradesAreIn, n
    <3> HIDE DEF d
    <3>2. SubSeq(d, 1, Len(d)) = d
      BY <3>1
    <3> QED BY <3>1, <3>2 DEF d
  <2>6. /\ a.reader.m_files = Days(span) /\ a.reader.m_public_trades = <<>>
        /\ IsReader(a.reader)
    BY <2>1 DEF NewReader, IsReader
  <2> DEFINE m == 0
  <2>7. /\ a.reader.m_files = SubSeq(Days(span), m + 1, n) /\ m \in 0 .. n
        /\ a.reader.m_public_trades \in Seq(S) /\ <<>> \in Seq(S)
        /\ <<>> \o a.reader.m_public_trades = f[m]
    <3>1. f[0] = <<>>
      BY <2>4 DEF FirstFiles
    <3>2. <<>> \o <<>> = <<>>
      OBVIOUS
    <3> QED BY <2>2, <2>5, <2>6, <3>1, <3>2
  <2> HIDE DEF m
  <2>8. Reads(a.reader, <<>>, S, span)
    BY <2>4, <2>7 DEF Reads, n
  <2> QED BY <2>1, <2>6, <2>8 DEF Reader
<1> QED BY <1>2, <1>3

(* A step of one thread that leaves the range as it is *)
LEMMA OneThreadReads ==
  ASSUME NEW S, ReadInv(S), NEW t \in Threads, NEW p, NEW gen, NEW rec,
         pc' = [pc EXCEPT ![t] = p], generator' = [generator EXCEPT ![t] = gen],
         received' = [received EXCEPT ![t] = rec],
         HasHandled(p, gen, rec, S, range),
         inbox' \in [Threads -> Seq(Answers(range))], requests' \in Seq(Threads),
         UNCHANGED range
  PROVE  ReadInv(S)'
<1>1. PerThread(pc)' /\ PerThread(generator)' /\ PerThread(received)'
  BY DEF ReadInv, PerThread
<1>2. ASSUME NEW u \in Threads
      PROVE  HasHandled(pc'[u], generator'[u], received'[u], S, range)
  <2>1. CASE u = t
    <3>1. pc'[u] = p /\ generator'[u] = gen /\ received'[u] = rec
      BY <2>1 DEF ReadInv, PerThread
    <3> QED BY <3>1
  <2>2. CASE u # t
    <3>1. pc'[u] = pc[u] /\ generator'[u] = generator[u] /\ received'[u] = received[u]
      BY <2>2 DEF ReadInv, PerThread
    <3> QED BY <3>1 DEF ReadInv
  <2> QED BY <2>1, <2>2
<1> QED BY <1>1, <1>2 DEF ReadInv

LEMMA InitReadInv == Init => ReadInv(AllTrades)
<1> SUFFICES ASSUME Init PROVE ReadInv(AllTrades)
  OBVIOUS
<1>1. TradesAreIn(AllTrades, range)
  BY FilesAreOfAllTrades, RangesAreTimes DEF TradesAreIn, Init
<1>2. PerThread(pc) /\ PerThread(generator) /\ PerThread(received)
  BY DEF PerThread, Init
<1>3. inbox \in [Threads -> Seq(Answers(range))] /\ requests \in Seq(Threads)
  BY DEF Init
<1>4. \A t \in Threads : pc[t] = "next"
  BY DEF Init
<1>5. \A t \in Threads : HasHandled(pc[t], generator[t], received[t], AllTrades, range)
  BY <1>4 DEF HasHandled
<1> QED BY <1>1, <1>2, <1>3, <1>5 DEF ReadInv

LEMMA StepReadInv ==
  ASSUME NEW S, ReadInv(S), [Next]_vars
  PROVE  ReadInv(S)'
<1>0. /\ inbox \in [Threads -> Seq(Answers(range))] /\ requests \in Seq(Threads)
      /\ TradesAreIn(S, range)
      /\ PerThread(pc) /\ PerThread(generator) /\ PerThread(received)
      /\ \A t \in Threads : HasHandled(pc[t], generator[t], received[t], S, range)
  BY DEF ReadInv
<1>1. ASSUME NEW t \in Threads, NextTrial(t) PROVE ReadInv(S)'
  <2> DEFINE p == IF input_iter > Len(configs) THEN "ended"
                  ELSE IF IsValid[configs[input_iter]] THEN "built" ELSE "stuck"
  <2>1. /\ pc' = [pc EXCEPT ![t] = p] /\ generator' = [generator EXCEPT ![t] = {}]
        /\ received' = [received EXCEPT ![t] = <<>>]
        /\ inbox' = [inbox EXCEPT ![t] = <<>>]
        /\ requests' = requests /\ UNCHANGED range
    BY <1>1 DEF NextTrial
  <2>2. p # "finished"
    OBVIOUS
  <2> HIDE DEF p
  <2>3. HasHandled(p, {}, <<>>, S, range)
    BY <2>2 DEF HasHandled
  <2>4. inbox' \in [Threads -> Seq(Answers(range))] /\ requests' \in Seq(Threads)
    BY <1>0, <2>1
  <2> QED BY <2>1, <2>3, <2>4, OneThreadReads
<1>2. ASSUME NEW t \in Threads, StartTrial(t) PROVE ReadInv(S)'
  <2> DEFINE gen == generator[t]
             rec == received[t]
  <2>1. /\ pc[t] = "built" /\ pc' = [pc EXCEPT ![t] = "runs"]
        /\ generator' = generator /\ received' = received /\ inbox' = inbox
        /\ requests' = Append(requests, t) /\ UNCHANGED range
    BY <1>2 DEF StartTrial
  <2>2. HasHandled("runs", gen, rec, S, range)
    BY <1>0, <2>1 DEF HasHandled
  <2>3. generator' = [generator EXCEPT ![t] = gen] /\ received' = [received EXCEPT ![t] = rec]
    BY <1>0, <2>1 DEF PerThread
  <2>4. inbox' \in [Threads -> Seq(Answers(range))] /\ requests' \in Seq(Threads)
    BY <1>0, <2>1
  <2> HIDE DEF gen, rec
  <2> QED BY <2>1, <2>2, <2>3, <2>4, OneThreadReads
<1>3. ASSUME NEW t \in Threads, GeneratorArrives(t) PROVE ReadInv(S)'
  <2> DEFINE a == Head(inbox[t])
             rec == received[t]
             gen == IF Solicited(t) THEN {a.reader} ELSE generator[t]
             p == pc[t]
  <2>1. /\ p = "runs" /\ inbox[t] # <<>> /\ UNCHANGED <<pc, received, requests, range>>
        /\ inbox' = [inbox EXCEPT ![t] = Tail(@)]
        /\ generator' = IF Solicited(t) THEN [generator EXCEPT ![t] = {Head(inbox[t]).reader}]
                        ELSE generator
    BY <1>3 DEF GeneratorArrives
  <2>2. a \in Answers(range) /\ Tail(inbox[t]) \in Seq(Answers(range))
    <3>1. inbox[t] \in Seq(Answers(range))
      BY <1>0
    <3> QED BY <2>1, <3>1
  <2>3. pc' = [pc EXCEPT ![t] = p] /\ received' = [received EXCEPT ![t] = rec]
    BY <1>0, <2>1 DEF PerThread
  <2>4. generator' = [generator EXCEPT ![t] = gen]
    BY <1>0, <2>1 DEF PerThread
  <2>5. inbox' \in [Threads -> Seq(Answers(range))] /\ requests' \in Seq(Threads)
    BY <1>0, <2>1, <2>2
  <2>6. HasHandled(p, generator[t], rec, S, range)
    BY <1>0
  <2>7. Reader(a.reader, <<>>, S, range)
    BY <1>0, <2>2, AnswersAreReaders
  <2>8. HasHandled(p, gen, rec, S, range)
    <3>1. CASE Solicited(t)
      <4>1. gen = {a.reader} /\ rec = <<>>
        BY <2>1, <2>6, <3>1 DEF Solicited, HasHandled
      <4> HIDE DEF gen, rec, a
      <4> QED BY <2>1, <2>7, <4>1 DEF HasHandled
    <3>2. CASE ~Solicited(t)
      BY <2>6, <3>2
    <3> QED BY <3>1, <3>2
  <2> HIDE DEF p, gen, rec
  <2> QED BY <2>1, <2>3, <2>4, <2>5, <2>8, OneThreadReads
<1>4. ASSUME NEW t \in Threads, PriceArrives(t) PROVE ReadInv(S)'
  <2> DEFINE rec == received[t]
  <2>1. /\ pc[t] = "runs" /\ UNCHANGED <<requests, inbox, range>>
    BY <1>4 DEF PriceArrives
  <2>2. PICK rd \in generator[t] : LET next == get_next(rd) IN
          \/ /\ next.trade # None
             /\ received' = [received EXCEPT ![t] = Append(@, next.trade)]
             /\ generator' = [generator EXCEPT ![t] = {next.reader}]
             /\ UNCHANGED pc
          \/ /\ next.trade = None /\ received[t] # <<>>
             /\ generator' = [generator EXCEPT ![t] = {}]
             /\ pc' = [pc EXCEPT ![t] = "finished"]
             /\ UNCHANGED received
    BY <1>4 DEF PriceArrives
  <2> DEFINE trade == get_next(rd).trade
             reader == get_next(rd).reader
  <2>3. Reader(rd, rec, S, range)
    BY <1>0, <2>1 DEF HasHandled
  <2>4. /\ trade # None => Reader(reader, Append(rec, trade), S, range)
        /\ trade = None /\ rec # <<>> => rec = FlattenSeq(Trades(range))
    BY <1>0, <2>3, ReaderGoesOn
  <2>5. inbox' \in [Threads -> Seq(Answers(range))] /\ requests' \in Seq(Threads)
    BY <1>0, <2>1
  <2> HIDE DEF trade, reader
  <2>6. CASE /\ trade # None
             /\ received' = [received EXCEPT ![t] = Append(@, trade)]
             /\ generator' = [generator EXCEPT ![t] = {reader}]
             /\ UNCHANGED pc
    <3> DEFINE r == Append(rec, trade)
               g == {reader}
    <3>1. /\ received' = [received EXCEPT ![t] = r] /\ generator' = [generator EXCEPT ![t] = g]
          /\ pc' = [pc EXCEPT ![t] = "runs"]
      BY <1>0, <2>1, <2>6 DEF PerThread
    <3>2. HasHandled("runs", g, r, S, range)
      BY <2>4, <2>6 DEF HasHandled
    <3> HIDE DEF r, g
    <3> QED BY <2>1, <2>5, <3>1, <3>2, OneThreadReads
  <2>7. CASE /\ trade = None /\ rec # <<>>
             /\ generator' = [generator EXCEPT ![t] = {}]
             /\ pc' = [pc EXCEPT ![t] = "finished"]
             /\ UNCHANGED received
    <3>1. received' = [received EXCEPT ![t] = rec]
      BY <1>0, <2>7 DEF PerThread
    <3>2. HasHandled("finished", {}, rec, S, range)
      BY <2>4, <2>7 DEF HasHandled
    <3> HIDE DEF rec
    <3> QED BY <2>1, <2>5, <2>7, <3>1, <3>2, OneThreadReads
  <2> QED BY <2>2, <2>6, <2>7 DEF trade, reader
<1>5. ASSUME NEW t \in Threads, CollectResult(t) PROVE ReadInv(S)'
  <2> DEFINE gen == generator[t]
             rec == received[t]
  <2>1. /\ pc' = [pc EXCEPT ![t] = "next"]
        /\ UNCHANGED <<generator, received, inbox, requests, range>>
    BY <1>5 DEF CollectResult, instVars
  <2>2. HasHandled("next", gen, rec, S, range)
    BY DEF HasHandled
  <2>3. generator' = [generator EXCEPT ![t] = gen] /\ received' = [received EXCEPT ![t] = rec]
    BY <1>0, <2>1 DEF PerThread
  <2> HIDE DEF gen, rec
  <2> QED BY <1>0, <2>1, <2>2, <2>3, OneThreadReads
<1>6. CASE GatewayServes
  <2>1. /\ requests # <<>> /\ requests' = Tail(requests)
        /\ UNCHANGED <<pc, generator, received, range>>
    BY <1>6 DEF GatewayServes
  <2>2. PICK available \in {DOMAIN TradesOf, {}} :
          inbox' = [u \in Threads |->
                      IF pc[u] \in {"built", "runs"}
                      THEN Append(inbox[u], [guid |-> Head(requests),
                                             reader |-> NewReader(download(range, available))])
                      ELSE inbox[u]]
    BY <1>6 DEF GatewayServes
  <2> DEFINE a == [guid |-> Head(requests), reader |-> NewReader(download(range, available))]
  <2>3. a \in Answers(range)
    <3>1. Head(requests) \in Threads
      BY <1>0, <2>1
    <3> QED BY <3>1 DEF Answers
  <2>4. inbox' = [u \in Threads |-> IF pc[u] \in {"built", "runs"} THEN Append(inbox[u], a)
                                    ELSE inbox[u]]
    BY <2>2
  <2> HIDE DEF a
  <2>5. inbox' \in [Threads -> Seq(Answers(range))]
    BY <1>0, <2>3, <2>4
  <2>6. requests' \in Seq(Threads)
    BY <1>0, <2>1
  <2> QED BY <1>0, <2>1, <2>5, <2>6 DEF ReadInv, PerThread
<1>7. CASE OptimizeReturns
  <2>1. /\ pc' = [t \in Threads |-> "joined"]
        /\ UNCHANGED <<generator, received, inbox, requests, range>>
    BY <1>7 DEF OptimizeReturns, instVars
  <2>2. PerThread(pc)' /\ \A t \in Threads : pc'[t] = "joined"
    BY <2>1 DEF PerThread
  <2>3. \A t \in Threads : HasHandled(pc'[t], generator'[t], received'[t], S, range')
    BY <2>2 DEF HasHandled
  <2> QED BY <1>0, <2>1, <2>2, <2>3 DEF ReadInv, PerThread
<1>8. CASE UNCHANGED vars
  BY <1>0, <1>8 DEF ReadInv, vars, instVars, PerThread
<1> QED BY <1>1, <1>2, <1>3, <1>4, <1>5, <1>6, <1>7, <1>8 DEF Next, ThreadStep

(* historical_prices_channel and get_next: whatever the files, the range and the number of
   threads, a backtest that has finished has handled exactly the trades of its days, in
   their order: the answers to the other threads' requests, which arrive as well, days
   without a trade and requests that failed included. *)
THEOREM EachBacktestReadsItsDays == Spec => []BacktestsReadTheirDays
<1> DEFINE Inv == ReadInv(AllTrades)
<1>1. Init => Inv
  BY InitReadInv
<1>2. Inv /\ [Next]_vars => Inv'
  BY StepReadInv
<1>3. Inv => BacktestsReadTheirDays
  <2> SUFFICES ASSUME Inv, NEW t \in Threads, pc[t] = "finished"
               PROVE  received[t] = FlattenSeq(Trades(range))
    BY DEF BacktestsReadTheirDays, Trades
  <2> QED BY DEF ReadInv, HasHandled
<1> HIDE DEF Inv
<1> QED BY <1>1, <1>2, <1>3, PTL DEF Spec
=============================================================================
