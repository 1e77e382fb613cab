---------------------------- MODULE SearchEngine ----------------------------
(***************************************************************************)
(* EvolutionEngine.RunEpoch (internal/saas/ga/engine.go): a population is  *)
(* evaluated by worker goroutines that share a fitness cache, its best     *)
(* genes are carried over unchanged, the rest is bred, and the search ends *)
(* after MaxGenerations or when a wider mutation has not helped either.    *)
(*                                                                         *)
(* A gene is a value with a score; what sampling, crossover and mutation   *)
(* produce is any gene.  The two mutation parameters are abstracted to the *)
(* number of times they have been widened: RampSteps is the number after   *)
(* which both are at their maximum, six with the values of                 *)
(* defaultHyperParams.  The service passes a context that is never         *)
(* cancelled and no progress callback, so that neither is here.            *)
(***************************************************************************)
EXTENDS Integers, Sequences, FiniteSetsExt

CONSTANTS
  Gene,
  Twin,            \* genes equal to six decimals: they have one fingerprint
  Seed,            \* what DecodeElite returns for no elite
  MaxScore,        \* scores are 0 .. MaxScore (bound)
  Worker,          \* goroutines of evaluatePopulation
  PopSize,
  EliteCount,
  MaxGenerations,
  Patience,        \* EarlyStopPatience
  RampSteps,       \* widenings until MutationProbMax and MutationScaleMax
  MinDelta         \* EarlyStopMinDelta

ASSUME SearchAssumption ==
  /\ Seed \in Gene /\ Twin \subseteq Gene
  /\ MaxScore \in Nat /\ MaxGenerations \in Nat /\ RampSteps \in Nat
  /\ PopSize \in Nat \ {0} /\ EliteCount \in Nat \ {0}
  /\ Patience \in Nat \ {0} /\ MinDelta \in Nat \ {0}
  /\ IsFiniteSet(Worker) /\ Worker # {}

VARIABLES
  stage,       \* where RunEpoch is
  score,       \* what Evaluate returns for each gene
  population,
  fitness,     \* fitness[i] of population[i], NoScore until it is evaluated
  queue,       \* next task in the channel, PopSize + 1 when it is drained
  worker,      \* what each goroutine does, and for which task
  cache,       \* fitness by fingerprint
  generation,
  best,        \* bestFitness, NoScore before the first evaluation
  patience,    \* patienceCount
  ramps,       \* times the mutation has been widened
  early,       \* earlyStop
  bests        \* history: the best fitness of every population evaluated

searchVars == <<stage, score, population, fitness, queue, worker, cache, generation,
                best, patience, ramps, early, bests>>

Index == 1 .. PopSize
Score == 0 .. MaxScore
NoScore == -1
Populations == [Index -> Gene]
Unevaluated == [i \in Index |-> NoScore]
Fingerprint(g) == IF g \in Twin THEN Twin ELSE {g}
Fingerprints == {Fingerprint(g) : g \in Gene}
Resting == [pc |-> "idle", task |-> 0]

\* Evaluate depends on the gene alone, and genes equal to six decimals score the same.
Landscapes == {s \in [Gene -> Score] : \A g, h \in Twin : s[g] = s[h]}

SearchInit ==
  /\ stage = "off"
  /\ score = [g \in Gene |-> 0]
  /\ population = [i \in Index |-> Seed]
  /\ fitness = Unevaluated
  /\ queue = PopSize + 1
  /\ worker = [w \in Worker |-> Resting]
  /\ cache = [f \in Fingerprints |-> NoScore]
  /\ generation = 0
  /\ best = NoScore
  /\ patience = 0
  /\ ramps = 0
  /\ early = FALSE
  /\ bests = <<>>

-----------------------------------------------------------------------------
(* evaluatePopulation                                                       *)

\* The tasks of a population are in the channel, the cache is new.
Dispatch(p) ==
  /\ population' = p
  /\ fitness' = Unevaluated
  /\ queue' = 1
  /\ cache' = [f \in Fingerprints |-> NoScore]

\* RunEpoch starts with the seed and a sample.
StartSearch ==
  /\ stage = "off"
  /\ stage' = "evaluate"
  /\ score' \in Landscapes
  /\ \E p \in Populations : p[1] = Seed /\ Dispatch(p)
  /\ UNCHANGED <<worker, generation, best, patience, ramps, early, bests>>

\* A worker takes the next task from the channel.
TakeTask(w) ==
  /\ stage = "evaluate"
  /\ worker[w].pc = "idle"
  /\ queue \in Index
  /\ queue' = queue + 1
  /\ worker' = [worker EXCEPT ![w] = [pc |-> "lookup", task |-> queue]]
  /\ UNCHANGED <<stage, score, population, fitness, cache, generation, best, patience,
                 ramps, early, bests>>

\* It finds the fitness of the gene's fingerprint in the cache, or goes on to evaluate.
Cached(g) == cache[Fingerprint(g)]

Lookup(w) ==
  LET i == worker[w].task IN
  /\ worker[w].pc = "lookup"
  /\ IF Cached(population[i]) # NoScore
     THEN /\ fitness' = [fitness EXCEPT ![i] = Cached(population[i])]
          /\ worker' = [worker EXCEPT ![w] = Resting]
     ELSE /\ worker' = [worker EXCEPT ![w].pc = "run"]
          /\ UNCHANGED fitness
  /\ UNCHANGED <<stage, score, population, queue, cache, generation, best, patience,
                 ramps, early, bests>>

\* Evaluate returns; the fitness is stored at the task's index, then cached.
TaskIndex(w) == worker[w].task

FinishTask(w) ==
  LET g == population[worker[w].task] IN
  /\ worker[w].pc = "run"
  /\ fitness' = [fitness EXCEPT ![TaskIndex(w)] = score[g]]
  /\ cache' = [cache EXCEPT ![Fingerprint(g)] = score[g]]
  /\ worker' = [worker EXCEPT ![w] = Resting]
  /\ UNCHANGED <<stage, score, population, queue, generation, best, patience, ramps,
                 early, bests>>

\* wg.Wait returns.
DrainedQueue == queue > PopSize   \* mutant: nobody waits for the tasks in work
Evaluated == queue > PopSize /\ \A w \in Worker : worker[w].pc = "idle"

-----------------------------------------------------------------------------
(* The generation loop of RunEpoch                                          *)

CurrentBest == Max({fitness[i] : i \in Index})
Base == IF best = NoScore THEN CurrentBest ELSE best
Distance(a, b) == IF a > b THEN a - b ELSE b - a
Stalled == Distance(CurrentBest, Base) < MinDelta

\* Convergence detection: patienceCount after this generation.
PatienceKept == IF Stalled THEN patience + 1 ELSE patience   \* mutant: never reset
NextPatience == IF Stalled THEN patience + 1 ELSE 0
NextBest == IF Stalled THEN Base ELSE CurrentBest
OutOfPatience == NextPatience >= Patience

\* The best EliteCount places of the population, ties in any order.
Elites ==
  {e \in [1 .. Min({EliteCount, PopSize}) -> Index] :
     /\ \A i, j \in DOMAIN e : i < j => e[i] # e[j] /\ fitness[e[i]] >= fitness[e[j]]
     /\ \A i \in DOMAIN e, k \in Index \ {e[j] : j \in DOMAIN e} : fitness[e[i]] >= fitness[k]}

AnyNextGen == Populations   \* mutant: no elite is carried over
NextGen ==
  {p \in Populations : \E e \in Elites : \A i \in DOMAIN e : p[i] = population[e[i]]}

MoreGenerations == generation < MaxGenerations

\* One generation: the mutation is widened if it is time to, the elite carried over and
\* the rest bred.
Breed ==
  /\ stage = "evaluate" /\ Evaluated
  /\ MoreGenerations
  /\ OutOfPatience => ramps < RampSteps
  /\ ramps' = IF OutOfPatience THEN ramps + 1 ELSE ramps
  /\ patience' = NextPatience
  /\ best' = NextBest
  /\ bests' = Append(bests, CurrentBest)
  /\ \E p \in NextGen : Dispatch(p)
  /\ generation' = generation + 1
  /\ UNCHANGED <<stage, score, worker, early>>

\* The widest mutation has not helped either.
StopEarly ==
  /\ stage = "evaluate" /\ Evaluated
  /\ MoreGenerations
  /\ OutOfPatience /\ ramps >= RampSteps
  /\ early' = TRUE
  /\ stage' = "done"
  /\ patience' = NextPatience
  /\ best' = NextBest
  /\ bests' = Append(bests, CurrentBest)
  /\ UNCHANGED <<score, population, fitness, queue, worker, cache, generation, ramps>>

\* The last population has been evaluated.
Exhaust ==
  /\ stage = "evaluate" /\ Evaluated
  /\ ~MoreGenerations
  /\ stage' = "done"
  /\ bests' = Append(bests, CurrentBest)
  /\ UNCHANGED <<score, population, fitness, queue, worker, cache, generation, best,
                 patience, ramps, early>>

\* The champion returned: the first place with the best fitness.
Champion ==
  population[Min({i \in Index : \A j \in Index : fitness[j] <= fitness[i]})]

\* RunEpoch has returned, or died with the process: nothing of it is kept.
ForgetSearch ==
  /\ stage' = "off"
  /\ score' = [g \in Gene |-> 0]
  /\ population' = [i \in Index |-> Seed]
  /\ fitness' = Unevaluated
  /\ queue' = PopSize + 1
  /\ worker' = [w \in Worker |-> Resting]
  /\ cache' = [f \in Fingerprints |-> NoScore]
  /\ generation' = 0
  /\ best' = NoScore
  /\ patience' = 0
  /\ ramps' = 0
  /\ early' = FALSE
  /\ bests' = <<>>

SearchStep ==
  \/ \E w \in Worker : TakeTask(w) \/ Lookup(w) \/ FinishTask(w)
  \/ Breed \/ StopEarly \/ Exhaust

ReturnResult == stage = "done" /\ ForgetSearch

SearchNext == StartSearch \/ SearchStep \/ ReturnResult

SearchSpec == SearchInit /\ [][SearchNext]_searchVars

-----------------------------------------------------------------------------
(* Properties                                                               *)

\* Every variable keeps its type.
SearchTypeOK ==
  /\ stage \in {"off", "evaluate", "done"}
  /\ score \in [Gene -> Score]
  /\ population \in Populations
  /\ fitness \in [Index -> Score \cup {NoScore}]
  /\ queue \in 1 .. PopSize + 1
  /\ worker \in [Worker -> [pc : {"idle", "lookup", "run"}, task : 0 .. PopSize]]
  /\ cache \in [Fingerprints -> Score \cup {NoScore}]
  /\ generation \in 0 .. MaxGenerations
  /\ best \in Score \cup {NoScore}
  /\ patience \in 0 .. MaxGenerations + 1
  /\ ramps \in 0 .. RampSteps
  /\ early \in BOOLEAN
  /\ bests \in Seq(Score)

\* Whichever worker takes a gene, and whether it evaluates it or finds it in the cache,
\* the fitness at an index is the score of the gene at that index; and when the loop goes
\* on, every index has one.
FitnessRight ==
  /\ \A i \in Index : fitness[i] # NoScore => fitness[i] = score[population[i]]
  /\ (stage = "evaluate" /\ Evaluated) \/ stage = "done" =>
       \A i \in Index : fitness[i] # NoScore

\* Elitism: the champion is at least as good as the best gene of every population of the
\* epoch, not only of the last.
ChampionIsBest ==
  stage = "done" => \A n \in DOMAIN bests : bests[n] <= score[Champion]

\* The search stops early only when its best has gained less than MinDelta over the last
\* Patience populations, and the mutation had been widened as far as it goes before.
EarlyStopJustified ==
  early =>
    /\ Len(bests) >= Patience + RampSteps
    /\ bests[Len(bests)] - bests[Len(bests) - Patience + 1] < MinDelta

-----------------------------------------------------------------------------
(* Inductive invariant of the proofs                                        *)

\* A cached fitness is the score of every gene with that fingerprint.
CacheInv ==
  /\ score \in Landscapes
  /\ \A g \in Gene : cache[Fingerprint(g)] # NoScore => cache[Fingerprint(g)] = score[g]

\* A task taken from the channel is finished or in the hands of a worker.
TaskInv ==
  /\ \A w \in Worker : worker[w].pc # "idle" => stage = "evaluate" /\ worker[w].task \in Index
  /\ stage = "evaluate" => \A i \in Index : i < queue =>
       fitness[i] # NoScore \/ \E w \in Worker : worker[w].pc # "idle" /\ worker[w].task = i

\* What RunEpoch starts from.
FreshInv ==
  stage = "off" =>
    /\ generation = 0 /\ best = NoScore /\ patience = 0 /\ ramps = 0 /\ ~early /\ bests = <<>>
    /\ \A w \in Worker : worker[w].pc = "idle"

\* The best of each population lives on in the population of the moment.
EliteInv ==
  /\ stage # "off" => \A n \in DOMAIN bests : \E i \in Index : bests[n] <= score[population[i]]
  /\ \A m, n \in DOMAIN bests : m <= n => bests[m] <= bests[n]

\* While the search goes on, the last patience populations have all been within MinDelta
\* of best, and each widening has cost a population more than Patience.
PatienceInv ==
  stage = "evaluate" =>
    /\ ~early
    /\ Len(bests) = generation
    /\ patience <= generation
    /\ generation = 0 => best = NoScore
    /\ generation > 0 => best # NoScore /\ best <= bests[generation]
    /\ \A n \in DOMAIN bests : n > generation - patience =>
         best <= bests[n] /\ bests[n] < best + MinDelta
    /\ ramps > 0 => generation >= Patience + ramps - 1

SearchInv ==
  /\ CacheInv /\ TaskInv /\ FreshInv /\ EliteInv /\ PatienceInv
  /\ FitnessRight /\ EarlyStopJustified

=============================================================================
