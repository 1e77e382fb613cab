------------------------- MODULE EpochSearchProofs -------------------------
(***************************************************************************)
(* Proofs about the evolution service and the search inside it.  The       *)
(* service (EpochTask): types, one evolution in flight, and what rows say  *)
(* of it, for any number of requests, tasks, failures and restarts.  The   *)
(* search: every gene is judged by its own score, the best is never lost,  *)
(* an early stop has a reason, the engine has one owner, and the service   *)
(* with its search is still the service of EpochTask.                      *)
(***************************************************************************)
EXTENDS EpochSearch, WellFoundedInduction, SequenceTheorems, TLAPS

-----------------------------------------------------------------------------
(* The service                                                              *)

USE EpochAssumption

\* A request state has its fields.
LEMMA RequestTypes ==
  /\ NoRequest \in RequestState /\ NoRequest.pc = "idle"
  /\ [pc |-> "create", task |-> 0] \in RequestState
  /\ \A t \in 0 .. MaxTask : [pc |-> "set", task |-> t] \in RequestState
BY DEF NoRequest, RequestState

\* A step keeps the types; the row of a request that inserts one comes from EpochInv.
LEMMA TypeStep ==
  ASSUME TypeOK, EpochInv, [Next]_vars
  PROVE  TypeOK'
<1> USE RequestTypes DEF TypeOK, database
<1>1. ASSUME NEW r \in Request, Enter(r) PROVE TypeOK'
  BY <1>1 DEF Enter
<1>2. ASSUME NEW r \in Request, InsertTask(r) PROVE TypeOK'
  <2>1. rows + 1 \in Task /\ rows + 1 \in 0 .. MaxTask
    BY <1>2 DEF InsertTask, EpochInv, MutexInv, Task
  <2>2. QED BY <1>2, <2>1 DEF InsertTask
<1>3. ASSUME NEW r \in Request, InsertTaskFails(r) PROVE TypeOK'
  <2>1. rows + 1 \in Task /\ rows + 1 \in 0 .. MaxTask
    BY <1>3 DEF InsertTaskFails, EpochInv, MutexInv, Task
  <2>2. QED BY <1>3, <2>1 DEF InsertTaskFails, Fault
<1>4. ASSUME NEW r \in Request, StartEpoch(r) PROVE TypeOK'
  <2>1. request[r].task \in Task /\ request[r].task \in 0 .. MaxTask
    BY <1>4 DEF StartEpoch, EpochInv, MutexInv, Task
  <2>2. QED BY <1>4, <2>1 DEF StartEpoch
<1>5. ASSUME NEW t \in Task, Evolve(t) PROVE TypeOK'
  BY <1>5 DEF Evolve, AfterEvolve
<1>6. ASSUME NEW t \in Task, UpdateTask(t) PROVE TypeOK'
  BY <1>6 DEF UpdateTask, Fault
<1>7. ASSUME NEW t \in Task, InsertGene(t) PROVE TypeOK'
  <2>1. epoch' \in [Task -> {"none", "evolve", "update", "insert", "clear"}]
    BY <1>7 DEF InsertGene, AfterGene
  <2>2. gene' \in [Task -> BOOLEAN]
    BY <1>7 DEF InsertGene
  <2>3. faults' \in 0 .. MaxFault
    <3>1. faults' = faults \/ (faults < MaxFault /\ faults' = faults + 1)
      BY <1>7 DEF InsertGene, Fault
    <3>2. QED BY <3>1
  <2>4. excused' \subseteq Task
    BY <1>7 DEF InsertGene
  <2>5. QED BY <1>7, <2>1, <2>2, <2>3, <2>4 DEF InsertGene
<1>8. ASSUME NEW t \in Task, ClearTask(t) PROVE TypeOK'
  BY <1>8 DEF ClearTask
<1>9. ASSUME Restart PROVE TypeOK'
  BY <1>9 DEF Restart
<1>10. ASSUME UNCHANGED vars PROVE TypeOK'
  BY <1>10 DEF vars
<1>11. QED BY <1>1, <1>2, <1>3, <1>4, <1>5, <1>6, <1>7, <1>8, <1>9, <1>10 DEF Next

-----------------------------------------------------------------------------
\* Parts of the invariant about requests, about goroutines and about rows.
LEMMA RequestSteps ==
  ASSUME TypeOK, EpochInv, NEW r \in Request,
         Enter(r) \/ InsertTask(r) \/ InsertTaskFails(r) \/ StartEpoch(r)
  PROVE  EpochInv'
<1> USE RequestTypes DEF TypeOK, database, Task
<1> USE DEF EpochInv, MutexInv, RowInv, SingleFlight, RunningRowsLive, GeneAfterRow,
            InCreate, Alive, Starting
<1>1. CASE Enter(r)
  <2>1. \A s \in Request : ~InCreate(s)
    BY <1>1 DEF Enter, MayEnter, Unlocked
  <2>2. request'[r].pc = "create" /\ \A s \in Request \ {r} : request'[s] = request[s]
    BY <1>1 DEF Enter
  <2>3. MutexInv'
    BY <1>1, <2>1, <2>2 DEF Enter
  <2>4. RunningRowsLive'
    BY <1>1, <2>1, <2>2 DEF Enter
  <2>5. RowInv' /\ SingleFlight' /\ GeneAfterRow'
    BY <1>1 DEF Enter
  <2>6. QED BY <2>3, <2>4, <2>5
<1>2. CASE InsertTask(r)
  <2>1. /\ rows + 1 \in Task /\ current = 0 /\ epoch[rows + 1] = "none" /\ ~gene[rows + 1]
        /\ \A s \in Request \ {r} : ~InCreate(s)
    BY <1>2 DEF InsertTask
  <2>2. /\ request'[r].pc = "set" /\ request'[r].task = rows + 1
        /\ \A s \in Request \ {r} : request'[s] = request[s]
    BY <1>2, <2>1 DEF InsertTask
  <2>3. /\ status'[rows + 1] = "running" /\ rows' = rows + 1
        /\ \A t \in Task \ {rows + 1} : status'[t] = status[t]
    BY <1>2, <2>1 DEF InsertTask
  <2>4. MutexInv'
    BY <1>2, <2>1, <2>2, <2>3 DEF InsertTask
  <2>5. RowInv' /\ SingleFlight'
    BY <1>2, <2>1, <2>3 DEF InsertTask
  <2>6. RunningRowsLive'
    BY <1>2, <2>1, <2>2, <2>3 DEF InsertTask
  <2>7. GeneAfterRow'
    BY <1>2, <2>1, <2>3 DEF InsertTask
  <2>8. QED BY <2>4, <2>5, <2>6, <2>7
<1>3. CASE InsertTaskFails(r)
  <2>1. /\ rows + 1 \in Task /\ current = 0 /\ epoch[rows + 1] = "none" /\ ~gene[rows + 1]
        /\ \A s \in Request \ {r} : ~InCreate(s)
    BY <1>3 DEF InsertTaskFails
  <2>2. /\ request'[r].pc = "idle" /\ UNCHANGED <<gene, epoch, current>>
        /\ \A s \in Request \ {r} : request'[s] = request[s]
    BY <1>3 DEF InsertTaskFails
  <2>3. \/ UNCHANGED <<rows, status, excused>>
        \/ /\ rows' = rows + 1 /\ excused' = excused \cup {rows + 1}
           /\ status'[rows + 1] = "running"
           /\ \A t \in Task \ {rows + 1} : status'[t] = status[t]
    BY <1>3, <2>1 DEF InsertTaskFails
  <2>4. MutexInv'
    <3>1. \A s \in Request : request'[s].pc = "idle"
      BY <2>1, <2>2
    <3>2. QED BY <3>1
  <2>5. RowInv'
    BY <2>1, <2>2, <2>3
  <2>6. SingleFlight' /\ GeneAfterRow'
    BY <2>1, <2>2, <2>3
  <2>7. RunningRowsLive'
    <3>1. \A t \in Task : ~Starting(t)
      BY <1>3, <2>1 DEF InsertTaskFails
    <3>2. QED BY <3>1, <2>2, <2>3
  <2>8. QED BY <2>4, <2>5, <2>6, <2>7
<1>4. CASE StartEpoch(r)
  <2> DEFINE u == request[r].task
  <2>1. /\ u \in Task /\ u <= rows /\ status[u] = "running" /\ ~gene[u] /\ current = 0
        /\ \A s \in Request \ {r} : ~InCreate(s)
    BY <1>4 DEF StartEpoch
  <2>2. /\ request'[r].pc = "idle" /\ current' = u
        /\ UNCHANGED <<rows, status, gene, excused>>
        /\ \A s \in Request \ {r} : request'[s] = request[s]
    BY <1>4 DEF StartEpoch
  <2>3. epoch'[u] = "evolve" /\ \A t \in Task \ {u} : epoch'[t] = epoch[t] /\ epoch[t] = "none"
    BY <1>4, <2>1 DEF StartEpoch
  <2>4. MutexInv'
    <3>1. \A s \in Request : request'[s].pc = "idle"
      BY <2>1, <2>2
    <3>2. QED BY <3>1
  <2>5. RowInv'
    BY <2>1, <2>2, <2>3
  <2>6. SingleFlight'
    BY <2>1, <2>2, <2>3
  <2>7. \A t \in Task \ {u} : ~Starting(t)
    BY <1>4, <2>1 DEF StartEpoch
  <2>8. RunningRowsLive'
    BY <2>1, <2>2, <2>3, <2>7
  <2>9. GeneAfterRow'
    BY <2>1, <2>2, <2>3
  <2>10. QED BY <2>4, <2>5, <2>6, <2>8, <2>9
<1>5. QED BY <1>1, <1>2, <1>3, <1>4

\* A goroutine's step concerns its own row, and leaves the mutex alone.
LEMMA EpochSteps ==
  ASSUME TypeOK, EpochInv, NEW t \in Task,
         Evolve(t) \/ UpdateTask(t) \/ InsertGene(t) \/ ClearTask(t)
  PROVE  EpochInv'
<1> USE DEF EpochInv, MutexInv, RowInv, SingleFlight, RunningRowsLive, GeneAfterRow,
            InCreate, Alive, Starting
<1>1. /\ UNCHANGED <<request, rows>> /\ Alive(t) /\ current = t
      /\ \A u \in Task \ {t} : ~Alive(u) /\ epoch'[u] = epoch[u]
      /\ \A u \in Task \ {t} : status'[u] = status[u] /\ gene'[u] = gene[u]
      /\ excused \subseteq excused'
      /\ \A r \in Request : ~InCreate(r)
  <2>1. UNCHANGED <<request, rows>> /\ excused \subseteq excused'
    BY DEF Evolve, UpdateTask, InsertGene, ClearTask, database
  <2>2. Alive(t)
    BY DEF Evolve, UpdateTask, InsertGene, ClearTask
  <2>3. current = t /\ \A u \in Task \ {t} : ~Alive(u)
    BY <2>2
  <2>4. \A u \in Task \ {t} : epoch'[u] = epoch[u]
    <3>1. \E x : epoch' = [epoch EXCEPT ![t] = x]
      BY DEF Evolve, UpdateTask, InsertGene, ClearTask
    <3>2. QED BY <3>1 DEF TypeOK
  <2>5. \A u \in Task \ {t} : status'[u] = status[u] /\ gene'[u] = gene[u]
    <3>1. status' = status \/ status' = [status EXCEPT ![t] = "completed"]
      BY DEF Evolve, UpdateTask, InsertGene, ClearTask, database
    <3>2. gene' = gene \/ gene' = [gene EXCEPT ![t] = TRUE]
      BY DEF Evolve, UpdateTask, InsertGene, ClearTask, database
    <3>3. QED BY <3>1, <3>2 DEF TypeOK
  <2>6. \A r \in Request : ~InCreate(r)
    <3>1. current # 0
      BY <2>3 DEF Task
    <3>2. QED BY <3>1
  <2>7. QED BY <2>1, <2>2, <2>3, <2>4, <2>5, <2>6
<1>2. MutexInv'
  BY <1>1
<1>3. CASE Evolve(t)
  <2>1. epoch'[t] = "update" /\ UNCHANGED <<current, status, gene, excused>>
    BY <1>3 DEF Evolve, AfterEvolve, TypeOK, database
  <2>2. RowInv' /\ SingleFlight' /\ RunningRowsLive' /\ GeneAfterRow'
    BY <1>1, <1>3, <2>1 DEF Evolve
  <2>3. QED BY <1>2, <2>2
<1>4. CASE UpdateTask(t)
  <2>1. /\ epoch'[t] = "insert" /\ UNCHANGED <<current, gene>>
        /\ status'[t] = "completed" \/ t \in excused'
    BY <1>4 DEF UpdateTask, TypeOK
  <2>2. RowInv' /\ SingleFlight' /\ RunningRowsLive' /\ GeneAfterRow'
    BY <1>1, <1>4, <2>1 DEF UpdateTask
  <2>3. QED BY <1>2, <2>2
<1>5. CASE InsertGene(t)
  <2>1. /\ epoch'[t] = "clear" /\ UNCHANGED <<current, status>>
        /\ gene'[t] \/ t \in excused'
    BY <1>5 DEF InsertGene, AfterGene, TypeOK
  <2>2. RowInv' /\ SingleFlight' /\ RunningRowsLive' /\ GeneAfterRow'
    BY <1>1, <1>5, <2>1 DEF InsertGene
  <2>3. QED BY <1>2, <2>2
<1>6. CASE ClearTask(t)
  <2>1. epoch'[t] = "none" /\ current' = 0 /\ UNCHANGED <<status, gene, excused>>
    BY <1>6 DEF ClearTask, TypeOK, database
  <2>2. RowInv' /\ SingleFlight' /\ RunningRowsLive' /\ GeneAfterRow'
    BY <1>1, <1>6, <2>1 DEF ClearTask, Task
  <2>3. QED BY <1>2, <2>2
<1>7. QED BY <1>3, <1>4, <1>5, <1>6

\* A restart excuses the task in flight, and nothing else is alive.
LEMMA RestartStep ==
  ASSUME TypeOK, EpochInv, Restart
  PROVE  EpochInv'
<1>1. /\ \A r \in Request : request'[r].pc = "idle"
      /\ \A t \in Task : epoch'[t] = "none"
      /\ current' = 0 /\ UNCHANGED <<rows, status, gene>>
      /\ \A t \in Task : Alive(t) \/ Starting(t) \/ t \in excused => t \in excused'
  BY RequestTypes DEF Restart, database
<1>2. MutexInv' /\ RowInv' /\ SingleFlight'
  BY <1>1 DEF EpochInv, MutexInv, RowInv, SingleFlight, InCreate, Alive, Task
<1>3. RunningRowsLive' /\ GeneAfterRow'
  BY <1>1 DEF EpochInv, RunningRowsLive, GeneAfterRow, Alive
<1>4. QED BY <1>2, <1>3 DEF EpochInv

LEMMA InvInit == Init => TypeOK /\ EpochInv
<1> SUFFICES ASSUME Init PROVE TypeOK /\ EpochInv
  OBVIOUS
<1> USE RequestTypes DEF Init
<1>1. TypeOK
  BY DEF TypeOK
<1>2. MutexInv /\ RowInv /\ SingleFlight
  BY DEF MutexInv, RowInv, SingleFlight, InCreate, Alive, Task
<1>3. RunningRowsLive /\ GeneAfterRow
  BY DEF RunningRowsLive, GeneAfterRow, Alive
<1>4. QED BY <1>1, <1>2, <1>3 DEF EpochInv

-----------------------------------------------------------------------------
\* Types and the invariant hold together: the type of a new row needs the mutex.
LEMMA Inductive == Spec => [](TypeOK /\ EpochInv)
<1>1. ASSUME TypeOK, EpochInv, [Next]_vars PROVE TypeOK' /\ EpochInv'
  <2>1. TypeOK'
    BY <1>1, TypeStep
  <2>2. CASE \E r \in Request : Enter(r) \/ InsertTask(r) \/ InsertTaskFails(r) \/ StartEpoch(r)
    BY <1>1, <2>1, <2>2, RequestSteps
  <2>3. CASE \E t \in Task : Evolve(t) \/ UpdateTask(t) \/ InsertGene(t) \/ ClearTask(t)
    BY <1>1, <2>1, <2>3, EpochSteps
  <2>4. CASE Restart
    BY <1>1, <2>1, <2>4, RestartStep
  <2>5. CASE UNCHANGED vars
    BY <1>1, <2>1, <2>5 DEF vars, EpochInv, MutexInv, RowInv, SingleFlight,
       RunningRowsLive, GeneAfterRow, InCreate, Alive, Starting
  <2>6. QED BY <1>1, <2>2, <2>3, <2>4, <2>5 DEF Next
<1>2. QED BY InvInit, <1>1, PTL DEF Spec

\* Every variable of the service and of its tables keeps its type.
THEOREM EpochTyping == Spec => []TypeOK
BY Inductive, PTL

\* currentTask and the goroutines agree: at most one evolution is in flight, and the
\* service is busy exactly as long as it is.
THEOREM OneEpoch == Spec => []SingleFlight
<1>1. EpochInv => SingleFlight
  BY DEF EpochInv
<1>2. QED BY <1>1, Inductive, PTL

\* A row left in "running" has a failed statement or a restart to blame.
THEOREM RowsLive == Spec => []RunningRowsLive
<1>1. EpochInv => RunningRowsLive
  BY DEF EpochInv
<1>2. QED BY <1>1, Inductive, PTL

\* A completed task and its challenger go together, failures and restarts apart.
THEOREM GenesFollow == Spec => []GeneAfterRow
<1>1. EpochInv => GeneAfterRow
  BY DEF EpochInv
<1>2. QED BY <1>1, Inductive, PTL

-----------------------------------------------------------------------------
(* The search                                                               *)

USE SearchAssumption

-----------------------------------------------------------------------------
(* Largest and smallest                                                     *)

\* A set of natural numbers has a smallest member.
LEMMA NatMin ==
  ASSUME NEW T, T \subseteq Nat, T # {}
  PROVE  \E x \in T : \A y \in T : x <= y
<1>1. PICK x \in T : \A y \in T : ~(<<y, x>> \in OpToRel(<, Nat))
  BY NatLessThanWellFounded, WFMin
<1>2. \A y \in T : ~(y < x)
  BY <1>1 DEF OpToRel
<1>3. QED BY <1>2

\* A population whose places all have a score has a best place.
LEMMA BestPlace ==
  ASSUME NEW f \in [Index -> Score]
  PROVE  \E i \in Index : \A j \in Index : f[j] <= f[i]
<1> DEFINE T == {MaxScore - f[i] : i \in Index}
<1>1. T \subseteq Nat
  BY DEF Score
<1>2. 1 \in Index
  BY DEF Index
<1>3. T # {}
  BY <1>2
<1> HIDE DEF T
<1>4. PICK x \in T : \A y \in T : x <= y
  BY <1>1, <1>3, NatMin
<1> USE DEF T
<1>5. PICK i \in Index : x = MaxScore - f[i]
  BY <1>4
<1>6. \A j \in Index : MaxScore - f[i] <= MaxScore - f[j]
  BY <1>4, <1>5
<1>7. QED BY <1>6 DEF Score

\* currentBest is the fitness of such a place.
LEMMA CurrentBestIs ==
  ASSUME fitness \in [Index -> Score]
  PROVE  /\ CurrentBest \in Score
         /\ \E i \in Index : fitness[i] = CurrentBest
         /\ \A j \in Index : fitness[j] <= CurrentBest
<1> DEFINE F == {fitness[i] : i \in Index}
<1>1. PICK i \in Index : \A j \in Index : fitness[j] <= fitness[i]
  BY BestPlace
<1>2. fitness[i] \in F /\ \A y \in F : fitness[i] >= y
  BY <1>1 DEF Score
<1>3. CurrentBest \in F /\ \A y \in F : CurrentBest >= y
  BY <1>2 DEF CurrentBest, Max
<1>4. QED BY <1>3 DEF Score

\* The champion has the best fitness of its population.
LEMMA ChampionIs ==
  ASSUME fitness \in [Index -> Score]
  PROVE  \E k \in Index : Champion = population[k] /\ \A j \in Index : fitness[j] <= fitness[k]
<1> DEFINE B == {i \in Index : \A j \in Index : fitness[j] <= fitness[i]}
<1>1. B \subseteq Nat /\ B # {}
  BY BestPlace DEF Index
<1> HIDE DEF B
<1>2. PICK x \in B : \A y \in B : x <= y
  BY <1>1, NatMin
<1>3. Min(B) \in B
  BY <1>2 DEF Min
<1>4. Champion = population[Min(B)]
  BY DEF Champion, B
<1>5. QED BY <1>3, <1>4 DEF B

\* The first elite has the best fitness.
LEMMA FirstElite ==
  ASSUME fitness \in [Index -> Score], NEW e \in Elites
  PROVE  /\ 1 \in DOMAIN e /\ e[1] \in Index
         /\ \A k \in Index : fitness[k] <= fitness[e[1]]
<1>1. Min({EliteCount, PopSize}) \in {EliteCount, PopSize}
  <2>1. CASE EliteCount <= PopSize
    BY <2>1 DEF Min
  <2>2. CASE PopSize <= EliteCount
    BY <2>2 DEF Min
  <2>3. QED BY <2>1, <2>2
<1> DEFINE m == Min({EliteCount, PopSize})
<1>2. m \in Nat /\ m >= 1
  BY <1>1
<1>3. /\ e \in [1 .. m -> Index]
      /\ \A i, j \in DOMAIN e : i < j => fitness[e[i]] >= fitness[e[j]]
      /\ \A i \in DOMAIN e, k \in Index \ {e[j] : j \in DOMAIN e} : fitness[e[i]] >= fitness[k]
  BY DEF Elites
<1> HIDE DEF m
<1>4. DOMAIN e = 1 .. m /\ 1 \in 1 .. m /\ e[1] \in Index
  BY <1>2, <1>3
<1>5. ASSUME NEW k \in Index PROVE fitness[k] <= fitness[e[1]]
  <2>1. fitness[k] \in Int /\ fitness[e[1]] \in Int
    BY <1>4 DEF Score
  <2>2. CASE k \in {e[j] : j \in DOMAIN e}
    <3>1. PICK j \in DOMAIN e : k = e[j]
      BY <2>2
    <3>2. j = 1 \/ 1 < j
      BY <1>2, <1>4, <3>1
    <3>3. fitness[e[1]] >= fitness[e[j]]
      BY <1>3, <1>4, <2>1, <3>1, <3>2
    <3>4. QED BY <2>1, <3>1, <3>3
  <2>3. CASE k \notin {e[j] : j \in DOMAIN e}
    BY <1>3, <1>4, <2>1, <2>3
  <2>4. QED BY <2>2, <2>3
<1>6. QED BY <1>4, <1>5

-----------------------------------------------------------------------------
(* The workers                                                              *)

\* Genes of one fingerprint have one score.
LEMMA OneScore ==
  ASSUME score \in Landscapes, NEW g \in Gene, NEW h \in Gene, Fingerprint(g) = Fingerprint(h)
  PROVE  score[g] = score[h]
<1>1. CASE g \in Twin
  <2>1. h \in Twin
    BY <1>1 DEF Fingerprint
  <2>2. QED BY <1>1, <2>1 DEF Landscapes
<1>2. CASE g \notin Twin
  <2>1. g = h
    BY <1>2 DEF Fingerprint
  <2>2. QED BY <2>1
<1>3. QED BY <1>1, <1>2

\* A worker that takes a task has it in hand.
LEMMA TakeStep ==
  ASSUME SearchTypeOK, SearchInv, NEW w \in Worker, TakeTask(w)
  PROVE  SearchTypeOK' /\ SearchInv'
<1> USE DEF TakeTask
<1>1. /\ worker'[w].pc = "lookup" /\ worker'[w].task = queue /\ queue \in Index
      /\ \A v \in Worker \ {w} : worker'[v] = worker[v]
      /\ worker[w].pc = "idle"
  BY DEF SearchTypeOK
<1>2. SearchTypeOK'
  <2>1. [pc |-> "lookup", task |-> queue] \in [pc : {"idle", "lookup", "run"}, task : 0 .. PopSize]
    BY <1>1 DEF Index
  <2>2. queue' \in 1 .. PopSize + 1
    BY <1>1 DEF Index
  <2>3. QED BY <2>1, <2>2 DEF SearchTypeOK
<1>3. TaskInv'
  <2>1. \A v \in Worker : worker'[v].pc # "idle" => worker'[v].task \in Index
    BY <1>1 DEF SearchInv, TaskInv
  <2>2. ASSUME NEW i \in Index, i < queue'
        PROVE  fitness[i] # NoScore \/ \E v \in Worker : worker'[v].pc # "idle" /\ worker'[v].task = i
    <3>1. CASE i = queue
      BY <1>1, <3>1
    <3>2. CASE i < queue
      BY <1>1, <3>2 DEF SearchInv, TaskInv
    <3>3. i = queue \/ i < queue
      BY <1>1, <2>2 DEF Index
    <3>4. QED BY <3>1, <3>2, <3>3
  <2>3. QED BY <2>1, <2>2 DEF TaskInv
<1>4. CacheInv' /\ EliteInv' /\ PatienceInv' /\ EarlyStopJustified'
  BY DEF SearchInv, CacheInv, EliteInv, PatienceInv, EarlyStopJustified
<1>5. FreshInv'
  BY DEF FreshInv
<1>6. FitnessRight'
  BY <1>1 DEF SearchInv, FitnessRight, Evaluated
<1>7. QED BY <1>2, <1>3, <1>4, <1>5, <1>6 DEF SearchInv

\* A hit in the cache is the score of the gene.
LEMMA LookupStep ==
  ASSUME SearchTypeOK, SearchInv, NEW w \in Worker, Lookup(w)
  PROVE  SearchTypeOK' /\ SearchInv'
<1> DEFINE t == worker[w].task
<1>1. /\ t \in Index /\ stage = "evaluate" /\ worker[w].pc = "lookup"
      /\ population[t] \in Gene /\ Fingerprint(population[t]) \in Fingerprints
  BY DEF Lookup, SearchInv, TaskInv, SearchTypeOK, Populations, Fingerprints
<1>2. UNCHANGED <<stage, score, population, queue, cache, generation, best, patience, ramps, early, bests>>
  BY DEF Lookup
<1>3. CASE Cached(population[t]) # NoScore
  <2>1. /\ fitness' = [fitness EXCEPT ![t] = Cached(population[t])]
        /\ worker' = [worker EXCEPT ![w] = Resting]
    BY <1>3 DEF Lookup
  <2>2. Cached(population[t]) = score[population[t]] /\ Cached(population[t]) \in Score \cup {NoScore}
    BY <1>1, <1>3 DEF Cached, SearchInv, CacheInv, SearchTypeOK
  <2>3. /\ fitness'[t] = score[population[t]] /\ fitness'[t] # NoScore
        /\ \A i \in Index \ {t} : fitness'[i] = fitness[i]
    BY <1>1, <1>3, <2>1, <2>2 DEF SearchTypeOK
  <2>4. worker'[w].pc = "idle" /\ \A v \in Worker \ {w} : worker'[v] = worker[v]
    BY <2>1 DEF SearchTypeOK, Resting
  <2>5. SearchTypeOK'
    <3>1. Resting \in [pc : {"idle", "lookup", "run"}, task : 0 .. PopSize]
      BY DEF Resting
    <3>2. fitness' \in [Index -> Score \cup {NoScore}]
      BY <2>1, <2>2 DEF SearchTypeOK
    <3>3. QED BY <1>2, <2>1, <3>1, <3>2 DEF SearchTypeOK
  <2>6. TaskInv'
    BY <1>1, <1>2, <2>3, <2>4 DEF SearchInv, TaskInv
  <2>7. FitnessRight'
    <3>1. \A i \in Index : fitness'[i] # NoScore => fitness'[i] = score[population[i]]
      BY <2>3 DEF SearchInv, FitnessRight
    <3>2. ASSUME Evaluated', NEW i \in Index PROVE fitness'[i] # NoScore
      <4>1. i < queue
        BY <1>2, <3>2 DEF Evaluated, Index, SearchTypeOK
      <4>2. QED BY <1>1, <1>2, <2>6, <3>2, <4>1 DEF TaskInv, Evaluated
    <3>3. QED BY <1>1, <1>2, <3>1, <3>2 DEF FitnessRight
  <2>8. QED
    BY <1>1, <1>2, <2>5, <2>6, <2>7
    DEF SearchInv, CacheInv, FreshInv, EliteInv, PatienceInv, EarlyStopJustified
<1>4. CASE Cached(population[t]) = NoScore
  <2>1. UNCHANGED fitness /\ worker' = [worker EXCEPT ![w].pc = "run"]
    BY <1>4 DEF Lookup
  <2>2. worker'[w].pc = "run" /\ worker'[w].task = t /\ \A v \in Worker \ {w} : worker'[v] = worker[v]
    BY <2>1 DEF SearchTypeOK
  <2>3. SearchTypeOK'
    BY <1>2, <2>1 DEF SearchTypeOK
  <2>4. TaskInv'
    BY <1>1, <1>2, <2>1, <2>2 DEF SearchInv, TaskInv
  <2>5. FitnessRight'
    BY <1>1, <1>2, <2>1, <2>2 DEF SearchInv, FitnessRight, Evaluated
  <2>6. QED
    BY <1>1, <1>2, <2>3, <2>4, <2>5
    DEF SearchInv, CacheInv, FreshInv, EliteInv, PatienceInv, EarlyStopJustified
<1>5. QED BY <1>3, <1>4

\* An evaluation stores the score of its gene, for the gene and in the cache.
LEMMA FinishStep ==
  ASSUME SearchTypeOK, SearchInv, NEW w \in Worker, FinishTask(w)
  PROVE  SearchTypeOK' /\ SearchInv'
<1> DEFINE t == worker[w].task
<1> DEFINE g == population[t]
<1>1. /\ t \in Index /\ stage = "evaluate" /\ worker[w].pc = "run"
      /\ g \in Gene /\ Fingerprint(g) \in Fingerprints /\ score[g] \in Score
  BY DEF FinishTask, SearchInv, TaskInv, SearchTypeOK, Populations, Fingerprints
<1>2. /\ UNCHANGED <<stage, score, population, queue, generation, best, patience, ramps, early, bests>>
      /\ fitness' = [fitness EXCEPT ![t] = score[g]]
      /\ cache' = [cache EXCEPT ![Fingerprint(g)] = score[g]]
      /\ worker' = [worker EXCEPT ![w] = Resting]
  BY DEF FinishTask, TaskIndex
<1> HIDE DEF t, g
<1>3. /\ fitness'[t] = score[g] /\ fitness'[t] # NoScore
      /\ \A i \in Index \ {t} : fitness'[i] = fitness[i]
  BY <1>1, <1>2 DEF SearchTypeOK, Score, NoScore
<1>4. worker'[w].pc = "idle" /\ \A v \in Worker \ {w} : worker'[v] = worker[v]
  BY <1>2 DEF SearchTypeOK, Resting
<1>5. SearchTypeOK'
  <2>1. Resting \in [pc : {"idle", "lookup", "run"}, task : 0 .. PopSize]
    BY DEF Resting
  <2>2. fitness' \in [Index -> Score \cup {NoScore}]
    BY <1>1, <1>2 DEF SearchTypeOK
  <2>3. cache' \in [Fingerprints -> Score \cup {NoScore}]
    BY <1>1, <1>2 DEF SearchTypeOK
  <2>4. QED BY <1>2, <2>1, <2>2, <2>3 DEF SearchTypeOK
<1>6. TaskInv'
  BY <1>1, <1>2, <1>3, <1>4 DEF SearchInv, TaskInv, t
<1>7. FitnessRight'
  <2>1. \A i \in Index : fitness'[i] # NoScore => fitness'[i] = score[population[i]]
    BY <1>3 DEF SearchInv, FitnessRight, g
  <2>2. ASSUME Evaluated', NEW i \in Index PROVE fitness'[i] # NoScore
    <3>1. i < queue
      BY <1>2, <2>2 DEF Evaluated, Index, SearchTypeOK
    <3>2. QED BY <1>1, <1>2, <1>6, <2>2, <3>1 DEF TaskInv, Evaluated
  <2>3. QED BY <1>1, <1>2, <2>1, <2>2 DEF FitnessRight
<1>8. CacheInv'
  <2>1. score \in Landscapes
    BY DEF SearchInv, CacheInv
  <2>2. ASSUME NEW h \in Gene, cache'[Fingerprint(h)] # NoScore
        PROVE  cache'[Fingerprint(h)] = score[h]
    <3>1. Fingerprint(h) \in Fingerprints
      BY DEF Fingerprints
    <3>2. CASE Fingerprint(h) = Fingerprint(g)
      <4>1. score[g] = score[h]
        BY <1>1, <2>1, <3>2, OneScore
      <4>2. QED BY <1>1, <1>2, <3>2, <4>1 DEF SearchTypeOK
    <3>3. CASE Fingerprint(h) # Fingerprint(g)
      <4>1. cache'[Fingerprint(h)] = cache[Fingerprint(h)]
        BY <1>1, <1>2, <3>1, <3>3 DEF SearchTypeOK
      <4>2. QED BY <2>2, <4>1 DEF SearchInv, CacheInv
    <3>4. QED BY <3>2, <3>3
  <2>3. QED BY <1>2, <2>1, <2>2 DEF CacheInv
<1>9. QED
  BY <1>1, <1>2, <1>5, <1>6, <1>7, <1>8
  DEF SearchInv, FreshInv, EliteInv, PatienceInv, EarlyStopJustified

-----------------------------------------------------------------------------
(* The generations                                                          *)

\* A dispatched population is unevaluated and its cache empty.
LEMMA DispatchFacts ==
  ASSUME NEW p \in Populations, Dispatch(p)
  PROVE  /\ population' = p /\ population' \in Populations
         /\ fitness' \in [Index -> Score \cup {NoScore}]
         /\ queue' = 1 /\ queue' \in 1 .. PopSize + 1
         /\ cache' \in [Fingerprints -> Score \cup {NoScore}]
         /\ \A i \in Index : fitness'[i] = NoScore
         /\ \A g \in Gene : cache'[Fingerprint(g)] = NoScore
  BY DEF Dispatch, Unevaluated, Fingerprints

\* What the loop finds when the workers are done.
LEMMA EvaluatedFacts ==
  ASSUME SearchTypeOK, SearchInv, stage = "evaluate", Evaluated
  PROVE  /\ fitness \in [Index -> Score]
         /\ \A i \in Index : fitness[i] = score[population[i]]
         /\ CurrentBest \in Score
         /\ \E i \in Index : fitness[i] = CurrentBest
         /\ \A n \in DOMAIN bests : bests[n] <= CurrentBest /\ bests[n] \in Score
<1>1. \A i \in Index : fitness[i] # NoScore /\ fitness[i] = score[population[i]]
  BY DEF SearchInv, FitnessRight
<1>2. fitness \in [Index -> Score]
  BY <1>1 DEF SearchTypeOK
<1>3. ASSUME NEW n \in DOMAIN bests PROVE bests[n] <= CurrentBest /\ bests[n] \in Score
  <2>1. PICK i \in Index : bests[n] <= score[population[i]]
    BY DEF SearchInv, EliteInv
  <2>2. bests[n] \in Score
    BY DEF SearchTypeOK
  <2>3. bests[n] <= fitness[i] /\ fitness[i] <= CurrentBest /\ CurrentBest \in Score
    BY <1>1, <1>2, <2>1, CurrentBestIs
  <2>4. QED BY <2>2, <2>3, <1>2 DEF Score
<1>4. QED BY <1>1, <1>2, <1>3, CurrentBestIs

\* bests with the population just evaluated.
LEMMA BestsFacts ==
  ASSUME SearchTypeOK, SearchInv, stage = "evaluate", Evaluated,
         bests' = Append(bests, CurrentBest)
  PROVE  /\ bests' \in Seq(Score) /\ Len(bests) = generation
         /\ Len(bests') = generation + 1 /\ DOMAIN bests' = 1 .. generation + 1
         /\ DOMAIN bests = 1 .. generation
         /\ bests'[generation + 1] = CurrentBest
         /\ \A n \in 1 .. generation : bests'[n] = bests[n]
         /\ \A n \in DOMAIN bests' : bests'[n] <= CurrentBest
         /\ \A m, n \in DOMAIN bests' : m <= n => bests'[m] <= bests'[n]
<1>1. CurrentBest \in Score /\ bests \in Seq(Score) /\ Len(bests) = generation
      /\ generation \in Nat
  BY EvaluatedFacts DEF SearchTypeOK, SearchInv, PatienceInv
<1>2. DOMAIN bests = 1 .. generation
  BY <1>1
<1>3. /\ bests' \in Seq(Score) /\ Len(bests') = generation + 1
      /\ bests'[generation + 1] = CurrentBest
      /\ \A n \in 1 .. generation : bests'[n] = bests[n]
  BY <1>1, AppendProperties
<1>4. DOMAIN bests' = 1 .. generation + 1
  BY <1>1, <1>3
<1>5. \A n \in 1 .. generation + 1 : n = generation + 1 \/ n \in 1 .. generation
  BY <1>1
<1>6. \A n \in DOMAIN bests' : bests'[n] <= CurrentBest
  BY <1>1, <1>2, <1>3, <1>4, <1>5, EvaluatedFacts DEF Score
<1>7. ASSUME NEW m \in DOMAIN bests', NEW n \in DOMAIN bests', m <= n
      PROVE  bests'[m] <= bests'[n]
  <2>1. CASE n = generation + 1
    BY <1>3, <1>6, <2>1
  <2>2. CASE n \in 1 .. generation
    <3>1. m \in 1 .. generation
      BY <1>1, <1>4, <1>7, <2>2
    <3>2. QED BY <1>2, <1>3, <1>7, <2>2, <3>1 DEF SearchInv, EliteInv
  <2>3. QED BY <1>4, <1>5, <2>1, <2>2
<1>8. QED BY <1>1, <1>2, <1>3, <1>4, <1>6, <1>7

\* The counters after a generation: the last NextPatience populations are within MinDelta
\* of NextBest.
LEMMA PatienceFacts ==
  ASSUME SearchTypeOK, SearchInv, stage = "evaluate", Evaluated,
         bests' = Append(bests, CurrentBest)
  PROVE  /\ NextPatience \in 0 .. generation + 1
         /\ NextBest \in Score /\ NextBest <= CurrentBest
         /\ \A n \in 1 .. generation + 1 : n > generation + 1 - NextPatience =>
              NextBest <= bests'[n] /\ bests'[n] < NextBest + MinDelta
<1>1. /\ CurrentBest \in Score /\ generation \in Nat /\ patience \in Nat /\ patience <= generation
      /\ best \in Score \cup {NoScore}
      /\ generation = 0 => best = NoScore
      /\ generation > 0 => best # NoScore /\ best <= bests[generation]
  BY EvaluatedFacts DEF SearchTypeOK, SearchInv, PatienceInv
<1>2. Score \subseteq Int
  BY DEF Score
<1>3. \A n \in 1 .. generation : n > generation - patience =>
        best <= bests[n] /\ bests[n] < best + MinDelta
  BY BestsFacts DEF SearchInv, PatienceInv
<1>4. Base \in Score /\ Base <= CurrentBest
  <2>1. CASE generation = 0
    BY <1>1, <1>2, <2>1 DEF Base
  <2>2. CASE generation > 0
    <3>1. generation \in DOMAIN bests
      BY <1>1, <2>2, BestsFacts
    <3>2. bests[generation] <= CurrentBest /\ bests[generation] \in Score
      BY <3>1, EvaluatedFacts
    <3>3. best \in Score /\ Base = best /\ best <= bests[generation]
      BY <1>1, <2>2 DEF Base
    <3>4. best \in Int /\ bests[generation] \in Int /\ CurrentBest \in Int
      BY <1>1, <1>2, <3>2, <3>3
    <3>5. QED BY <3>2, <3>3, <3>4
  <2>3. QED BY <1>1, <2>1, <2>2
<1>5. Base \in Int /\ CurrentBest \in Int
  BY <1>1, <1>2, <1>4
<1>6. Stalled <=> CurrentBest - Base < MinDelta
  BY <1>4, <1>5 DEF Stalled, Distance
<1>7. CASE ~Stalled
  <2>1. NextPatience = 0 /\ NextBest = CurrentBest
    BY <1>7 DEF NextPatience, NextBest
  <2>2. QED BY <1>1, <1>5, <2>1
<1>8. CASE Stalled
  <2>1. NextPatience = patience + 1 /\ NextBest = Base
    BY <1>8 DEF NextPatience, NextBest
  <2>2. ASSUME NEW n \in 1 .. generation + 1, n > generation + 1 - NextPatience
        PROVE  Base <= bests'[n] /\ bests'[n] < Base + MinDelta
    <3>1. CASE n = generation + 1
      <4>1. bests'[n] = CurrentBest
        BY <3>1, BestsFacts
      <4>2. QED BY <1>4, <1>5, <1>6, <1>8, <4>1
    <3>2. CASE n \in 1 .. generation
      <4>1. bests'[n] = bests[n] /\ n > generation - patience
        BY <1>1, <2>1, <2>2, <3>2, BestsFacts
      <4>2. generation > 0
        BY <1>1, <3>2
      <4>3. Base = best
        BY <1>1, <4>2 DEF Base
      <4>4. QED BY <1>3, <3>2, <4>1, <4>3
    <3>3. n = generation + 1 \/ n \in 1 .. generation
      BY <1>1
    <3>4. QED BY <3>1, <3>2, <3>3
  <2>3. NextPatience \in 0 .. generation + 1
    BY <1>1, <2>1
  <2>4. QED BY <1>4, <2>1, <2>2, <2>3
<1>9. QED BY <1>7, <1>8

\* The search starts with nothing but its first population.
LEMMA StartStep ==
  ASSUME SearchTypeOK, SearchInv, StartSearch
  PROVE  SearchTypeOK' /\ SearchInv'
<1>1. PICK p \in Populations : Dispatch(p)
  BY DEF StartSearch
<1>2. /\ stage' = "evaluate" /\ stage = "off" /\ score' \in Landscapes
      /\ UNCHANGED <<worker, generation, best, patience, ramps, early, bests>>
      /\ generation = 0 /\ best = NoScore /\ patience = 0 /\ ramps = 0 /\ ~early /\ bests = <<>>
      /\ \A w \in Worker : worker[w].pc = "idle"
  BY DEF StartSearch, SearchInv, FreshInv
<1>3. SearchTypeOK'
  <2>1. score' \in [Gene -> Score]
    BY <1>2 DEF Landscapes
  <2>2. QED BY <1>1, <1>2, <2>1, DispatchFacts DEF SearchTypeOK
<1>4. CacheInv'
  BY <1>1, <1>2, DispatchFacts DEF CacheInv
<1>5. TaskInv' /\ FitnessRight'
  <2>1. \A i \in Index : ~(i < queue')
    BY <1>1, DispatchFacts DEF Index
  <2>2. ~Evaluated'
    BY <1>1, DispatchFacts DEF Evaluated
  <2>3. QED BY <1>1, <1>2, <2>1, <2>2, DispatchFacts DEF TaskInv, FitnessRight
<1>6. EliteInv' /\ PatienceInv'
  BY <1>2 DEF EliteInv, PatienceInv
<1>7. QED BY <1>2, <1>3, <1>4, <1>5, <1>6 DEF SearchInv, FreshInv, EarlyStopJustified

\* A generation carries its best gene over.
LEMMA BreedStep ==
  ASSUME SearchTypeOK, SearchInv, Breed
  PROVE  SearchTypeOK' /\ SearchInv'
<1>1. PICK p \in NextGen : Dispatch(p)
  BY DEF Breed
<1>2. p \in Populations
  BY DEF NextGen
<1>3. /\ stage = "evaluate" /\ Evaluated /\ generation < MaxGenerations
      /\ OutOfPatience => ramps < RampSteps
      /\ ramps' = IF OutOfPatience THEN ramps + 1 ELSE ramps
      /\ patience' = NextPatience /\ best' = NextBest /\ bests' = Append(bests, CurrentBest)
      /\ generation' = generation + 1
      /\ UNCHANGED <<stage, score, worker, early>>
  BY DEF Breed, MoreGenerations
<1>4. generation \in Nat /\ ramps \in 0 .. RampSteps /\ ~early
  BY <1>3 DEF SearchTypeOK, SearchInv, PatienceInv
<1>5. SearchTypeOK'
  <2>1. generation' \in 0 .. MaxGenerations /\ ramps' \in 0 .. RampSteps
    BY <1>3, <1>4
  <2>2. patience' \in 0 .. MaxGenerations + 1 /\ best' \in Score
    BY <1>3, <1>4, PatienceFacts
  <2>3. bests' \in Seq(Score)
    BY <1>3, BestsFacts
  <2>4. QED BY <1>1, <1>2, <1>3, <2>1, <2>2, <2>3, DispatchFacts DEF SearchTypeOK
<1>6. CacheInv'
  BY <1>1, <1>2, <1>3, DispatchFacts DEF CacheInv, SearchInv
<1>7. TaskInv' /\ FitnessRight'
  <2>1. \A i \in Index : ~(i < queue')
    BY <1>1, <1>2, DispatchFacts DEF Index
  <2>2. ~Evaluated'
    BY <1>1, <1>2, DispatchFacts DEF Evaluated
  <2>3. \A w \in Worker : worker'[w].pc = "idle"
    BY <1>3 DEF Evaluated
  <2>4. QED BY <1>1, <1>2, <1>3, <2>1, <2>2, <2>3, DispatchFacts DEF TaskInv, FitnessRight
<1>8. EliteInv'
  <2>1. PICK e \in Elites : \A i \in DOMAIN e : p[i] = population[e[i]]
    BY DEF NextGen
  <2>2. fitness \in [Index -> Score] /\ CurrentBest \in Score
        /\ \A i \in Index : fitness[i] = score[population[i]]
    BY <1>3, EvaluatedFacts
  <2>3. p[1] = population[e[1]] /\ e[1] \in Index /\ \A k \in Index : fitness[k] <= fitness[e[1]]
    BY <2>1, <2>2, FirstElite
  <2>4. CurrentBest <= score'[population'[1]] /\ 1 \in Index
    <3>1. PICK k \in Index : fitness[k] = CurrentBest
      BY <1>3, EvaluatedFacts
    <3>2. score'[population'[1]] = fitness[e[1]]
      BY <1>1, <1>2, <1>3, <2>2, <2>3, DispatchFacts
    <3>3. QED BY <2>3, <3>1, <3>2 DEF Index
  <2>5. ASSUME NEW n \in DOMAIN bests' PROVE bests'[n] <= score'[population'[1]]
    <3>1. bests'[n] <= CurrentBest /\ bests'[n] \in Score
      BY <1>3, BestsFacts
    <3>2. score'[population'[1]] \in Score
      BY <1>5, <2>4 DEF SearchTypeOK, Populations
    <3>3. QED BY <2>2, <2>4, <3>1, <3>2 DEF Score
  <2>6. QED BY <1>3, <2>4, <2>5, BestsFacts DEF EliteInv
<1>9. PatienceInv'
  <2>1. Len(bests') = generation' /\ DOMAIN bests' = 1 .. generation'
    BY <1>3, BestsFacts
  <2>2. patience' \in Nat /\ patience' <= generation' /\ generation' > 0
    BY <1>3, <1>4, PatienceFacts
  <2>3. best' # NoScore /\ best' <= bests'[generation']
    BY <1>3, BestsFacts, PatienceFacts DEF Score, NoScore
  <2>4. \A n \in DOMAIN bests' : n > generation' - patience' =>
          best' <= bests'[n] /\ bests'[n] < best' + MinDelta
    <3>1. \A n \in 1 .. generation + 1 : n > generation + 1 - NextPatience =>
            NextBest <= bests'[n] /\ bests'[n] < NextBest + MinDelta
      BY <1>3, PatienceFacts
    <3>2. generation' = generation + 1 /\ patience' = NextPatience /\ best' = NextBest
      BY <1>3
    <3>3. DOMAIN bests' = 1 .. generation + 1
      BY <2>1, <3>2
    <3>4. SUFFICES ASSUME NEW n \in DOMAIN bests', n > generation' - patience'
                   PROVE  best' <= bests'[n] /\ bests'[n] < best' + MinDelta
      OBVIOUS
    <3>5. n \in 1 .. generation + 1 /\ n > generation + 1 - NextPatience
      BY <1>3, <1>4, <2>2, <3>2, <3>3, <3>4
    <3>6. NextBest <= bests'[n] /\ bests'[n] < NextBest + MinDelta
      BY <3>1, <3>5
    <3>7. QED BY <3>2, <3>6
  <2>5. ramps' > 0 => generation' >= Patience + ramps' - 1
    <3>1. CASE OutOfPatience
      <4>1. generation + 1 >= Patience
        BY <1>3, <1>4, <3>1, PatienceFacts DEF OutOfPatience
      <4>2. ramps > 0 => generation >= Patience + ramps - 1
        BY <1>3 DEF SearchInv, PatienceInv
      <4>3. QED BY <1>3, <1>4, <3>1, <4>1, <4>2
    <3>2. CASE ~OutOfPatience
      BY <1>3, <1>4, <3>2 DEF SearchInv, PatienceInv
    <3>3. QED BY <3>1, <3>2
  <2>6. QED BY <1>3, <1>4, <2>1, <2>2, <2>3, <2>4, <2>5 DEF PatienceInv
<1>10. QED
  BY <1>3, <1>4, <1>5, <1>6, <1>7, <1>8, <1>9 DEF SearchInv, FreshInv, EarlyStopJustified

\* What the two ends of the loop have in common.
LEMMA EndStep ==
  ASSUME SearchTypeOK, SearchInv, stage = "evaluate", Evaluated, stage' = "done",
         bests' = Append(bests, CurrentBest),
         UNCHANGED <<score, population, fitness, worker, cache>>
  PROVE  /\ bests' \in Seq(Score)
         /\ CacheInv' /\ TaskInv' /\ EliteInv' /\ FreshInv' /\ PatienceInv' /\ FitnessRight'
<1>1. fitness \in [Index -> Score] /\ \A i \in Index : fitness[i] = score[population[i]]
  BY EvaluatedFacts
<1>2. CacheInv' /\ FreshInv' /\ PatienceInv'
  BY DEF SearchInv, CacheInv, FreshInv, PatienceInv
<1>3. TaskInv'
  BY DEF TaskInv, Evaluated
<1>4. FitnessRight'
  BY <1>1 DEF FitnessRight, Score, NoScore
<1>5. EliteInv'
  <2>1. PICK k \in Index : fitness[k] = CurrentBest
    BY EvaluatedFacts
  <2>2. QED BY <1>1, <2>1, BestsFacts DEF EliteInv
<1>6. QED BY <1>2, <1>3, <1>4, <1>5, BestsFacts

\* The search stops early: the last Patience populations were all near the best, and the
\* best of a population never falls.
LEMMA StopStep ==
  ASSUME SearchTypeOK, SearchInv, StopEarly
  PROVE  SearchTypeOK' /\ SearchInv'
<1>1. /\ stage = "evaluate" /\ Evaluated /\ generation < MaxGenerations
      /\ NextPatience >= Patience /\ ramps >= RampSteps
      /\ early' = TRUE /\ stage' = "done" /\ patience' = NextPatience /\ best' = NextBest
      /\ bests' = Append(bests, CurrentBest)
      /\ UNCHANGED <<score, population, fitness, queue, worker, cache, generation, ramps>>
  BY DEF StopEarly, MoreGenerations, OutOfPatience
<1>2. generation \in Nat /\ ramps \in 0 .. RampSteps
  BY DEF SearchTypeOK
<1>3. NextPatience \in 0 .. generation + 1 /\ NextBest \in Score
  BY <1>1, PatienceFacts
<1>4. SearchTypeOK'
  <2>1. patience' \in 0 .. MaxGenerations + 1
    BY <1>1, <1>2, <1>3
  <2>2. QED BY <1>1, <1>3, <2>1, EndStep DEF SearchTypeOK
<1>5. EarlyStopJustified'
  <2>1. /\ Len(bests') = generation + 1
        /\ bests'[generation + 1] = CurrentBest /\ CurrentBest \in Score
    BY <1>1, BestsFacts, EvaluatedFacts
  <2>2. generation + 1 >= Patience + RampSteps
    <3>1. ramps > 0 => generation >= Patience + ramps - 1
      BY <1>1 DEF SearchInv, PatienceInv
    <3>2. CASE ramps = 0
      BY <1>1, <1>2, <1>3, <3>2
    <3>3. CASE ramps > 0
      BY <1>1, <1>2, <3>1, <3>3
    <3>4. QED BY <1>2, <3>2, <3>3
  <2>3. generation + 1 - Patience + 1 \in 1 .. generation + 1
    BY <1>2, <2>2
  <2>4. generation + 1 - Patience + 1 > generation + 1 - NextPatience
    BY <1>1, <1>2, <1>3
  <2>5. NextBest <= bests'[generation + 1 - Patience + 1]
    BY <1>1, <2>3, <2>4, PatienceFacts
  <2>6. CurrentBest < NextBest + MinDelta
    <3>1. generation + 1 \in 1 .. generation + 1 /\ generation + 1 > generation + 1 - NextPatience
      BY <1>1, <1>2, <1>3
    <3>2. QED BY <1>1, <2>1, <3>1, PatienceFacts
  <2>7. bests'[generation + 1 - Patience + 1] \in Score
    BY <1>1, <2>3, BestsFacts
  <2>8. bests'[generation + 1] - bests'[generation + 1 - Patience + 1] < MinDelta
    BY <1>3, <2>1, <2>5, <2>6, <2>7 DEF Score
  <2>9. Len(bests') >= Patience + RampSteps
    BY <2>1, <2>2
  <2>10. bests'[Len(bests')] - bests'[Len(bests') - Patience + 1] < MinDelta
    <3>1. Len(bests') = generation + 1 /\ Len(bests') - Patience + 1 = generation + 1 - Patience + 1
      BY <1>2, <2>1
    <3>2. QED BY <2>8, <3>1
  <2>11. QED BY <2>9, <2>10 DEF EarlyStopJustified
<1>6. QED BY <1>1, <1>4, <1>5, EndStep DEF SearchInv

\* The last population ends the search.
LEMMA ExhaustStep ==
  ASSUME SearchTypeOK, SearchInv, Exhaust
  PROVE  SearchTypeOK' /\ SearchInv'
<1>1. /\ stage = "evaluate" /\ Evaluated /\ stage' = "done"
      /\ bests' = Append(bests, CurrentBest)
      /\ UNCHANGED <<score, population, fitness, queue, worker, cache, generation, best,
                     patience, ramps, early>>
  BY DEF Exhaust
<1>2. ~early
  BY <1>1 DEF SearchInv, PatienceInv
<1>3. SearchTypeOK'
  BY <1>1, EndStep DEF SearchTypeOK
<1>4. QED BY <1>1, <1>2, <1>3, EndStep DEF SearchInv, EarlyStopJustified

\* A search that is forgotten leaves what it started from.
LEMMA ForgetStep ==
  ASSUME ForgetSearch
  PROVE  SearchTypeOK' /\ SearchInv'
<1>1. Resting \in [pc : {"idle", "lookup", "run"}, task : 0 .. PopSize] /\ Resting.pc = "idle"
  BY DEF Resting
<1>2. SearchTypeOK'
  <2>1. /\ score' \in [Gene -> Score] /\ population' \in Populations
        /\ fitness' \in [Index -> Score \cup {NoScore}]
        /\ cache' \in [Fingerprints -> Score \cup {NoScore}]
    BY DEF ForgetSearch, Score, Populations, Unevaluated
  <2>2. /\ queue' \in 1 .. PopSize + 1 /\ generation' \in 0 .. MaxGenerations
        /\ patience' \in 0 .. MaxGenerations + 1 /\ ramps' \in 0 .. RampSteps
    BY DEF ForgetSearch
  <2>3. best' \in Score \cup {NoScore} /\ early' \in BOOLEAN
    BY DEF ForgetSearch
  <2>4. bests' \in Seq(Score)
    <3>1. bests' = <<>>
      BY DEF ForgetSearch
    <3>2. QED BY <3>1
  <2>5. worker' \in [Worker -> [pc : {"idle", "lookup", "run"}, task : 0 .. PopSize]]
    BY <1>1 DEF ForgetSearch
  <2>6. stage' \in {"off", "evaluate", "done"}
    BY DEF ForgetSearch
  <2>7. QED BY <2>1, <2>2, <2>3, <2>4, <2>5, <2>6 DEF SearchTypeOK
<1>3. CacheInv'
  BY DEF ForgetSearch, CacheInv, Landscapes, Score, Fingerprints
<1>4. TaskInv' /\ FreshInv' /\ EliteInv' /\ PatienceInv'
  BY <1>1 DEF ForgetSearch, TaskInv, FreshInv, EliteInv, PatienceInv
<1>5. FitnessRight' /\ EarlyStopJustified'
  BY DEF ForgetSearch, FitnessRight, Unevaluated, EarlyStopJustified
<1>6. QED BY <1>2, <1>3, <1>4, <1>5 DEF SearchInv

\* Nothing is forgotten or found in a step of the rest of the service.
LEMMA QuietStep ==
  ASSUME SearchTypeOK, SearchInv, UNCHANGED searchVars
  PROVE  SearchTypeOK' /\ SearchInv'
<1>1. SearchTypeOK'
  BY DEF searchVars, SearchTypeOK
<1>2. CacheInv' /\ FreshInv' /\ EliteInv' /\ PatienceInv'
  BY DEF searchVars, SearchInv, CacheInv, FreshInv, EliteInv, PatienceInv
<1>3. TaskInv'
  BY DEF searchVars, SearchInv, TaskInv
<1>4. FitnessRight' /\ EarlyStopJustified'
  BY DEF searchVars, SearchInv, FitnessRight, EarlyStopJustified, Evaluated
<1>5. QED BY <1>1, <1>2, <1>3, <1>4 DEF SearchInv

\* Every step of RunEpoch keeps the types and the invariant.
LEMMA SearchSteps ==
  ASSUME SearchTypeOK, SearchInv, SearchNext
  PROVE  SearchTypeOK' /\ SearchInv'
<1>1. CASE StartSearch
  BY <1>1, StartStep
<1>2. CASE \E w \in Worker : TakeTask(w) \/ Lookup(w) \/ FinishTask(w)
  BY <1>2, TakeStep, LookupStep, FinishStep
<1>3. CASE Breed
  BY <1>3, BreedStep
<1>4. CASE StopEarly
  BY <1>4, StopStep
<1>5. CASE Exhaust
  BY <1>5, ExhaustStep
<1>6. CASE ReturnResult
  BY <1>6, ForgetStep DEF ReturnResult
<1>7. QED BY <1>1, <1>2, <1>3, <1>4, <1>5, <1>6 DEF SearchNext, SearchStep

\* A step of the whole is one of the service, of the search, of both, or a restart.
LEMMA WholeStep ==
  ASSUME EpochSearchNext
  PROVE  /\ Next \/ UNCHANGED vars
         /\ SearchNext \/ ForgetSearch \/ UNCHANGED searchVars
<1>1. CASE RequestStep /\ UNCHANGED searchVars
  BY <1>1 DEF RequestStep, Next
<1>2. CASE \E t \in Task : CallSearch(t)
  BY <1>2 DEF CallSearch, SearchNext
<1>3. CASE \E t \in Task : ReturnSearch(t)
  BY <1>3 DEF ReturnSearch, Next, SearchNext
<1>4. CASE \E t \in Task : StoreStep(t) /\ UNCHANGED searchVars
  BY <1>4 DEF StoreStep, Next
<1>5. CASE SearchStep /\ UNCHANGED vars
  BY <1>5 DEF SearchNext
<1>6. CASE Restart /\ ForgetSearch
  BY <1>6 DEF Next
<1>7. QED BY <1>1, <1>2, <1>3, <1>4, <1>5, <1>6 DEF EpochSearchNext

LEMMA SearchInitInv == SearchInit => SearchTypeOK /\ SearchInv
<1> SUFFICES ASSUME SearchInit PROVE SearchTypeOK /\ SearchInv
  OBVIOUS
<1>1. Resting \in [pc : {"idle", "lookup", "run"}, task : 0 .. PopSize] /\ Resting.pc = "idle"
  BY DEF Resting
<1>2. SearchTypeOK
  <2>1. /\ score \in [Gene -> Score] /\ population \in Populations
        /\ fitness \in [Index -> Score \cup {NoScore}]
        /\ cache \in [Fingerprints -> Score \cup {NoScore}]
    BY DEF SearchInit, Score, Populations, Unevaluated
  <2>2. /\ queue \in 1 .. PopSize + 1 /\ generation \in 0 .. MaxGenerations
        /\ patience \in 0 .. MaxGenerations + 1 /\ ramps \in 0 .. RampSteps
    BY DEF SearchInit
  <2>3. best \in Score \cup {NoScore} /\ early \in BOOLEAN
    BY DEF SearchInit
  <2>4. bests \in Seq(Score)
    <3>1. bests = <<>>
      BY DEF SearchInit
    <3>2. QED BY <3>1
  <2>5. worker \in [Worker -> [pc : {"idle", "lookup", "run"}, task : 0 .. PopSize]]
    BY <1>1 DEF SearchInit
  <2>6. stage \in {"off", "evaluate", "done"}
    BY DEF SearchInit
  <2>7. QED BY <2>1, <2>2, <2>3, <2>4, <2>5, <2>6 DEF SearchTypeOK
<1>3. CacheInv
  BY DEF SearchInit, CacheInv, Landscapes, Score, Fingerprints
<1>4. TaskInv /\ FreshInv /\ EliteInv /\ PatienceInv
  BY <1>1 DEF SearchInit, TaskInv, FreshInv, EliteInv, PatienceInv
<1>5. FitnessRight /\ EarlyStopJustified
  BY DEF SearchInit, FitnessRight, Unevaluated, EarlyStopJustified
<1>6. QED BY <1>2, <1>3, <1>4, <1>5 DEF SearchInv

-----------------------------------------------------------------------------
(* Theorems                                                                 *)

\* The service with its search, the search left out, is the service of EpochTask: a step
\* of the one is a step of the other or none, so that what is proved of EpochTask holds
\* of both.
THEOREM ServiceUnchanged == EpochSearchSpec => Spec
<1>1. EpochSearchInit => Init
  BY DEF EpochSearchInit
<1>2. [EpochSearchNext]_allVars => [Next]_vars
  BY WholeStep DEF allVars
<1>3. QED BY <1>1, <1>2, PTL DEF EpochSearchSpec, Spec

LEMMA SearchInductive == EpochSearchSpec => [](SearchTypeOK /\ SearchInv)
<1>1. ASSUME SearchTypeOK, SearchInv, [EpochSearchNext]_allVars
      PROVE  SearchTypeOK' /\ SearchInv'
  <2>1. CASE EpochSearchNext
    BY <1>1, <2>1, WholeStep, SearchSteps, ForgetStep, QuietStep
  <2>2. CASE UNCHANGED allVars
    BY <1>1, <2>2, QuietStep DEF allVars
  <2>3. QED BY <1>1, <2>1, <2>2
<1>2. EpochSearchInit => SearchTypeOK /\ SearchInv
  BY SearchInitInv DEF EpochSearchInit
<1>3. QED BY <1>1, <1>2, PTL DEF EpochSearchSpec

\* Every variable of the search keeps its type.
THEOREM SearchTyping == EpochSearchSpec => []SearchTypeOK
BY SearchInductive, PTL

\* The fitness at an index is the score of the gene there, whoever computed it, and no
\* population is ranked before all its genes have one.
THEOREM GenesJudged == EpochSearchSpec => []FitnessRight
<1>1. SearchInv => FitnessRight
  BY DEF SearchInv
<1>2. QED BY <1>1, SearchInductive, PTL

\* The search stops early only after Patience populations without a gain and with the
\* mutation at its widest.
THEOREM StopsWithReason == EpochSearchSpec => []EarlyStopJustified
<1>1. SearchInv => EarlyStopJustified
  BY DEF SearchInv
<1>2. QED BY <1>1, SearchInductive, PTL

\* The champion of the last population is at least as good as every gene evaluated in
\* the epoch.
THEOREM BestNeverLost == EpochSearchSpec => []ChampionIsBest
<1>1. ASSUME SearchTypeOK, SearchInv PROVE ChampionIsBest
  <2>1. SUFFICES ASSUME stage = "done", NEW n \in DOMAIN bests
                 PROVE  bests[n] <= score[Champion]
    BY DEF ChampionIsBest
  <2>2. fitness \in [Index -> Score] /\ \A i \in Index : fitness[i] = score[population[i]]
    BY <1>1, <2>1 DEF SearchTypeOK, SearchInv, FitnessRight
  <2>3. PICK i \in Index : bests[n] <= score[population[i]]
    BY <1>1, <2>1 DEF SearchInv, EliteInv
  <2>4. PICK c \in Index : Champion = population[c] /\ \A j \in Index : fitness[j] <= fitness[c]
    BY <2>2, ChampionIs
  <2>5. fitness[i] <= fitness[c] /\ score[Champion] = fitness[c] /\ score[population[i]] = fitness[i]
    BY <2>2, <2>4
  <2>6. bests[n] \in Int /\ fitness[i] \in Int /\ fitness[c] \in Int
    BY <1>1, <2>2 DEF SearchTypeOK, Score
  <2>7. QED BY <2>3, <2>5, <2>6
<1>2. QED BY <1>1, SearchInductive, PTL

\* Every search belongs to the one evolution in flight.
THEOREM OneOwner == EpochSearchSpec => []SearchHasOwner
<1> DEFINE Owned == stage # "off" => \E t \in Task : epoch[t] = "evolve"
<1>1. ASSUME SearchInv, SearchStep PROVE stage # "off"
  BY <1>1 DEF SearchStep, TakeTask, Lookup, FinishTask, Breed, StopEarly, Exhaust, SearchInv, TaskInv
<1>2. ASSUME TypeOK, SearchInv, Owned, [EpochSearchNext]_allVars PROVE Owned'
  <2>1. CASE RequestStep /\ UNCHANGED searchVars
    <3>1. PICK r \in Request : Enter(r) \/ InsertTask(r) \/ InsertTaskFails(r) \/ StartEpoch(r)
      BY <2>1 DEF RequestStep
    <3>2. \A t \in Task : epoch[t] = "evolve" => epoch'[t] = "evolve"
      BY <1>2, <3>1 DEF Enter, InsertTask, InsertTaskFails, StartEpoch, TypeOK
    <3>3. stage' = stage
      BY <2>1 DEF searchVars
    <3>4. QED BY <1>2, <3>2, <3>3
  <2>2. CASE \E t \in Task : CallSearch(t)
    BY <2>2 DEF CallSearch, vars
  <2>3. CASE \E t \in Task : ReturnSearch(t)
    BY <2>3 DEF ReturnSearch, ReturnResult, ForgetSearch
  <2>4. CASE \E t \in Task : StoreStep(t) /\ UNCHANGED searchVars
    <3>1. PICK t \in Task : UpdateTask(t) \/ InsertGene(t) \/ ClearTask(t)
      BY <2>4 DEF StoreStep
    <3>2. \A u \in Task : epoch[u] = "evolve" => epoch'[u] = "evolve"
      BY <1>2, <3>1 DEF UpdateTask, InsertGene, ClearTask, TypeOK
    <3>3. stage' = stage
      BY <2>4 DEF searchVars
    <3>4. QED BY <1>2, <3>2, <3>3
  <2>5. CASE SearchStep /\ UNCHANGED vars
    BY <1>1, <1>2, <2>5 DEF vars
  <2>6. CASE Restart /\ ForgetSearch
    BY <2>6 DEF ForgetSearch
  <2>7. CASE UNCHANGED allVars
    BY <1>2, <2>7 DEF allVars, vars, searchVars
  <2>8. QED BY <1>2, <2>1, <2>2, <2>3, <2>4, <2>5, <2>6, <2>7 DEF EpochSearchNext
<1>3. EpochSearchInit => Owned
  BY DEF EpochSearchInit, SearchInit
<1>4. ASSUME EpochInv, Owned PROVE SearchHasOwner
  BY <1>4 DEF SearchHasOwner, EpochInv, SingleFlight, RowInv, Alive
<1>5. QED BY <1>2, <1>3, <1>4, ServiceUnchanged, Inductive, SearchInductive, PTL DEF EpochSearchSpec
=============================================================================
