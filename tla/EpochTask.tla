----------------------------- MODULE EpochTask -----------------------------
(***************************************************************************)
(* EpochService (internal/saas/epoch/service.go): one evolution at a time, *)
(* guarded by a mutex and the pointer currentTask, with a row of           *)
(* evolution_tasks for each evolution and a goroutine that runs it and     *)
(* stores the gene it found as a challenger.                               *)
(*                                                                         *)
(* The pointer lives in the process, the rows in the database, and nothing *)
(* compares the two: neither a restart nor the end of an epoch looks at    *)
(* rows that another epoch has left.  The genetic search itself is one     *)
(* step here; its error result is always nil, so that the branch that      *)
(* marks a task as failed is never taken.                                  *)
(***************************************************************************)
EXTENDS Naturals

CONSTANTS
  Request,     \* create requests being served at the same time
  MaxTask,     \* rows of evolution_tasks (bound)
  MaxFault,    \* statements that fail (bound)
  MaxRestart   \* times the process dies and is started again (bound)

ASSUME EpochAssumption == MaxTask \in Nat /\ MaxFault \in Nat /\ MaxRestart \in Nat

VARIABLES
  request,   \* where each request is in CreateAndRunTask, and the row it has made
  current,   \* currentTask, 0 when nil
  rows,      \* rows made so far: tasks 1 .. rows exist
  status,    \* evolution_tasks.status
  gene,      \* is the gene of the task in gene_records?
  epoch,     \* the statement each runEpoch goroutine is at, "none" when there is none
  faults,    \* failures so far
  restarts,  \* restarts so far
  excused    \* history: tasks a failure or a restart has left in the middle

vars == <<request, current, rows, status, gene, epoch, faults, restarts, excused>>
database == <<rows, status, gene>>

Task == 1 .. MaxTask
RequestState == [pc : {"idle", "create", "set"}, task : 0 .. MaxTask]
NoRequest == [pc |-> "idle", task |-> 0]

Init ==
  /\ request = [r \in Request |-> NoRequest]
  /\ current = 0
  /\ rows = 0
  /\ status = [t \in Task |-> "none"]
  /\ gene = [t \in Task |-> FALSE]
  /\ epoch = [t \in Task |-> "none"]
  /\ faults = 0
  /\ restarts = 0
  /\ excused = {}

\* CreateAndRunTask holds the mutex from its first line until currentTask is set.
InCreate(r) == request[r].pc # "idle"
Unlocked == \A r \in Request : ~InCreate(r)
Alive(t) == epoch[t] # "none"
Starting(t) == \E r \in Request : request[r].pc = "set" /\ request[r].task = t
Fault == faults < MaxFault /\ faults' = faults + 1

-----------------------------------------------------------------------------
\* A request takes the mutex and finds no task running.  One that finds a task is
\* refused and changes nothing.
UnlockedAlways == TRUE   \* mutant: the mutex is released before the row is made
MayEnter == Unlocked

Enter(r) ==
  /\ ~InCreate(r)
  /\ MayEnter
  /\ current = 0
  /\ rows < MaxTask
  /\ request' = [request EXCEPT ![r] = [pc |-> "create", task |-> 0]]
  /\ UNCHANGED <<current, database, epoch, faults, restarts, excused>>

\* The row is inserted under the request's context ...
InsertTask(r) ==
  /\ request[r].pc = "create"
  /\ rows' = rows + 1
  /\ status' = [status EXCEPT ![rows + 1] = "running"]
  /\ request' = [request EXCEPT ![r] = [pc |-> "set", task |-> rows + 1]]
  /\ UNCHANGED <<current, gene, epoch, faults, restarts, excused>>

\* ... or the call fails, and the row may be there all the same when only the answer
\* to the commit was lost.
InsertTaskFails(r) ==
  /\ request[r].pc = "create"
  /\ Fault
  /\ \/ UNCHANGED <<rows, status, excused>>
     \/ /\ rows' = rows + 1
        /\ status' = [status EXCEPT ![rows + 1] = "running"]
        /\ excused' = excused \cup {rows + 1}
  /\ request' = [request EXCEPT ![r] = NoRequest]
  /\ UNCHANGED <<current, gene, epoch, restarts>>

\* currentTask is set, the mutex released, the goroutine started.
StartEpoch(r) ==
  /\ request[r].pc = "set"
  /\ current' = request[r].task
  /\ epoch' = [epoch EXCEPT ![request[r].task] = "evolve"]
  /\ request' = [request EXCEPT ![r] = NoRequest]
  /\ UNCHANGED <<database, faults, restarts, excused>>

\* runEpoch: the search returns.
AfterEvolveInsert == "insert"   \* mutant: the gene is stored, the row never updated
AfterEvolve == "update"

Evolve(t) ==
  /\ epoch[t] = "evolve"
  /\ epoch' = [epoch EXCEPT ![t] = AfterEvolve]
  /\ UNCHANGED <<request, current, database, faults, restarts, excused>>

\* The task is marked as completed; nobody looks at the error.
UpdateTask(t) ==
  /\ epoch[t] = "update"
  /\ \/ status' = [status EXCEPT ![t] = "completed"] /\ UNCHANGED <<faults, excused>>
     \/ Fault /\ excused' = excused \cup {t} /\ UNCHANGED status
  /\ epoch' = [epoch EXCEPT ![t] = "insert"]
  /\ UNCHANGED <<request, current, rows, gene, restarts>>

\* The gene is stored as a challenger; an error is logged, and the goroutine goes on.
ReturnOnError(stored) == IF stored THEN "clear" ELSE "none"   \* mutant: it returns instead
AfterGene(stored) == "clear"

InsertGene(t) ==
  /\ epoch[t] = "insert"
  /\ \/ /\ gene' = [gene EXCEPT ![t] = TRUE]
        /\ epoch' = [epoch EXCEPT ![t] = AfterGene(TRUE)]
        /\ UNCHANGED <<faults, excused>>
     \/ /\ Fault
        /\ excused' = excused \cup {t}
        /\ epoch' = [epoch EXCEPT ![t] = AfterGene(FALSE)]
        /\ UNCHANGED gene
  /\ UNCHANGED <<request, current, rows, status, restarts>>

\* currentTask is reset under the mutex, and the goroutine ends.
ClearTask(t) ==
  /\ epoch[t] = "clear"
  /\ Unlocked
  /\ current' = 0
  /\ epoch' = [epoch EXCEPT ![t] = "none"]
  /\ UNCHANGED <<request, database, faults, restarts, excused>>

\* The process dies (the search runs in a goroutine without recover, and a negative
\* pop_size makes it panic) and is started again: only the database is left.
Restart ==
  /\ restarts < MaxRestart
  /\ restarts' = restarts + 1
  /\ excused' = excused \cup {t \in Task : Alive(t) \/ Starting(t)}
  /\ request' = [r \in Request |-> NoRequest]
  /\ current' = 0
  /\ epoch' = [t \in Task |-> "none"]
  /\ UNCHANGED <<database, faults>>

-----------------------------------------------------------------------------
Next ==
  \/ \E r \in Request : Enter(r) \/ InsertTask(r) \/ InsertTaskFails(r) \/ StartEpoch(r)
  \/ \E t \in Task : Evolve(t) \/ UpdateTask(t) \/ InsertGene(t) \/ ClearTask(t)
  \/ Restart

Spec == Init /\ [][Next]_vars

\* The search is a bounded loop and every statement returns; requests need not come.
FairSpec ==
  /\ Spec
  /\ \A t \in Task : WF_vars(Evolve(t) \/ UpdateTask(t) \/ InsertGene(t) \/ ClearTask(t))

-----------------------------------------------------------------------------
(* Properties                                                               *)

\* Every variable keeps its type.
TypeOK ==
  /\ request \in [Request -> RequestState]
  /\ current \in 0 .. MaxTask
  /\ rows \in 0 .. MaxTask
  /\ status \in [Task -> {"none", "running", "completed"}]
  /\ gene \in [Task -> BOOLEAN]
  /\ epoch \in [Task -> {"none", "evolve", "update", "insert", "clear"}]
  /\ faults \in 0 .. MaxFault
  /\ restarts \in 0 .. MaxRestart
  /\ excused \subseteq Task

\* At most one evolution is in flight, and currentTask names it: neither a goroutine
\* that IsRunning does not see nor a task that blocks the next one for nothing.
SingleFlight == \A t \in Task : Alive(t) <=> current = t

\* A row that says "running" has its goroutine, or is about to, unless a failure or a
\* restart has come in between.
RunningRowsLive ==
  \A t \in Task \ excused : status[t] = "running" =>
    epoch[t] \in {"evolve", "update"} \/ Starting(t)

\* The challenger of a task that no failure has touched comes after its row, and with it.
GeneAfterRow ==
  \A t \in Task \ excused :
    /\ gene[t] => status[t] = "completed"
    /\ status[t] = "completed" /\ ~Alive(t) => gene[t]

\* Whatever fails, the service is free again in the end.
SlotFreed == current # 0 ~> current = 0

-----------------------------------------------------------------------------
(* Inductive invariant of the proofs                                        *)

\* The mutex: one request inside, and no task while it is there.
MutexInv ==
  /\ \A r, s \in Request : InCreate(r) /\ InCreate(s) => r = s
  /\ \A r \in Request : InCreate(r) => current = 0
  /\ \A r \in Request : request[r].pc = "create" => rows < MaxTask
  /\ \A r \in Request : request[r].pc = "set" =>
       /\ request[r].task \in Task /\ request[r].task <= rows
       /\ status[request[r].task] = "running" /\ ~gene[request[r].task]

\* What rows and goroutines have in common.
RowInv ==
  \A t \in Task :
    /\ t > rows => status[t] = "none" /\ ~gene[t] /\ epoch[t] = "none"
    /\ epoch[t] \in {"evolve", "update"} => ~gene[t] /\ status[t] = "running"
    /\ t \notin excused =>
         /\ epoch[t] = "insert" => status[t] = "completed" /\ ~gene[t]
         /\ epoch[t] = "clear" => status[t] = "completed" /\ gene[t]

EpochInv == MutexInv /\ RowInv /\ SingleFlight /\ RunningRowsLive /\ GeneAfterRow

=============================================================================
