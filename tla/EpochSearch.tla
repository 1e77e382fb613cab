----------------------------- MODULE EpochSearch -----------------------------
(***************************************************************************)
(* The evolution service with its search: runEpoch of EpochTask calls      *)
(* RunEpoch of SearchEngine, and goes on when it has returned.  The one    *)
(* engine of the process is shared by all epochs; a restart takes both     *)
(* down.                                                                   *)
(***************************************************************************)
EXTENDS EpochTask, SearchEngine

allVars == <<vars, searchVars>>

EpochSearchInit == Init /\ SearchInit

\* runEpoch calls the engine.
CallSearch(t) ==
  /\ epoch[t] = "evolve"
  /\ StartSearch
  /\ UNCHANGED vars

\* The engine has returned its result.
ReturnSearch(t) ==
  /\ ReturnResult
  /\ Evolve(t)

RequestStep == \E r \in Request : Enter(r) \/ InsertTask(r) \/ InsertTaskFails(r) \/ StartEpoch(r)
StoreStep(t) == UpdateTask(t) \/ InsertGene(t) \/ ClearTask(t)

EpochSearchNext ==
  \/ RequestStep /\ UNCHANGED searchVars
  \/ \E t \in Task : CallSearch(t) \/ ReturnSearch(t) \/ (StoreStep(t) /\ UNCHANGED searchVars)
  \/ SearchStep /\ UNCHANGED vars
  \/ Restart /\ ForgetSearch

\* The goroutines of the process are scheduled; requests need not come.
EpochSearchSpec ==
  /\ EpochSearchInit /\ [][EpochSearchNext]_allVars
  /\ WF_allVars(SearchStep /\ UNCHANGED vars)
  /\ \A t \in Task :
       WF_allVars(CallSearch(t) \/ ReturnSearch(t) \/ (StoreStep(t) /\ UNCHANGED searchVars))

\* The engine works for an epoch that is in the database and in currentTask, or not at
\* all: no search outlives its epoch, and none is shared by two (its random source is not
\* safe for that).
SearchHasOwner ==
  stage # "off" => \E t \in Task : epoch[t] = "evolve" /\ current = t /\ status[t] = "running"

=============================================================================
