--------------------------- MODULE GenePromotion ---------------------------
(***************************************************************************)
(* The gene library: EvolutionHandler.PromoteTask and GetChampion          *)
(* (internal/saas/api/handler_evolution.go) over the gene_records table    *)
(* and the champion key in Redis.                                          *)
(*                                                                         *)
(* A promotion is one transaction of three statements, at the isolation    *)
(* level the database gives by default (READ COMMITTED): a statement sees  *)
(* what was committed when it began, an UPDATE waits for a row another     *)
(* transaction has written and then looks at its WHERE again.  The cache   *)
(* is deleted after the commit, in a step of its own; it is filled by      *)
(* whoever reads the champion and finds no key.                            *)
(***************************************************************************)
EXTENDS Naturals, FiniteSets

CONSTANTS
  Gene,         \* rows of gene_records
  Promoter,     \* promote requests being served at the same time
  Reader,       \* champion requests being served at the same time
  NoGene,       \* the key is absent
  MaxPromote,   \* promotions begun (bound)
  MaxFault      \* statements and Redis commands that fail (bound)

ASSUME PromotionAssumption ==
  /\ NoGene \notin Gene
  /\ MaxPromote \in Nat
  /\ MaxFault \in Nat

VARIABLES
  role,        \* committed gene_records.role ("none": no row yet)
  activated,   \* committed gene_records.activated_at
  cache,       \* the gene under champion:gene:current, or NoGene
  promoter,    \* the promotion each request is in
  reader,      \* the champion each request read from the database
  clock,       \* promotions that have read the time
  faults,      \* failures so far
  overlapped,  \* history: two transactions have been open at the same time
  raced        \* history: a promotion committed while a reader was between its
               \* query and its write to the cache, or a deletion of the key failed

vars == <<role, activated, cache, promoter, reader, clock, faults, overlapped, raced>>

\* pc: no request, about to demote, demoting the champions its UPDATE has found, about
\* to promote, about to commit, about to delete the key.
Open == {"demote", "rows", "promote", "commit"}
Promotion == [pc : {"idle", "del"} \cup Open, gene : Gene \cup {NoGene}, stamp : 0 .. MaxPromote,
              found : SUBSET Gene, retired : SUBSET Gene]
NoPromotion == [pc |-> "idle", gene |-> NoGene, stamp |-> 0, found |-> {}, retired |-> {}]

Init ==
  /\ role = [g \in Gene |-> "none"]
  /\ activated = [g \in Gene |-> 0]
  /\ cache = NoGene
  /\ promoter = [p \in Promoter |-> NoPromotion]
  /\ reader = [r \in Reader |-> NoGene]
  /\ clock = 0
  /\ faults = 0
  /\ overlapped = FALSE
  /\ raced = FALSE

Champions == {g \in Gene : role[g] = "champion"}
InTx(p) == promoter[p].pc \in Open
Fault == faults < MaxFault /\ faults' = faults + 1

\* Rows that p has written and not committed.
Locked(p) ==
  promoter[p].retired \cup IF promoter[p].pc = "commit" THEN {promoter[p].gene} ELSE {}
Free(p, g) == \A q \in Promoter \ {p} : g \notin Locked(q)

-----------------------------------------------------------------------------
\* EpochService.runEpoch inserts the gene of a finished task.
AddChallenger(g) ==
  /\ role[g] = "none"
  /\ role' = [role EXCEPT ![g] = "challenger"]
  /\ UNCHANGED <<activated, cache, promoter, reader, clock, faults, overlapped, raced>>

\* PromoteTask: the transaction begins, finds the challenger, and reads the time.  A
\* request that finds none ends without a trace.
FindChallenger(p, g) ==
  /\ promoter[p].pc = "idle"
  /\ clock < MaxPromote
  /\ role[g] = "challenger"
  /\ clock' = clock + 1
  /\ promoter' = [promoter EXCEPT ![p] = [NoPromotion EXCEPT !.pc = "demote", !.gene = g,
                                                             !.stamp = clock + 1]]
  /\ overlapped' = (overlapped \/ \E q \in Promoter : InTx(q))
  /\ UNCHANGED <<role, activated, cache, reader, faults, raced>>

\* The demoting UPDATE finds the champions that are committed when it begins ...
NoneFound == {}            \* mutant: nobody is demoted
FoundChampions == Champions

BeginDemote(p) ==
  /\ promoter[p].pc = "demote"
  /\ promoter' = [promoter EXCEPT ![p].pc = "rows", ![p].found = FoundChampions]
  /\ UNCHANGED <<role, activated, cache, reader, clock, faults, overlapped, raced>>

\* ... and takes them one by one, passing over those that are champions no more.
DemoteRow(p, g) ==
  /\ promoter[p].pc = "rows"
  /\ g \in promoter[p].found
  /\ Free(p, g)
  /\ promoter' = [promoter EXCEPT
       ![p].found = @ \ {g},
       ![p].retired = IF role[g] = "champion" THEN @ \cup {g} ELSE @]
  /\ UNCHANGED <<role, activated, cache, reader, clock, faults, overlapped, raced>>

EndDemote(p) ==
  /\ promoter[p].pc = "rows"
  /\ promoter[p].found = {}
  /\ promoter' = [promoter EXCEPT ![p].pc = "promote"]
  /\ UNCHANGED <<role, activated, cache, reader, clock, faults, overlapped, raced>>

\* The promoting UPDATE selects its row by the key alone.
PromoteRow(p) ==
  /\ promoter[p].pc = "promote"
  /\ Free(p, promoter[p].gene)
  /\ promoter' = [promoter EXCEPT ![p].pc = "commit"]
  /\ UNCHANGED <<role, activated, cache, reader, clock, faults, overlapped, raced>>

\* The last write of a row counts.
RolesIfStillChallenger(t) ==   \* mutant: WHERE role = 'challenger' on the promoting UPDATE
  [g \in Gene |-> IF g = t.gene /\ role[g] = "challenger" THEN "champion"
                  ELSE IF g \in t.retired THEN "retired" ELSE role[g]]
RolesDemoted(t) ==   \* mutant: the champion becomes a challenger again
  [g \in Gene |-> IF g = t.gene THEN "champion" ELSE IF g \in t.retired THEN "challenger" ELSE role[g]]
RolesAfter(t) ==
  [g \in Gene |-> IF g = t.gene THEN "champion" ELSE IF g \in t.retired THEN "retired" ELSE role[g]]

Commit(p) ==
  LET t == promoter[p] IN
  /\ t.pc = "commit"
  /\ role' = RolesAfter(t)
  /\ activated' = [activated EXCEPT ![t.gene] = t.stamp]
  /\ promoter' = [promoter EXCEPT ![p] = [NoPromotion EXCEPT !.pc = "del"]]
  /\ raced' = (raced \/ \E r \in Reader : reader[r] # NoGene)
  /\ UNCHANGED <<cache, reader, clock, faults, overlapped>>

\* A statement fails, or the database breaks a cycle of two waiting transactions (all
\* that two requests can form): the transaction leaves nothing behind.
Waiting(p, q) ==
  \/ promoter[p].pc = "rows" /\ promoter[p].found \cap Locked(q) # {}
  \/ promoter[p].pc = "promote" /\ promoter[p].gene \in Locked(q)
Deadlocked(p) == \E q \in Promoter \ {p} : Waiting(p, q) /\ Waiting(q, p)

Rollback(p) ==
  /\ InTx(p)
  /\ \/ Fault
     \/ Deadlocked(p) /\ UNCHANGED faults
  /\ promoter' = [promoter EXCEPT ![p] = NoPromotion]
  /\ UNCHANGED <<role, activated, cache, reader, clock, overlapped, raced>>

\* The key is deleted; a failure is only logged.
KeyKept == cache       \* mutant: the deletion is forgotten
KeyDeleted == NoGene

DeleteKey(p) ==
  /\ promoter[p].pc = "del"
  /\ \/ cache' = KeyDeleted /\ UNCHANGED <<faults, raced>>
     \/ Fault /\ raced' = TRUE /\ UNCHANGED cache
  /\ promoter' = [promoter EXCEPT ![p] = NoPromotion]
  /\ UNCHANGED <<role, activated, reader, clock, overlapped>>

-----------------------------------------------------------------------------
\* GetChampion: a key that is there (and can be read) is the answer, and nothing
\* changes.  Otherwise the latest activated champion is read from the database ...
QueryChampion(r) ==
  /\ reader[r] = NoGene
  /\ \/ cache = NoGene /\ UNCHANGED faults
     \/ Fault
  /\ \E g \in Champions :
       /\ \A h \in Champions : activated[h] <= activated[g]
       /\ reader' = [reader EXCEPT ![r] = g]
  /\ UNCHANGED <<role, activated, cache, promoter, clock, overlapped, raced>>

\* ... and written to the cache, without a time to live; a failure is only logged.
FillCache(r) ==
  /\ reader[r] # NoGene
  /\ \/ cache' = reader[r] /\ UNCHANGED faults
     \/ Fault /\ UNCHANGED cache
  /\ reader' = [reader EXCEPT ![r] = NoGene]
  /\ UNCHANGED <<role, activated, promoter, clock, overlapped, raced>>

-----------------------------------------------------------------------------
Next ==
  \/ \E g \in Gene : AddChallenger(g)
  \/ \E p \in Promoter :
       \/ \E g \in Gene : FindChallenger(p, g) \/ DemoteRow(p, g)
       \/ BeginDemote(p) \/ EndDemote(p) \/ PromoteRow(p) \/ Commit(p)
       \/ Rollback(p) \/ DeleteKey(p)
  \/ \E r \in Reader : QueryChampion(r) \/ FillCache(r)

Spec == Init /\ [][Next]_vars

-----------------------------------------------------------------------------
(* Properties                                                               *)

\* Every variable keeps its type.
TypeOK ==
  /\ role \in [Gene -> {"none", "challenger", "champion", "retired"}]
  /\ activated \in [Gene -> 0 .. MaxPromote]
  /\ cache \in Gene \cup {NoGene}
  /\ promoter \in [Promoter -> Promotion]
  /\ reader \in [Reader -> Gene \cup {NoGene}]
  /\ clock \in 0 .. MaxPromote
  /\ faults \in 0 .. MaxFault
  /\ overlapped \in BOOLEAN
  /\ raced \in BOOLEAN

\* Promotions that never overlap leave one champion at most.
OneAtATime == ~overlapped => \A g, h \in Champions : g = h

\* A reader never finds the library without a champion once it has had one: the
\* demotion and the promotion are seen together, and a rollback undoes both, however
\* promotions overlap.
ChampionKept == [][Champions # {} => Champions' # {}]_vars

\* Without a race between a reader and a promotion, a cached gene is a champion, or a
\* deletion of the key is on its way.
CacheCoherent ==
  ~raced /\ cache # NoGene /\ role[cache] # "champion"
    => \E p \in Promoter : promoter[p].pc = "del"

\* Race or not, what is cached, or about to be, has been promoted by somebody.
CachedWasPromoted ==
  \A g \in Gene : cache = g \/ (\E r \in Reader : reader[r] = g) =>
    role[g] \in {"champion", "retired"} /\ activated[g] > 0

-----------------------------------------------------------------------------
(* Inductive invariant of the proofs                                        *)

Promoted(g) == role[g] \in {"champion", "retired"} /\ activated[g] > 0

\* A transaction has a gene and a time, and retires promoted genes only.
TxInv ==
  \A p \in Promoter : InTx(p) =>
    /\ promoter[p].gene \in Gene
    /\ promoter[p].stamp > 0
    /\ \A g \in promoter[p].retired : Promoted(g)

\* A transaction that has been alone sees every champion.
AloneInv ==
  /\ \A p, q \in Promoter : InTx(p) /\ InTx(q) => p = q
  /\ \A p \in Promoter :
       /\ promoter[p].pc = "rows" => Champions \subseteq promoter[p].found \cup promoter[p].retired
       /\ promoter[p].pc \in {"promote", "commit"} => Champions \subseteq promoter[p].retired

PromotionInv ==
  /\ TxInv
  /\ \A g \in Champions : activated[g] > 0
  /\ CachedWasPromoted
  /\ ~overlapped => AloneInv
  /\ OneAtATime

\* Without a race, what a reader is about to write is a champion still; only what has
\* been written can go stale, and the transaction that did it has its deletion to come.
CoherentInv ==
  ~raced =>
    /\ \A r \in Reader : reader[r] # NoGene => role[reader[r]] = "champion"
    /\ cache # NoGene /\ role[cache] # "champion" => \E p \in Promoter : promoter[p].pc = "del"

-----------------------------------------------------------------------------
(* What documents and comments say of the same code; the run refutes it.     *)

\* Evolution document, section 6.2 (and handler_evolution.go:107): the champion becomes
\* retired and the challenger champion, so that there is one champion.
OneChampion == \A g, h \in Champions : g = h
=============================================================================
