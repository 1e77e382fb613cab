------------------------ MODULE GenePromotionProofs ------------------------
(***************************************************************************)
(* What promotions guarantee for every set of genes, requests and readers. *)
(***************************************************************************)
EXTENDS GenePromotion, TLAPS

LEMMA PromotionType ==
  NoPromotion \in Promotion /\ NoPromotion.pc = "idle" /\ NoPromotion.retired = {} /\ NoPromotion.found = {}
BY PromotionAssumption DEF NoPromotion, Promotion, Open

THEOREM PromotionTyping == Spec => []TypeOK
<1>1. Init => TypeOK
  <2>1. 0 \in 0 .. MaxPromote /\ 0 \in 0 .. MaxFault
    BY PromotionAssumption
  <2>2. QED BY <2>1, PromotionType DEF Init, TypeOK
<1>2. TypeOK /\ [Next]_vars => TypeOK'
  <2> SUFFICES ASSUME TypeOK, [Next]_vars PROVE TypeOK'
    OBVIOUS
  <2> USE PromotionAssumption, PromotionType DEF TypeOK
  <2>f. Fault => faults' \in 0 .. MaxFault
    BY DEF Fault
  <2>t. \A p \in Promoter, t \in Promotion :
          promoter' = [promoter EXCEPT ![p] = t] => promoter' \in [Promoter -> Promotion]
    OBVIOUS
  <2>1. ASSUME NEW g \in Gene, AddChallenger(g) PROVE TypeOK'
    BY <2>1 DEF AddChallenger
  <2>2. ASSUME NEW p \in Promoter, NEW g \in Gene, FindChallenger(p, g) PROVE TypeOK'
    <3>1. clock + 1 \in 0 .. MaxPromote
      BY <2>2 DEF FindChallenger
    <3>2. [NoPromotion EXCEPT !.pc = "demote", !.gene = g, !.stamp = clock + 1] \in Promotion
      BY <3>1 DEF NoPromotion, Promotion, Open
    <3>3. promoter' \in [Promoter -> Promotion]
      BY <2>2, <3>2, <2>t DEF FindChallenger
    <3>4. overlapped' \in BOOLEAN
      BY <2>2 DEF FindChallenger
    <3>5. QED BY <2>2, <3>1, <3>3, <3>4 DEF FindChallenger
  <2>3. ASSUME NEW p \in Promoter, BeginDemote(p) PROVE TypeOK'
    <3>1. promoter' = [promoter EXCEPT ![p] = [@ EXCEPT !.pc = "rows", !.found = FoundChampions]]
      BY <2>3 DEF BeginDemote
    <3>2. [promoter[p] EXCEPT !.pc = "rows", !.found = FoundChampions] \in Promotion
      BY DEF Promotion, Open, FoundChampions, Champions
    <3>3. QED BY <2>3, <3>1, <3>2, <2>t DEF BeginDemote
  <2>4. ASSUME NEW p \in Promoter, NEW g \in Gene, DemoteRow(p, g) PROVE TypeOK'
    <3>1. PICK f \in SUBSET Gene, r \in SUBSET Gene :
            promoter' = [promoter EXCEPT ![p] = [@ EXCEPT !.found = f, !.retired = r]]
      <4>1. promoter[p].found \ {g} \in SUBSET Gene
            /\ (IF role[g] = "champion" THEN promoter[p].retired \cup {g} ELSE promoter[p].retired) \in SUBSET Gene
        BY DEF Promotion
      <4>2. QED BY <2>4, <4>1 DEF DemoteRow
    <3>2. [promoter[p] EXCEPT !.found = f, !.retired = r] \in Promotion
      BY DEF Promotion
    <3>3. QED BY <2>4, <3>1, <3>2, <2>t DEF DemoteRow
  <2>5. ASSUME NEW p \in Promoter, EndDemote(p) \/ PromoteRow(p) PROVE TypeOK'
    <3>1. [promoter[p] EXCEPT !.pc = "promote"] \in Promotion /\ [promoter[p] EXCEPT !.pc = "commit"] \in Promotion
      BY DEF Promotion, Open
    <3>2. promoter' \in [Promoter -> Promotion]
      BY <2>5, <3>1, <2>t DEF EndDemote, PromoteRow
    <3>3. QED BY <2>5, <3>2 DEF EndDemote, PromoteRow
  <2>6. ASSUME NEW p \in Promoter, Commit(p) PROVE TypeOK'
    <3>1. [NoPromotion EXCEPT !.pc = "del"] \in Promotion
      BY DEF NoPromotion, Promotion
    <3>2. promoter[p].stamp \in 0 .. MaxPromote
      BY DEF Promotion
    <3>3. role' \in [Gene -> {"none", "challenger", "champion", "retired"}]
      BY <2>6 DEF Commit, RolesAfter
    <3>4. activated' \in [Gene -> 0 .. MaxPromote]
      BY <2>6, <3>2 DEF Commit
    <3>5. promoter' \in [Promoter -> Promotion]
      BY <2>6, <3>1, <2>t DEF Commit
    <3>6. raced' \in BOOLEAN
      BY <2>6 DEF Commit
    <3>7. QED BY <2>6, <3>3, <3>4, <3>5, <3>6 DEF Commit
  <2>7. ASSUME NEW p \in Promoter, Rollback(p) PROVE TypeOK'
    BY <2>7, <2>f, <2>t DEF Rollback
  <2>8. ASSUME NEW p \in Promoter, DeleteKey(p) PROVE TypeOK'
    <3>1. promoter' \in [Promoter -> Promotion]
      BY <2>8, <2>t DEF DeleteKey
    <3>2. QED BY <2>8, <2>f, <3>1 DEF DeleteKey, KeyDeleted
  <2>9. ASSUME NEW r \in Reader, QueryChampion(r) \/ FillCache(r) PROVE TypeOK'
    BY <2>9, <2>f DEF QueryChampion, FillCache, Champions
  <2>10. CASE UNCHANGED vars
    BY <2>10 DEF vars
  <2>11. QED BY <2>1, <2>2, <2>3, <2>4, <2>5, <2>6, <2>7, <2>8, <2>9, <2>10 DEF Next
<1>3. QED BY <1>1, <1>2, PTL DEF Spec

-----------------------------------------------------------------------------
\* Steps that change no committed gene.
LEMMA SameGenes ==
  ASSUME PromotionInv, UNCHANGED <<role, activated>>
  PROVE  /\ \A g : Promoted(g)' = Promoted(g)
         /\ Champions' = Champions
         /\ \A g \in Champions' : activated'[g] > 0
         /\ OneAtATime \/ overlapped
BY DEF PromotionInv, Promoted, Champions, OneAtATime

\* A transaction that moves on keeps its gene and its time.
LEMMA TxMoves ==
  ASSUME TypeOK, PromotionInv, UNCHANGED <<role, activated, cache, reader, overlapped>>,
         NEW p \in Promoter, NEW t \in Promotion, InTx(p),
         promoter' = [promoter EXCEPT ![p] = t],
         t.pc \in Open, t.gene = promoter[p].gene, t.stamp = promoter[p].stamp,
         \A g \in t.retired : Promoted(g),
         ~overlapped =>
           /\ t.pc = "rows" => Champions \subseteq t.found \cup t.retired
           /\ t.pc \in {"promote", "commit"} => Champions \subseteq t.retired
  PROVE  PromotionInv'
<1>1. promoter'[p] = t /\ \A q \in Promoter \ {p} : promoter'[q] = promoter[q]
  BY DEF TypeOK
<1>2. /\ \A g : Promoted(g)' = Promoted(g)
      /\ Champions' = Champions
      /\ \A g \in Champions' : activated'[g] > 0
  BY SameGenes
<1>3. TxInv'
  BY <1>1, <1>2 DEF PromotionInv, TxInv, InTx
<1>4. ~overlapped => AloneInv'
  BY <1>1, <1>2 DEF PromotionInv, AloneInv, InTx, Open
<1>5. CachedWasPromoted' /\ OneAtATime'
  BY <1>2 DEF PromotionInv, CachedWasPromoted, OneAtATime
<1>6. QED BY <1>2, <1>3, <1>4, <1>5 DEF PromotionInv

\* A transaction that ends or a request that is done leaves the others as they are.
LEMMA TxLeaves ==
  ASSUME TypeOK, PromotionInv, UNCHANGED <<role, activated, reader, overlapped>>,
         cache' \in {cache, NoGene},
         NEW p \in Promoter, promoter' = [promoter EXCEPT ![p] = NoPromotion]
  PROVE  PromotionInv'
<1>1. promoter'[p].pc = "idle" /\ \A q \in Promoter \ {p} : promoter'[q] = promoter[q]
  BY PromotionType DEF TypeOK
<1>2. /\ \A g : Promoted(g)' = Promoted(g)
      /\ Champions' = Champions
      /\ \A g \in Champions' : activated'[g] > 0
  BY SameGenes
<1>3. TxInv'
  BY <1>1, <1>2 DEF PromotionInv, TxInv, InTx, Open
<1>4. ~overlapped => AloneInv'
  BY <1>1, <1>2 DEF PromotionInv, AloneInv, InTx, Open
<1>5. CachedWasPromoted' /\ OneAtATime'
  BY <1>2, PromotionAssumption DEF PromotionInv, CachedWasPromoted, OneAtATime
<1>6. QED BY <1>2, <1>3, <1>4, <1>5 DEF PromotionInv

\* The commit replaces the champions it retires by its own gene.
LEMMA CommitKeeps ==
  ASSUME TypeOK, PromotionInv, NEW p \in Promoter, Commit(p)
  PROVE  PromotionInv' /\ Champions' # {}
<1> DEFINE t == promoter[p]
<1>1. /\ t \in Promotion /\ t.pc = "commit" /\ InTx(p) /\ t.gene \in Gene /\ t.stamp > 0
      /\ \A g \in t.retired : Promoted(g)
  BY DEF TypeOK, Commit, InTx, Open, PromotionInv, TxInv
<1>2. /\ role' = [g \in Gene |-> IF g = t.gene THEN "champion" ELSE IF g \in t.retired THEN "retired" ELSE role[g]]
      /\ activated' = [activated EXCEPT ![t.gene] = t.stamp]
      /\ UNCHANGED <<cache, reader, overlapped>>
  BY DEF Commit, RolesAfter
<1>3. promoter'[p].pc = "del" /\ \A q \in Promoter \ {p} : promoter'[q] = promoter[q]
  BY DEF Commit, TypeOK, NoPromotion
<1>4. \A g \in Gene : Promoted(g) => Promoted(g)'
  BY <1>1, <1>2 DEF Promoted, TypeOK
<1>5. t.gene \in Champions'
  BY <1>1, <1>2 DEF Champions
<1>6. \A g \in Champions' : g = t.gene \/ (g \in Champions /\ g \notin t.retired)
  BY <1>2 DEF Champions
<1>7. \A g \in Champions' : activated'[g] > 0
  BY <1>1, <1>2, <1>6 DEF PromotionInv, TypeOK, Champions
<1>8. TxInv'
  BY <1>3, <1>4 DEF PromotionInv, TxInv, InTx, Open, TypeOK, Promotion
<1>9. CachedWasPromoted'
  BY <1>2, <1>4 DEF PromotionInv, CachedWasPromoted, Promoted
<1>10. ~overlapped => \A q \in Promoter : promoter'[q].pc \notin Open
  BY <1>1, <1>3 DEF PromotionInv, AloneInv, InTx, Open
<1>11. ~overlapped => AloneInv'
  BY <1>10 DEF AloneInv, InTx, Open
<1>12. OneAtATime'
  <2>1. ~overlapped => Champions \subseteq t.retired
    BY <1>1 DEF PromotionInv, AloneInv
  <2>2. QED BY <2>1, <1>2, <1>6 DEF OneAtATime
<1>13. QED BY <1>2, <1>5, <1>7, <1>8, <1>9, <1>11, <1>12 DEF PromotionInv

LEMMA PromotionStep ==
  ASSUME TypeOK, PromotionInv, [Next]_vars
  PROVE  PromotionInv' /\ (Champions # {} => Champions' # {})
<1>1. ASSUME NEW g \in Gene, AddChallenger(g)
      PROVE  PromotionInv' /\ Champions' = Champions
  <2>1. /\ role[g] = "none" /\ role' = [role EXCEPT ![g] = "challenger"]
        /\ UNCHANGED <<activated, cache, promoter, reader, overlapped>>
    BY <1>1 DEF AddChallenger
  <2>2. Champions' = Champions
    BY <2>1 DEF Champions, TypeOK
  <2>3. \A h \in Gene : Promoted(h)' = Promoted(h)
    BY <2>1 DEF Promoted, TypeOK
  <2>4. TxInv'
    BY <2>1, <2>3 DEF PromotionInv, TxInv, InTx, TypeOK, Promotion
  <2>5. CachedWasPromoted'
    BY <2>1, <2>3 DEF PromotionInv, CachedWasPromoted, Promoted
  <2>6. (~overlapped => AloneInv') /\ OneAtATime'
    BY <2>1, <2>2 DEF PromotionInv, AloneInv, InTx, OneAtATime
  <2>7. QED BY <2>1, <2>2, <2>4, <2>5, <2>6 DEF PromotionInv
<1>2. ASSUME NEW p \in Promoter, NEW g \in Gene, FindChallenger(p, g)
      PROVE  PromotionInv' /\ Champions' = Champions
  <2>1. PICK t : t = [NoPromotion EXCEPT !.pc = "demote", !.gene = g, !.stamp = clock + 1]
    OBVIOUS
  <2>2. t.pc = "demote" /\ t.gene = g /\ t.stamp > 0 /\ t.retired = {}
    BY <2>1 DEF NoPromotion, TypeOK
  <2>3. promoter' = [promoter EXCEPT ![p] = t] /\ UNCHANGED <<role, activated, cache, reader>>
        /\ overlapped' = (overlapped \/ \E q \in Promoter : InTx(q))
    BY <1>2, <2>1 DEF FindChallenger
  <2>4. promoter'[p] = t /\ \A q \in Promoter \ {p} : promoter'[q] = promoter[q]
    BY <2>3 DEF TypeOK
  <2>5. /\ \A h : Promoted(h)' = Promoted(h)
        /\ Champions' = Champions
        /\ \A h \in Champions' : activated'[h] > 0
    BY <2>3, SameGenes
  <2>6. TxInv'
    BY <2>2, <2>4, <2>5 DEF PromotionInv, TxInv, InTx
  <2>7. ~overlapped' => AloneInv'
    <3>1. ~overlapped' => ~overlapped /\ \A q \in Promoter : ~InTx(q)
      BY <2>3
    <3>2. QED BY <2>2, <2>4, <3>1 DEF AloneInv, InTx, Open
  <2>8. CachedWasPromoted' /\ OneAtATime'
    BY <2>3, <2>5 DEF PromotionInv, CachedWasPromoted, OneAtATime
  <2>9. QED BY <2>5, <2>6, <2>7, <2>8 DEF PromotionInv
<1>3. ASSUME NEW p \in Promoter,
             BeginDemote(p) \/ (\E g \in Gene : DemoteRow(p, g)) \/ EndDemote(p) \/ PromoteRow(p)
      PROVE  PromotionInv' /\ Champions' = Champions
  <2>0. Champions' = Champions /\ UNCHANGED <<role, activated, cache, reader, overlapped>> /\ InTx(p)
        /\ promoter[p] \in Promotion
    BY <1>3 DEF BeginDemote, DemoteRow, EndDemote, PromoteRow, Champions, InTx, Open, TypeOK
  <2>i. /\ \A g \in promoter[p].retired : Promoted(g)
        /\ \A g \in Champions : Promoted(g)
        /\ ~overlapped =>
             /\ promoter[p].pc = "rows" => Champions \subseteq promoter[p].found \cup promoter[p].retired
             /\ promoter[p].pc \in {"promote", "commit"} => Champions \subseteq promoter[p].retired
    BY <2>0 DEF PromotionInv, TxInv, AloneInv, Promoted, Champions
  <2>1. CASE BeginDemote(p)
    <3>1. PICK t : t = [promoter[p] EXCEPT !.pc = "rows", !.found = Champions]
      OBVIOUS
    <3>2. /\ t \in Promotion /\ t.pc = "rows" /\ t.gene = promoter[p].gene /\ t.stamp = promoter[p].stamp
          /\ t.retired = promoter[p].retired /\ t.found = Champions
      BY <2>0, <3>1 DEF Promotion, Open, Champions
    <3>3. promoter' = [promoter EXCEPT ![p] = t]
      BY <2>1, <3>1 DEF BeginDemote, FoundChampions
    <3>4. QED BY <2>0, <2>i, <3>2, <3>3, TxMoves DEF Open
  <2>2. ASSUME NEW g \in Gene, DemoteRow(p, g) PROVE PromotionInv'
    <3>1. PICK t : t = [promoter[p] EXCEPT
                          !.found = @ \ {g}, !.retired = IF role[g] = "champion" THEN @ \cup {g} ELSE @]
      OBVIOUS
    <3>2. /\ t \in Promotion /\ t.pc = promoter[p].pc /\ t.gene = promoter[p].gene /\ t.stamp = promoter[p].stamp
          /\ t.retired = IF role[g] = "champion" THEN promoter[p].retired \cup {g} ELSE promoter[p].retired
          /\ t.found = promoter[p].found \ {g}
      BY <2>0, <3>1 DEF Promotion
    <3>3. promoter' = [promoter EXCEPT ![p] = t] /\ promoter[p].pc = "rows"
      BY <2>2, <3>1 DEF DemoteRow
    <3>4. role[g] = "champion" <=> g \in Champions
      BY DEF Champions
    <3>5. QED BY <2>0, <2>i, <3>2, <3>3, <3>4, TxMoves DEF Open
  <2>3. CASE EndDemote(p)
    <3>1. PICK t : t = [promoter[p] EXCEPT !.pc = "promote"]
      OBVIOUS
    <3>2. /\ t \in Promotion /\ t.pc = "promote" /\ t.gene = promoter[p].gene /\ t.stamp = promoter[p].stamp
          /\ t.retired = promoter[p].retired
      BY <2>0, <3>1 DEF Promotion, Open
    <3>3. promoter' = [promoter EXCEPT ![p] = t] /\ promoter[p].pc = "rows" /\ promoter[p].found = {}
      BY <2>3, <3>1 DEF EndDemote
    <3>4. QED BY <2>0, <2>i, <3>2, <3>3, TxMoves DEF Open
  <2>4. CASE PromoteRow(p)
    <3>1. PICK t : t = [promoter[p] EXCEPT !.pc = "commit"]
      OBVIOUS
    <3>2. /\ t \in Promotion /\ t.pc = "commit" /\ t.gene = promoter[p].gene /\ t.stamp = promoter[p].stamp
          /\ t.retired = promoter[p].retired
      BY <2>0, <3>1 DEF Promotion, Open
    <3>3. promoter' = [promoter EXCEPT ![p] = t] /\ promoter[p].pc = "promote"
      BY <2>4, <3>1 DEF PromoteRow
    <3>4. QED BY <2>0, <2>i, <3>2, <3>3, TxMoves DEF Open
  <2>5. QED BY <1>3, <2>0, <2>1, <2>2, <2>3, <2>4
<1>4. ASSUME NEW p \in Promoter, Commit(p)
      PROVE  PromotionInv' /\ Champions' # {}
  BY <1>4, CommitKeeps
<1>5. ASSUME NEW p \in Promoter, Rollback(p) \/ DeleteKey(p)
      PROVE  PromotionInv' /\ Champions' = Champions
  <2>1. /\ UNCHANGED <<role, activated, reader, overlapped>> /\ cache' \in {cache, NoGene}
        /\ promoter' = [promoter EXCEPT ![p] = NoPromotion]
    BY <1>5 DEF Rollback, DeleteKey, KeyDeleted
  <2>2. QED BY <2>1, TxLeaves DEF Champions
<1>6. ASSUME NEW r \in Reader, QueryChampion(r) \/ FillCache(r)
      PROVE  PromotionInv' /\ Champions' = Champions
  <2>1. UNCHANGED <<role, activated, promoter, overlapped>>
    BY <1>6 DEF QueryChampion, FillCache
  <2>2. Champions' = Champions /\ \A g \in Champions : Promoted(g)
    BY <2>1 DEF Champions, Promoted, PromotionInv
  <2>3. CachedWasPromoted'
    <3>1. \A g \in Gene : (cache = g \/ \E q \in Reader : reader[q] = g) => Promoted(g)
      BY DEF PromotionInv, CachedWasPromoted, Promoted
    <3>2. \A g \in Gene : (cache' = g \/ \E q \in Reader : reader'[q] = g) =>
             g \in Champions \/ cache = g \/ \E q \in Reader : reader[q] = g
      BY <1>6, PromotionAssumption DEF QueryChampion, FillCache, TypeOK
    <3>3. QED BY <2>1, <2>2, <3>1, <3>2 DEF CachedWasPromoted, Promoted
  <2>4. TxInv' /\ (~overlapped => AloneInv') /\ OneAtATime'
    BY <2>1, <2>2 DEF PromotionInv, TxInv, AloneInv, InTx, OneAtATime, Promoted
  <2>5. \A g \in Champions' : activated'[g] > 0
    BY <2>1, <2>2 DEF PromotionInv
  <2>6. QED BY <2>1, <2>2, <2>3, <2>4, <2>5 DEF PromotionInv
<1>7. CASE UNCHANGED vars
  BY <1>7 DEF vars, PromotionInv, TxInv, AloneInv, InTx, OneAtATime, Promoted, CachedWasPromoted, Champions
<1>8. QED BY <1>1, <1>2, <1>3, <1>4, <1>5, <1>6, <1>7 DEF Next

THEOREM Promotions == Spec => []PromotionInv
<1>1. Init => PromotionInv
  BY PromotionAssumption, PromotionType
     DEF Init, PromotionInv, TxInv, AloneInv, InTx, OneAtATime, CachedWasPromoted, Champions, Open
<1>2. TypeOK /\ PromotionInv /\ [Next]_vars => PromotionInv'
  BY PromotionStep
<1>3. QED BY <1>1, <1>2, PromotionTyping, PTL DEF Spec

\* Promotions that never overlap leave one champion at most.
THEOREM SerialPromotions == Spec => []OneAtATime
<1>1. PromotionInv => OneAtATime
  BY DEF PromotionInv
<1>2. QED BY <1>1, Promotions, PTL

\* Once there is a champion, every committed state has one.
THEOREM NeverWithout == Spec => ChampionKept
<1>1. TypeOK /\ PromotionInv /\ [Next]_vars => [Champions # {} => Champions' # {}]_vars
  BY PromotionStep
<1>2. QED BY <1>1, PromotionTyping, Promotions, PTL DEF Spec, ChampionKept

\* What is cached, or about to be, has been promoted.
THEOREM CachedPromoted == Spec => []CachedWasPromoted
<1>1. PromotionInv => CachedWasPromoted
  BY DEF PromotionInv
<1>2. QED BY <1>1, Promotions, PTL
-----------------------------------------------------------------------------
\* A gene that is a champion stays one unless a transaction commits.
LEMMA CoherentStep ==
  ASSUME TypeOK, CoherentInv, [Next]_vars
  PROVE  CoherentInv'
<1>1. ASSUME NEW g \in Gene, AddChallenger(g) PROVE CoherentInv'
  <2>1. role[g] = "none" /\ role' = [role EXCEPT ![g] = "challenger"]
        /\ UNCHANGED <<cache, promoter, reader, raced>>
    BY <1>1 DEF AddChallenger
  <2>2. \A h \in Gene : role'[h] = "champion" <=> role[h] = "champion"
    BY <2>1 DEF TypeOK
  <2>3. QED BY <2>1, <2>2 DEF CoherentInv, TypeOK
<1>2. ASSUME NEW p \in Promoter,
             \/ \E g \in Gene : FindChallenger(p, g) \/ DemoteRow(p, g)
             \/ BeginDemote(p) \/ EndDemote(p) \/ PromoteRow(p) \/ Rollback(p)
      PROVE  CoherentInv'
  <2>1. /\ UNCHANGED <<role, cache, reader, raced>>
        /\ promoter[p].pc # "del"
        /\ \A q \in Promoter \ {p} : promoter'[q] = promoter[q]
    BY <1>2 DEF FindChallenger, DemoteRow, BeginDemote, EndDemote, PromoteRow, Rollback, InTx, Open, TypeOK
  <2>2. \A q \in Promoter : promoter[q].pc = "del" => promoter'[q].pc = "del"
    BY <2>1
  <2>3. QED BY <2>1, <2>2 DEF CoherentInv
<1>3. ASSUME NEW p \in Promoter, Commit(p) PROVE CoherentInv'
  <2>1. promoter'[p].pc = "del"
    BY <1>3 DEF Commit, TypeOK, NoPromotion
  <2>2. ~raced' => \A r \in Reader : reader'[r] = NoGene
    BY <1>3 DEF Commit
  <2>3. QED BY <2>1, <2>2 DEF CoherentInv
<1>4. ASSUME NEW p \in Promoter, DeleteKey(p) PROVE CoherentInv'
  <2>1. UNCHANGED <<role, reader>> /\ (raced' \/ (cache' = NoGene /\ UNCHANGED raced))
    BY <1>4 DEF DeleteKey, KeyDeleted
  <2>2. QED BY <2>1 DEF CoherentInv
<1>5. ASSUME NEW r \in Reader, QueryChampion(r) PROVE CoherentInv'
  <2>1. /\ UNCHANGED <<role, cache, promoter, raced>>
        /\ \E g \in Champions : reader' = [reader EXCEPT ![r] = g]
    BY <1>5 DEF QueryChampion
  <2>2. \A q \in Reader : reader'[q] = reader[q] \/ role[reader'[q]] = "champion"
    BY <2>1 DEF Champions, TypeOK
  <2>3. QED BY <2>1, <2>2 DEF CoherentInv
<1>6. ASSUME NEW r \in Reader, FillCache(r) PROVE CoherentInv'
  <2>1. /\ UNCHANGED <<role, promoter, raced>> /\ reader[r] # NoGene
        /\ cache' = reader[r] \/ cache' = cache
        /\ \A q \in Reader : reader'[q] \in {reader[q], NoGene}
    BY <1>6 DEF FillCache, TypeOK
  <2>2. QED BY <2>1 DEF CoherentInv
<1>7. CASE UNCHANGED vars
  BY <1>7 DEF vars, CoherentInv
<1>8. QED BY <1>1, <1>2, <1>3, <1>4, <1>5, <1>6, <1>7 DEF Next

\* Without a race the cached gene is a champion, or its deletion is still to come.
THEOREM Coherence == Spec => []CacheCoherent
<1>1. Init => CoherentInv
  BY DEF Init, CoherentInv
<1>2. TypeOK /\ CoherentInv /\ [Next]_vars => CoherentInv'
  BY CoherentStep
<1>3. CoherentInv => CacheCoherent
  BY DEF CoherentInv, CacheCoherent
<1>4. QED BY <1>1, <1>2, <1>3, PromotionTyping, PTL DEF Spec
=============================================================================
