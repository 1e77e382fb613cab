--------------------------- MODULE BacktestProofs ---------------------------
(***************************************************************************)
(* Proofs about the backtest: clamped genes are legal, releases touch only *)
(* the lots they may, the portfolio keeps its types whatever the strategy  *)
(* decides, trading makes nothing, idle cash is deployed, and the drawdown *)
(* kept up bar by bar is the largest fall.  And about the functions of     *)
(* Benchmark: the windows of a series, and its passive benchmark.          *)
(***************************************************************************)
EXTENDS MCBacktest, WellFoundedInduction, FiniteSetTheorems, TLAPS

-----------------------------------------------------------------------------
(* Clamped genes                                                            *)

\* Two even fractions exceed their limit by an even amount.
LEMMA EvenExcess ==
  ASSUME NEW a \in Int, NEW b \in Int, a % 2 = 0, b % 2 = 0
  PROVE  /\ (a + b - 190) \div 2 \in Int
         /\ 2 * ((a + b - 190) \div 2) = a + b - 190
  OBVIOUS

\* Giving half of the excess takes neither of them below its bound.
LEMMA HalfTheExcess ==
  ASSUME NEW d \in 20 .. 180, NEW m \in 10 .. 100, NEW half \in Int,
         2 * half = d + m - 190, half > 0
  PROVE  /\ ~(m - half < 10)
         /\ ~(d - half < 20)
         /\ ~(d + m - 190 <= 0)
         /\ m - half \in 10 .. 100 /\ d - half \in 20 .. 180
         /\ (d - half) + (m - half) <= 190
  OBVIOUS

\* A gene with new values in two of its fractions.
LEMMA TwoFractions ==
  ASSUME NEW G, NEW o \in [G -> Int], "microReserve" \in G, "deadHoldTarget" \in G,
         NEW m \in Int, NEW d \in Int,
         NEW c, c = [o EXCEPT !.microReserve = m, !.deadHoldTarget = d]
  PROVE  /\ c \in [G -> Int]
         /\ c.microReserve = m /\ c.deadHoldTarget = d
         /\ \A f \in G \ {"microReserve", "deadHoldTarget"} : c[f] = o[f]
  OBVIOUS

\* What ClampChromosome makes of any whole gene whose two fractions have halves of excess
\* that are exact: bounds, order and room hold at once, and clamping again changes nothing.
THEOREM ClampLegal ==
  ASSUME NEW raw, \A f \in DOMAIN Bounds : raw[f] \in Int,
         raw.deadHoldTarget % 2 = 0, raw.microReserve % 2 = 0
  PROVE  LET c == ClampChromosome(raw) IN
           /\ \A f \in DOMAIN Bounds : c[f] \in Bounds[f][1] .. Bounds[f][2]
           /\ c.emaShort < c.emaLong
           /\ c.deadHoldTarget + c.microReserve <= 190
           /\ ClampChromosome(c) = c
<1> DEFINE Whole == [DOMAIN Bounds -> Int]
<1>0. "microReserve" \in DOMAIN Bounds /\ "deadHoldTarget" \in DOMAIN Bounds
  BY DEF Bounds
<1>1. PICK b : b = InBounds(raw)
  OBVIOUS
<1>2. PICK o : o = OrderEmas(b)
  OBVIOUS
<1>3. PICK c : c = LimitReserves(o)
  OBVIOUS
<1>4. c = ClampChromosome(raw)
  BY <1>1, <1>2, <1>3 DEF ClampChromosome
<1>5. /\ b \in Whole
      /\ b.emaShort \in 5 .. 55 /\ b.emaLong \in 20 .. 200 /\ b.interval \in 7 .. 90
      /\ b.accelMultiplier \in 1 .. 5 /\ b.softReleaseMonths \in 1 .. 24
      /\ b.maxSoftReleasePct \in 5 .. 50 /\ b.deadHoldTarget \in 20 .. 180
      /\ b.microReserve \in 10 .. 100
  BY <1>1 DEF InBounds, Bounds, ClipTo
<1>6. b.deadHoldTarget % 2 = 0 /\ b.microReserve % 2 = 0
  BY <1>1 DEF InBounds, Bounds, ClipTo
<1>7. /\ o \in Whole
      /\ o.emaShort \in 5 .. 55 /\ o.emaLong \in 20 .. 200 /\ o.emaShort < o.emaLong
      /\ \A f \in DOMAIN Bounds \ {"emaShort", "emaLong"} : o[f] = b[f]
  BY <1>2, <1>5 DEF OrderEmas, Bounds
<1>8. o.deadHoldTarget \in 20 .. 180 /\ o.microReserve \in 10 .. 100
      /\ o.interval \in 7 .. 90 /\ o.accelMultiplier \in 1 .. 5
      /\ o.softReleaseMonths \in 1 .. 24 /\ o.maxSoftReleasePct \in 5 .. 50
      /\ o.deadHoldTarget % 2 = 0 /\ o.microReserve % 2 = 0
  BY <1>5, <1>6, <1>7 DEF Bounds
<1> DEFINE half == (o.deadHoldTarget + o.microReserve - 190) \div 2
<1>9. /\ half \in Int
      /\ 2 * half = o.deadHoldTarget + o.microReserve - 190
  <2>1. o.deadHoldTarget \in Int /\ o.microReserve \in Int
    BY <1>8
  <2>2. QED BY <1>8, <2>1, EvenExcess
<1> HIDE DEF half
<1>10. /\ c \in Whole
       /\ \A f \in DOMAIN Bounds \ {"microReserve", "deadHoldTarget"} : c[f] = o[f]
       /\ c.deadHoldTarget \in 20 .. 180 /\ c.microReserve \in 10 .. 100
       /\ c.deadHoldTarget + c.microReserve <= 190
  <2>1. CASE half <= 0
    <3>1. o.deadHoldTarget + o.microReserve - 190 <= 0
      BY <1>8, <1>9, <2>1
    <3>2. c = o
      BY <1>3, <3>1, Zenon DEF LimitReserves
    <3>3. QED BY <1>7, <1>8, <1>9, <2>1, <3>2
  <2>2. CASE half > 0
    <3>1. /\ ~(o.microReserve - half < 10)
          /\ ~(o.deadHoldTarget - half < 20)
          /\ ~(o.deadHoldTarget + o.microReserve - 190 <= 0)
      BY <1>8, <1>9, <2>2, HalfTheExcess
    <3>2. PICK m : m = IF o.microReserve - half < 10 THEN 10 ELSE o.microReserve - half
      OBVIOUS
    <3>3. PICK d : d = IF o.deadHoldTarget - half < 20 THEN 20 ELSE o.deadHoldTarget - half
      OBVIOUS
    <3>4. c = [o EXCEPT !.microReserve = m, !.deadHoldTarget = d]
      BY <1>3, <3>1, <3>2, <3>3, Zenon DEF LimitReserves, half
    <3>5. m \in Int /\ d \in Int
          /\ m = o.microReserve - half /\ d = o.deadHoldTarget - half
      BY <1>8, <1>9, <3>1, <3>2, <3>3
    <3>6. PICK G : G = DOMAIN Bounds
      OBVIOUS
    <3>7. o \in [G -> Int] /\ "microReserve" \in G /\ "deadHoldTarget" \in G
      BY <1>0, <1>7, <3>6
    <3>8. /\ c \in [G -> Int]
          /\ c.microReserve = m /\ c.deadHoldTarget = d
          /\ \A f \in G \ {"microReserve", "deadHoldTarget"} : c[f] = o[f]
      BY <3>4, <3>5, <3>7, TwoFractions
    <3>9. c \in Whole /\ \A f \in DOMAIN Bounds \ {"microReserve", "deadHoldTarget"} : c[f] = o[f]
      BY <3>6, <3>8
    <3>10. d \in 20 .. 180 /\ m \in 10 .. 100 /\ d + m <= 190
      BY <1>8, <1>9, <2>2, <3>5, HalfTheExcess
    <3>11. QED BY <3>8, <3>9, <3>10
  <2>3. QED BY <1>9, <2>1, <2>2
<1>11. /\ c.emaShort \in 5 .. 55 /\ c.emaLong \in 20 .. 200 /\ c.emaShort < c.emaLong
       /\ c.interval \in 7 .. 90 /\ c.accelMultiplier \in 1 .. 5
       /\ c.softReleaseMonths \in 1 .. 24 /\ c.maxSoftReleasePct \in 5 .. 50
  BY <1>7, <1>8, <1>10 DEF Bounds
<1>12. \A f \in DOMAIN Bounds : c[f] \in Bounds[f][1] .. Bounds[f][2]
  BY <1>10, <1>11 DEF Bounds
<1>13. InBounds(c) = c
  BY <1>10, <1>11 DEF InBounds, Bounds, ClipTo
<1>14. OrderEmas(c) = c
  BY <1>11 DEF OrderEmas
<1>15. LimitReserves(c) = c
  BY <1>10 DEF LimitReserves
<1>16. ClampChromosome(c) = c
  BY <1>13, <1>14, <1>15 DEF ClampChromosome
<1>17. QED BY <1>4, <1>10, <1>11, <1>12, <1>16

\* GenomeLegal: every gene that a backtest may start from is legal once it has been clamped
\* (genome.go, ClampChromosome).
THEOREM Legal == Spec => []GenomeLegal
<1>1. ClampSound
  <2> SUFFICES ASSUME NEW raw \in RawGenes
               PROVE  LET c == ClampChromosome(raw) IN
                        /\ \A f \in DOMAIN Bounds : c[f] \in Bounds[f][1] .. Bounds[f][2]
                        /\ c.emaShort < c.emaLong
                        /\ c.deadHoldTarget + c.microReserve <= 190
                        /\ ClampChromosome(c) = c
    BY DEF ClampSound
  <2>1. \A f \in DOMAIN Bounds : raw[f] \in Int
    BY DEF RawGenes, Bounds
  <2>2. raw.deadHoldTarget \in {18, 20, 100, 150, 180, 182}
        /\ raw.microReserve \in {8, 10, 40, 100, 102}
    BY DEF RawGenes
  <2>3. raw.deadHoldTarget % 2 = 0 /\ raw.microReserve % 2 = 0
    BY <2>2
  <2>4. QED BY <2>1, <2>3, ClampLegal
<1>2. GenomeLegal
  BY <1>1 DEF GenomeLegal
<1>3. QED BY <1>2, PTL

-----------------------------------------------------------------------------
(* Folds over finite sets                                                   *)

\* A set of natural numbers that has 0 and the successor of each member has all of them.
LEMMA NatSetInduction ==
  ASSUME NEW G, 0 \in G, \A n \in Nat : n \in G => n + 1 \in G
  PROVE  Nat \subseteq G
<1> SUFFICES ASSUME Nat \ G # {} PROVE FALSE
  OBVIOUS
<1>1. PICK n \in Nat \ G : \A m \in Nat \ G : ~(<<m, n>> \in OpToRel(<, Nat))
  BY NatLessThanWellFounded, WFMin
<1>2. n - 1 \in Nat /\ n - 1 < n /\ n = (n - 1) + 1
  OBVIOUS
<1>3. n - 1 \in G
  BY <1>1, <1>2 DEF OpToRel
<1>4. QED BY <1>2, <1>3

\* A set of subsets that has the empty one, and each one that has it without some member, has
\* all subsets of a finite set.
StepsUp(S, G) ==
  {} \in G /\ \A s \in SUBSET S : s # {} => \E x \in s : s \ {x} \in G => s \in G

LEMMA SubsetInduction ==
  ASSUME NEW S, IsFiniteSet(S), NEW G, StepsUp(S, G)
  PROVE  SUBSET S \subseteq G
<1> DEFINE Level == {n \in Nat : \A s \in SUBSET S : Cardinality(s) = n => s \in G}
<1>1. \A s \in SUBSET S : IsFiniteSet(s) /\ Cardinality(s) \in Nat
  BY FS_Subset, FS_CardinalityType
<1>2. 0 \in Level
  BY <1>1, FS_EmptySet DEF StepsUp
<1>3. ASSUME NEW n \in Nat, n \in Level PROVE n + 1 \in Level
  <2> SUFFICES ASSUME NEW s \in SUBSET S, Cardinality(s) = n + 1 PROVE s \in G
    OBVIOUS
  <2>1. s # {}
    <3>1. Cardinality(s) # 0
      OBVIOUS
    <3>2. QED BY <3>1, FS_EmptySet
  <2>2. PICK x \in s : s \ {x} \in G => s \in G
    BY <2>1 DEF StepsUp
  <2>3. Cardinality(s \ {x}) = n
    <3>1. IsFiniteSet(s) /\ x \in s
      BY <1>1
    <3>2. Cardinality(s \ {x}) = Cardinality(s) - 1
      BY <3>1, FS_RemoveElement
    <3>3. QED BY <3>2
  <2>4. QED BY <1>3, <2>2, <2>3
<1>4. Nat \subseteq Level
  <2> HIDE DEF Level
  <2>1. QED BY <1>2, <1>3, NatSetInduction
<1>5. QED BY <1>1, <1>4

\* A fold has a value for every subset, got from the value without the member picked.
PicksFrom(S, pick) == \A s \in SUBSET S : s # {} => pick[s] \in s
IsFold(g, S, T, base, step, pick) ==
  /\ g \in [SUBSET S -> T]
  /\ \A s \in SUBSET S : g[s] = IF s = {} THEN base ELSE step[pick[s]][g[s \ {pick[s]}]]

\* A fold over a finite set exists.
LEMMA FoldExists ==
  ASSUME NEW S, IsFiniteSet(S), NEW T, NEW base, base \in T,
         NEW step, step \in [S -> [T -> T]], NEW pick, PicksFrom(S, pick)
  PROVE  \E g : IsFold(g, S, T, base, step, pick)
<1> DEFINE Small(n) == {s \in SUBSET S : Cardinality(s) <= n}
           Folds(n, g) == \A s \in Small(n) :
                            g[s] = IF s = {} THEN base ELSE step[pick[s]][g[s \ {pick[s]}]]
           Level == {n \in Nat : \E g \in [Small(n) -> T] : Folds(n, g)}
<1>1. \A s \in SUBSET S : IsFiniteSet(s) /\ Cardinality(s) \in Nat
  BY FS_Subset, FS_CardinalityType
<1>2. 0 \in Level
  <2>1. \A s \in Small(0) : s = {}
    BY <1>1, FS_EmptySet
  <2>2. PICK g : g = [s \in Small(0) |-> base]
    OBVIOUS
  <2>3. g \in [Small(0) -> T] /\ Folds(0, g)
    BY <2>1, <2>2
  <2>4. QED BY <2>3
<1>3. ASSUME NEW n \in Nat, n \in Level PROVE n + 1 \in Level
  <2>1. PICK g \in [Small(n) -> T] : Folds(n, g)
    BY <1>3
  <2>2. PICK h : h = [s \in Small(n + 1) |->
                       IF s = {} THEN base ELSE step[pick[s]][g[s \ {pick[s]}]]]
    OBVIOUS
  <2>3. \A s \in Small(n + 1) : s # {} => s \ {pick[s]} \in Small(n)
    <3> SUFFICES ASSUME NEW s \in SUBSET S, Cardinality(s) <= n + 1, s # {}
                 PROVE  Cardinality(s \ {pick[s]}) <= n
      OBVIOUS
    <3>1. IsFiniteSet(s) /\ Cardinality(s) \in Nat /\ pick[s] \in s
      BY <1>1 DEF PicksFrom
    <3>2. Cardinality(s \ {pick[s]}) = Cardinality(s) - 1
      BY <3>1, FS_RemoveElement
    <3>3. QED BY <3>1, <3>2
  <2>4. \A s \in Small(n + 1) : h[s] \in T
    <3> SUFFICES ASSUME NEW s \in Small(n + 1), s # {} PROVE h[s] \in T
      BY <2>2
    <3>1. pick[s] \in S /\ g[s \ {pick[s]}] \in T
      BY <2>1, <2>3 DEF PicksFrom
    <3>2. step[pick[s]] \in [T -> T]
      BY <3>1
    <3>3. QED BY <2>2, <3>1, <3>2
  <2>5. \A s \in Small(n) : s \in Small(n + 1) /\ h[s] = g[s]
    <3>1. \A s \in Small(n) : s \in Small(n + 1)
      BY <1>1
    <3>2. QED BY <2>1, <2>2, <3>1
  <2>6. Folds(n + 1, h)
    <3> SUFFICES ASSUME NEW s \in Small(n + 1)
                 PROVE  h[s] = IF s = {} THEN base ELSE step[pick[s]][h[s \ {pick[s]}]]
      OBVIOUS
    <3>1. h[s] = IF s = {} THEN base ELSE step[pick[s]][g[s \ {pick[s]}]]
      BY <2>2
    <3>2. QED BY <2>3, <2>5, <3>1
  <2>7. h \in [Small(n + 1) -> T]
    BY <2>2, <2>4
  <2> HIDE DEF Small, Folds
  <2>8. QED BY <2>6, <2>7
<1>4. Cardinality(S) \in Level
  <2> HIDE DEF Level
  <2>1. Nat \subseteq Level
    BY <1>2, <1>3, NatSetInduction
  <2>2. QED BY <2>1, FS_CardinalityType
<1>5. Small(Cardinality(S)) = SUBSET S
  BY FS_Subset
<1>6. QED BY <1>4, <1>5 DEF IsFold

\* A sum is a fold that adds the value of an arbitrary member to the sum of the others.
NatOn(f, S) == \A i \in S : f[i] \in Nat
SumsOf(g, f, S) ==
  /\ g \in [SUBSET S -> Nat]
  /\ \A s \in SUBSET S :
       g[s] = IF s = {} THEN 0
              ELSE f[CHOOSE x \in s : TRUE] + g[s \ {CHOOSE x \in s : TRUE}]

LEMMA SumFold ==
  ASSUME NEW S, IsFiniteSet(S), NEW f, NatOn(f, S)
  PROVE  \E g : SumsOf(g, f, S) /\ SumFunctionOnSet(f, S) = g[S]
<1> DEFINE pick == [s \in SUBSET S |-> CHOOSE x \in s : TRUE]
           step == [i \in S |-> [v \in Nat |-> f[i] + v]]
           Sums(g) == g = [s \in SUBSET S |->
                             IF s = {} THEN 0
                             ELSE LET x == CHOOSE x \in s : TRUE IN f[x] + g[s \ {x}]]
           sums == CHOOSE g : Sums(g)
<1>1. PicksFrom(S, pick)
  BY DEF PicksFrom
<1>2. 0 \in Nat /\ step \in [S -> [Nat -> Nat]]
  BY DEF NatOn
<1>3. PICK g : IsFold(g, S, Nat, 0, step, pick)
  <2> HIDE DEF pick, step
  <2>1. QED BY <1>1, <1>2, FoldExists
<1>4. \A s \in SUBSET S :
        g[s] = IF s = {} THEN 0
               ELSE f[CHOOSE x \in s : TRUE] + g[s \ {CHOOSE x \in s : TRUE}]
  <2> SUFFICES ASSUME NEW s \in SUBSET S, s # {}
               PROVE  g[s] = f[pick[s]] + g[s \ {pick[s]}]
    BY <1>3 DEF IsFold
  <2>1. pick[s] \in S /\ g[s \ {pick[s]}] \in Nat
    BY <1>1, <1>3 DEF PicksFrom, IsFold
  <2>2. g[s] = step[pick[s]][g[s \ {pick[s]}]]
    BY <1>3 DEF IsFold
  <2> HIDE DEF pick
  <2>3. QED BY <2>1, <2>2 DEF NatOn
<1>5. Sums(g)
  BY <1>3, <1>4 DEF IsFold
<1>6. Sums(sums)
  <2> HIDE DEF Sums
  <2>1. QED BY <1>5
<1>7. SumFunctionOnSet(f, S) = sums[S]
  BY DEF SumFunctionOnSet, FoldFunctionOnSet, MapThenFoldSet
<1> HIDE DEF Sums, sums
<1>8. \A s \in SUBSET S :
        sums[s] = IF s = {} THEN 0
                  ELSE f[CHOOSE x \in s : TRUE] + sums[s \ {CHOOSE x \in s : TRUE}]
  BY <1>6 DEF Sums
<1>9. SUBSET S \subseteq {s \in SUBSET S : sums[s] = g[s]}
  <2> DEFINE G == {s \in SUBSET S : sums[s] = g[s]}
  <2>1. {} \in G
    BY <1>4, <1>8
  <2>2. ASSUME NEW s \in SUBSET S, s # {}
        PROVE  \E x \in s : s \ {x} \in G => s \in G
    <3>1. PICK x \in s : x = CHOOSE y \in s : TRUE
      BY <2>2
    <3>2. sums[s] = f[x] + sums[s \ {x}] /\ g[s] = f[x] + g[s \ {x}]
      BY <1>4, <1>8, <2>2, <3>1
    <3>3. QED BY <3>2
  <2> HIDE DEF G
  <2>3. StepsUp(S, G)
    BY <2>1, <2>2 DEF StepsUp
  <2>4. SUBSET S \subseteq G
    BY <2>3, SubsetInduction
  <2>5. QED BY <2>4 DEF G
<1>10. SumsOf(g, f, S)
  BY <1>3, <1>4 DEF SumsOf, IsFold
<1>11. sums[S] = g[S]
  BY <1>9
<1>12. QED BY <1>7, <1>10, <1>11

\* So a sum of natural numbers is one.
LEMMA SumNat ==
  ASSUME NEW S, IsFiniteSet(S), NEW f, NatOn(f, S)
  PROVE  SumFunctionOnSet(f, S) \in Nat
<1>1. PICK g : SumsOf(g, f, S) /\ SumFunctionOnSet(f, S) = g[S]
  BY SumFold
<1>2. S \in SUBSET S
  OBVIOUS
<1>3. QED BY <1>1, <1>2 DEF SumsOf

\* Nothing sums up to zero, and any member may be added last.
LEMMA SumEmpty == ASSUME NEW f PROVE SumFunctionOnSet(f, {}) = 0
<1>1. IsFiniteSet({}) /\ NatOn(f, {})
  BY FS_EmptySet DEF NatOn
<1>2. PICK g : SumsOf(g, f, {}) /\ SumFunctionOnSet(f, {}) = g[{}]
  BY <1>1, SumFold
<1>3. QED BY <1>2 DEF SumsOf

LEMMA SumAdd ==
  ASSUME NEW S, IsFiniteSet(S), NEW f, NatOn(f, S), NEW x \in S
  PROVE  SumFunctionOnSet(f, S) = f[x] + SumFunctionOnSet(f, S \ {x})
<1>1. PICK R : R = S \ {x}
  OBVIOUS
<1>2. R \subseteq S /\ IsFiniteSet(R) /\ NatOn(f, R)
  BY <1>1, FS_Subset DEF NatOn
<1>3. PICK g : SumsOf(g, f, S) /\ SumFunctionOnSet(f, S) = g[S]
  BY SumFold
<1>4. PICK h : SumsOf(h, f, R) /\ SumFunctionOnSet(f, R) = h[R]
  BY <1>2, SumFold
<1> DEFINE G == {s \in SUBSET R : h[s] = g[s]}
<1>5. StepsUp(R, G)
  <2>1. {} \in G
    BY <1>3, <1>4 DEF SumsOf
  <2>2. ASSUME NEW s \in SUBSET R, s # {}
        PROVE  \E y \in s : s \ {y} \in G => s \in G
    <3>1. PICK y \in s : y = CHOOSE z \in s : TRUE
      BY <2>2
    <3>2. h[s] = f[y] + h[s \ {y}] /\ g[s] = f[y] + g[s \ {y}]
      BY <1>2, <1>3, <1>4, <2>2, <3>1 DEF SumsOf
    <3>3. QED BY <3>2
  <2>3. QED BY <2>1, <2>2 DEF StepsUp
<1> HIDE DEF G
<1>6. SUBSET R \subseteq G
  BY <1>2, <1>5, SubsetInduction
<1>7. h[R] = g[R]
  BY <1>6 DEF G
<1> DEFINE Level == {n \in Nat : \A s \in SUBSET S : Cardinality(s) = n =>
                       \A y \in s : g[s] = f[y] + g[s \ {y}]}
<1>8. \A s \in SUBSET S : IsFiniteSet(s) /\ Cardinality(s) \in Nat
  BY FS_Subset, FS_CardinalityType
<1>9. \A s \in SUBSET S : \A y \in s : Cardinality(s \ {y}) = Cardinality(s) - 1
  <2> SUFFICES ASSUME NEW s \in SUBSET S, NEW y \in s
               PROVE  Cardinality(s \ {y}) = Cardinality(s) - 1
    OBVIOUS
  <2>1. IsFiniteSet(s)
    BY <1>8
  <2>2. QED BY <2>1, FS_RemoveElement
<1>10. 0 \in Level
  BY <1>8, FS_EmptySet
<1>11. ASSUME NEW n \in Nat, n \in Level PROVE n + 1 \in Level
  <2> SUFFICES ASSUME NEW s \in SUBSET S, Cardinality(s) = n + 1, NEW y \in s
               PROVE  g[s] = f[y] + g[s \ {y}]
    OBVIOUS
  <2>1. PICK c \in s : c = CHOOSE z \in s : TRUE
    OBVIOUS
  <2>2. g[s] = f[c] + g[s \ {c}]
    BY <1>3, <2>1 DEF SumsOf
  <2>3. CASE y = c
    BY <2>2, <2>3
  <2>4. CASE y # c
    <3>1. Cardinality(s \ {c}) = n /\ Cardinality(s \ {y}) = n
      BY <1>9
    <3>2. g[s \ {c}] = f[y] + g[(s \ {c}) \ {y}]
      BY <1>11, <2>4, <3>1
    <3>3. g[s \ {y}] = f[c] + g[(s \ {y}) \ {c}]
      BY <1>11, <2>4, <3>1
    <3>4. (s \ {c}) \ {y} = (s \ {y}) \ {c}
      OBVIOUS
    <3>5. f[c] \in Nat /\ f[y] \in Nat /\ g[(s \ {y}) \ {c}] \in Nat
      BY <1>3 DEF SumsOf, NatOn
    <3>6. PICK rest : rest = g[(s \ {y}) \ {c}]
      OBVIOUS
    <3>7. g[s \ {c}] = f[y] + rest /\ g[s \ {y}] = f[c] + rest
      BY <3>2, <3>3, <3>4, <3>6
    <3>8. f[c] \in Nat /\ f[y] \in Nat /\ rest \in Nat
      BY <3>5, <3>6
    <3>9. f[c] + (f[y] + rest) = f[y] + (f[c] + rest)
      BY <3>8
    <3>10. QED BY <2>2, <3>7, <3>9
  <2>5. QED BY <2>3, <2>4
<1> HIDE DEF Level
<1>12. Cardinality(S) \in Level
  BY <1>10, <1>11, NatSetInduction, FS_CardinalityType
<1>13. g[S] = f[x] + g[R]
  BY <1>1, <1>12 DEF Level
<1>14. QED BY <1>1, <1>3, <1>4, <1>7, <1>13

\* Two functions that agree where one counts and the other is zero elsewhere.
AgreeOn(f, S, h, T) == \A i \in T : h[i] = IF i \in S THEN f[i] ELSE 0

LEMMA SumAgree ==
  ASSUME NEW T, IsFiniteSet(T), NEW S, S \subseteq T, NEW f, NEW h, NatOn(h, T),
         AgreeOn(f, S, h, T)
  PROVE  SumFunctionOnSet(f, S) = SumFunctionOnSet(h, T)
<1> DEFINE G == {t \in SUBSET T : SumFunctionOnSet(f, S \cap t) = SumFunctionOnSet(h, t)}
<1>1. {} \in G
  BY SumEmpty
<1>2. ASSUME NEW t \in SUBSET T, t # {}
      PROVE  \E x \in t : t \ {x} \in G => t \in G
  <2>1. PICK x \in t : TRUE
    BY <1>2
  <2>2. IsFiniteSet(t) /\ IsFiniteSet(S \cap t)
    BY FS_Subset, FS_Intersection
  <2>3. NatOn(h, t) /\ NatOn(f, S \cap t)
    BY DEF NatOn, AgreeOn
  <2>4. SumFunctionOnSet(h, t) = h[x] + SumFunctionOnSet(h, t \ {x})
    BY <2>2, <2>3, SumAdd
  <2>5. CASE x \in S
    <3>1. x \in S \cap t /\ (S \cap t) \ {x} = S \cap (t \ {x})
      BY <2>5
    <3>2. SumFunctionOnSet(f, S \cap t) = f[x] + SumFunctionOnSet(f, (S \cap t) \ {x})
      BY <2>2, <2>3, <3>1, SumAdd
    <3>3. h[x] = f[x]
      BY <2>5 DEF AgreeOn
    <3>4. t \ {x} \in G => t \in G
      BY <2>4, <3>1, <3>2, <3>3
    <3>5. QED BY <3>4
  <2>6. CASE x \notin S
    <3>1. S \cap t = S \cap (t \ {x})
      BY <2>6
    <3>2. h[x] = 0
      BY <2>6 DEF AgreeOn
    <3>3. IsFiniteSet(t \ {x}) /\ NatOn(h, t \ {x})
      <4>1. IsFiniteSet(t \ {x})
        BY <2>2, FS_RemoveElement
      <4>2. QED BY <2>3, <4>1 DEF NatOn
    <3>4. SumFunctionOnSet(h, t \ {x}) \in Nat
      BY <3>3, SumNat
    <3>5. SumFunctionOnSet(h, t) = SumFunctionOnSet(h, t \ {x})
      BY <2>4, <3>2, <3>4
    <3>6. SumFunctionOnSet(f, S \cap t) = SumFunctionOnSet(f, S \cap (t \ {x}))
      BY <3>1
    <3>7. t \ {x} \in G => t \in G
      BY <3>5, <3>6
    <3>8. QED BY <3>7
  <2>7. QED BY <2>5, <2>6
<1>3. StepsUp(T, G)
  BY <1>1, <1>2 DEF StepsUp
<1> HIDE DEF G
<1>4. SUBSET T \subseteq G
  BY <1>3, SubsetInduction
<1>5. T \in G /\ S \cap T = S
  BY <1>4
<1>6. QED BY <1>5 DEF G

\* A function taken apart into two.
SplitOn(f, g, h, S) == \A i \in S : f[i] = g[i] + h[i]

LEMMA SumSplit ==
  ASSUME NEW S, IsFiniteSet(S), NEW f, NEW g, NEW h, NatOn(g, S), NatOn(h, S),
         SplitOn(f, g, h, S)
  PROVE  SumFunctionOnSet(f, S) = SumFunctionOnSet(g, S) + SumFunctionOnSet(h, S)
<1> DEFINE G == {s \in SUBSET S : SumFunctionOnSet(f, s) =
                                    SumFunctionOnSet(g, s) + SumFunctionOnSet(h, s)}
<1>1. {} \in G
  BY SumEmpty
<1>2. ASSUME NEW s \in SUBSET S, s # {}
      PROVE  \E x \in s : s \ {x} \in G => s \in G
  <2>1. PICK x \in s : TRUE
    BY <1>2
  <2>2. IsFiniteSet(s) /\ IsFiniteSet(s \ {x})
    BY FS_Subset
  <2>3. NatOn(f, s) /\ NatOn(g, s) /\ NatOn(h, s) /\ NatOn(g, s \ {x}) /\ NatOn(h, s \ {x})
    BY DEF NatOn, SplitOn
  <2>4. /\ SumFunctionOnSet(f, s) = f[x] + SumFunctionOnSet(f, s \ {x})
        /\ SumFunctionOnSet(g, s) = g[x] + SumFunctionOnSet(g, s \ {x})
        /\ SumFunctionOnSet(h, s) = h[x] + SumFunctionOnSet(h, s \ {x})
    BY <2>2, <2>3, SumAdd
  <2>5. SumFunctionOnSet(g, s \ {x}) \in Nat /\ SumFunctionOnSet(h, s \ {x}) \in Nat
    BY <2>2, <2>3, SumNat
  <2>6. f[x] = g[x] + h[x] /\ g[x] \in Nat /\ h[x] \in Nat
    BY DEF SplitOn, NatOn
  <2>7. s \ {x} \in G => s \in G
    BY <2>4, <2>5, <2>6
  <2>8. QED BY <2>7
<1>3. StepsUp(S, G)
  BY <1>1, <1>2 DEF StepsUp
<1> HIDE DEF G
<1>4. SUBSET S \subseteq G
  BY <1>3, SubsetInduction
<1>5. S \in G
  BY <1>4
<1>6. QED BY <1>5 DEF G

\* The largest of a finite set of numbers is one of them.
LEMMA MaxIn ==
  ASSUME NEW n \in Nat, NEW s \in SUBSET (1 .. n), s # {}
  PROVE  Max(s) \in s /\ \A x \in s : Max(s) >= x
<1>1. \E x \in s : \A y \in s : x >= y
  <2> DEFINE T == {n - x : x \in s}
  <2>1. T \subseteq Nat /\ T # {}
    <3>1. \A x \in s : n - x \in Nat
      OBVIOUS
    <3>2. QED BY <3>1
  <2>2. PICK t \in T : \A u \in T : ~(<<u, t>> \in OpToRel(<, Nat))
    BY <2>1, NatLessThanWellFounded, WFMin
  <2>3. PICK x \in s : t = n - x
    BY <2>2
  <2>4. ASSUME NEW y \in s PROVE x >= y
    <3>1. n - y \in T
      OBVIOUS
    <3>2. ~(n - y < n - x)
      BY <2>1, <2>2, <2>3, <3>1 DEF OpToRel
    <3>3. QED BY <3>2
  <2>5. QED BY <2>4
<1>2. QED BY <1>1 DEF Max

-----------------------------------------------------------------------------
(* Lots                                                                     *)

\* Compaction goes through the lots and keeps those that hold something.
IsCompaction(K, ls) ==
  /\ K \in [0 .. Len(ls) -> Seq(Lot)]
  /\ K[0] = <<>>
  /\ \A n \in 0 .. Len(ls) - 1 :
       K[n + 1] = IF ls[n + 1].amount > 0 THEN Append(K[n], ls[n + 1]) ELSE K[n]
  /\ Compact(ls) = K[Len(ls)]

LEMMA CompactFold ==
  ASSUME NEW ls \in Seq(Lot)
  PROVE  \E K : IsCompaction(K, ls)
<1> DEFINE S == DOMAIN ls
           pick == [s \in SUBSET S |-> Max(s)]
           step == [i \in S |-> [kept \in Seq(Lot) |->
                      IF ls[i].amount > 0 THEN Append(kept, ls[i]) ELSE kept]]
           Keeps(g) == g = [s \in SUBSET S |->
                              IF s = {} THEN <<>>
                              ELSE LET x == Max(s) IN
                                   IF ls[x].amount > 0 THEN Append(g[s \ {x}], ls[x])
                                   ELSE g[s \ {x}]]
           keeps == CHOOSE g : Keeps(g)
<1>1. S = 1 .. Len(ls) /\ Len(ls) \in Nat /\ IsFiniteSet(S)
  BY FS_Interval
<1>2. PicksFrom(S, pick)
  BY <1>1, MaxIn DEF PicksFrom
<1>3. <<>> \in Seq(Lot) /\ step \in [S -> [Seq(Lot) -> Seq(Lot)]]
  OBVIOUS
<1>4. PICK g : IsFold(g, S, Seq(Lot), <<>>, step, pick)
  <2> HIDE DEF S, pick, step
  <2>1. QED BY <1>1, <1>2, <1>3, FoldExists
<1>5. Keeps(g)
  <2>1. ASSUME NEW s \in SUBSET S, s # {}
        PROVE  g[s] = LET x == Max(s) IN
                      IF ls[x].amount > 0 THEN Append(g[s \ {x}], ls[x]) ELSE g[s \ {x}]
    <3>1. pick[s] \in S /\ g[s \ {pick[s]}] \in Seq(Lot)
      BY <1>2, <1>4, <2>1 DEF PicksFrom, IsFold
    <3>2. g[s] = step[pick[s]][g[s \ {pick[s]}]]
      BY <1>4, <2>1 DEF IsFold
    <3>3. pick[s] = Max(s)
      OBVIOUS
    <3> HIDE DEF pick
    <3>4. QED BY <3>1, <3>2, <3>3
  <2>2. QED BY <1>4, <2>1 DEF IsFold
<1>6. Keeps(keeps)
  <2> HIDE DEF Keeps
  <2>1. QED BY <1>5
<1>7. Compact(ls) = keeps[S]
  BY DEF Compact, FoldLeft, MapThenFoldSet
<1> HIDE DEF keeps
<1> DEFINE G == {s \in SUBSET S : keeps[s] \in Seq(Lot)}
<1>8. {} \in G
  BY <1>6
<1>9. ASSUME NEW s \in SUBSET S, s # {}
      PROVE  \E x \in s : s \ {x} \in G => s \in G
  <2>1. Max(s) \in s
    BY <1>1, <1>9, MaxIn
  <2>2. keeps[s] = IF ls[Max(s)].amount > 0 THEN Append(keeps[s \ {Max(s)}], ls[Max(s)])
                   ELSE keeps[s \ {Max(s)}]
    BY <1>6, <1>9
  <2>3. ls[Max(s)] \in Lot
    BY <2>1
  <2>4. ASSUME keeps[s \ {Max(s)}] \in Seq(Lot) PROVE keeps[s] \in Seq(Lot)
    BY <2>2, <2>3, <2>4
  <2>5. s \ {Max(s)} \in G => s \in G
    BY <2>4
  <2>6. QED BY <2>1, <2>5
<1> HIDE DEF G
<1>10. SUBSET S \subseteq G
  <2>1. StepsUp(S, G)
    BY <1>8, <1>9 DEF StepsUp
  <2> HIDE DEF S
  <2>2. QED BY <1>1, <2>1, SubsetInduction
<1>11. \A s \in SUBSET S : keeps[s] \in Seq(Lot)
  BY <1>10 DEF G
<1>12. PICK K : K = [n \in 0 .. Len(ls) |-> keeps[1 .. n]]
  OBVIOUS
<1>13. K \in [0 .. Len(ls) -> Seq(Lot)]
  BY <1>1, <1>11, <1>12
<1>14. K[0] = <<>> /\ Compact(ls) = K[Len(ls)]
  BY <1>1, <1>6, <1>7, <1>12
<1>15. ASSUME NEW n \in 0 .. Len(ls) - 1
       PROVE  K[n + 1] = IF ls[n + 1].amount > 0 THEN Append(K[n], ls[n + 1]) ELSE K[n]
  <2>1. PICK s : s = 1 .. (n + 1)
    OBVIOUS
  <2>2. s \in SUBSET S /\ s # {} /\ n + 1 \in s /\ s \ {n + 1} = 1 .. n
    BY <1>1, <2>1
  <2>3. Max(s) \in s /\ \A x \in s : Max(s) >= x
    BY <1>1, <2>2, MaxIn
  <2>4. Max(s) = n + 1
    BY <2>1, <2>2, <2>3
  <2>5. keeps[s] = IF ls[n + 1].amount > 0 THEN Append(keeps[s \ {n + 1}], ls[n + 1])
                   ELSE keeps[s \ {n + 1}]
    BY <1>6, <2>2, <2>4
  <2>6. K[n + 1] = keeps[s] /\ K[n] = keeps[s \ {n + 1}]
    BY <1>12, <2>1, <2>2
  <2>7. QED BY <2>5, <2>6
<1>16. QED BY <1>13, <1>14, <1>15 DEF IsCompaction

\* The compacted lots are lots.
LEMMA CompactType ==
  ASSUME NEW ls \in Seq(Lot)
  PROVE  Compact(ls) \in Seq(Lot)
<1>1. PICK K : IsCompaction(K, ls)
  BY CompactFold
<1>2. Len(ls) \in 0 .. Len(ls)
  OBVIOUS
<1>3. QED BY <1>1, <1>2 DEF IsCompaction

\* A function on the first numbers is a sequence.
LEMMA FcnSeq ==
  ASSUME NEW n \in Nat, NEW T, NEW f \in [1 .. n -> T]
  PROVE  f \in Seq(T) /\ Len(f) = n
OBVIOUS

\* What some of the lots hold.
LEMMA AmountType ==
  ASSUME NEW ls \in Seq(Lot), NEW S, S \subseteq DOMAIN ls
  PROVE  AmountOf(ls, S) \in Nat
<1> DEFINE f == [k \in DOMAIN ls |-> ls[k].amount]
<1>1. IsFiniteSet(S)
  <2>1. DOMAIN ls = 1 .. Len(ls) /\ Len(ls) \in Nat
    OBVIOUS
  <2>2. IsFiniteSet(DOMAIN ls)
    BY <2>1, FS_Interval
  <2>3. QED BY <2>2, FS_Subset
<1>2. NatOn(f, S)
  <2> SUFFICES ASSUME NEW k \in S PROVE f[k] \in Nat
    BY DEF NatOn
  <2>1. k \in DOMAIN ls /\ ls[k] \in Lot
    OBVIOUS
  <2>2. QED BY <2>1 DEF Lot
<1> HIDE DEF f
<1>3. SumFunctionOnSet(f, S) \in Nat
  BY <1>1, <1>2, SumNat
<1>4. QED BY <1>3 DEF AmountOf, f

\* Drawing from lots leaves as many lots, none below zero.
LEMMA DrawType ==
  ASSUME NEW ls \in Seq(Lot), NEW S, S \subseteq DOMAIN ls, NEW amount \in Int
  PROVE  Draw(ls, S, amount) \in [DOMAIN ls -> Lot]
<1> SUFFICES ASSUME NEW k \in DOMAIN ls
             PROVE  Draw(ls, S, amount)[k] \in Lot
  BY DEF Draw
<1>1. CASE k \notin S
  BY <1>1 DEF Draw
<1>2. CASE k \in S
  <2>1. PICK before : before = AmountOf(ls, {j \in S : j < k})
    OBVIOUS
  <2>2. before \in Nat
    BY <2>1, AmountType
  <2>3. PICK drawn : drawn = Lesser(ls[k].amount, Greater(0, amount - before))
    OBVIOUS
  <2>4. ls[k] \in Lot
    OBVIOUS
  <2>5. drawn \in Nat /\ ls[k].amount - drawn \in Nat
    BY <2>2, <2>3, <2>4 DEF Lot, Lesser, Greater
  <2>6. Draw(ls, S, amount)[k] = [ls[k] EXCEPT !.amount = ls[k].amount - drawn]
    BY <1>2, <2>1, <2>3 DEF Draw
  <2>7. QED BY <2>4, <2>5, <2>6 DEF Lot
<1>3. QED BY <1>1, <1>2

\* What a release shows to its caller: as many lots as before.
LEMMA ReleaseType ==
  ASSUME NEW ls \in Seq(Lot), NEW S, S \subseteq DOMAIN ls,
         NEW amount \in Nat, NEW day \in Int
  PROVE  /\ Release(ls, S, amount, day).amount = amount
         /\ Release(ls, S, amount, day).seen \in Seq(Lot)
         /\ Len(Release(ls, S, amount, day).seen) = Len(ls)
<1>1. PICK drawn : drawn = Draw(ls, S, amount)
  OBVIOUS
<1>2. drawn \in [DOMAIN ls -> Lot] /\ drawn \in Seq(Lot)
  <2>1. amount \in Int
    OBVIOUS
  <2>2. drawn \in [DOMAIN ls -> Lot]
    BY <1>1, <2>1, DrawType
  <2>3. DOMAIN ls = 1 .. Len(ls) /\ Len(ls) \in Nat
    OBVIOUS
  <2>4. QED BY <2>2, <2>3, FcnSeq
<1>3. PICK kept : kept = Compact(drawn)
  OBVIOUS
<1>4. kept \in Seq(Lot)
  BY <1>2, <1>3, CompactType
<1>5. PICK new : new = [type |-> "float", amount |-> amount, at |-> day, sealed |-> FALSE]
  OBVIOUS
<1>6. new \in Lot
  BY <1>5 DEF Lot
<1>7. PICK result : result = Append(kept, new)
  OBVIOUS
<1>8. result \in Seq(Lot)
  BY <1>4, <1>6, <1>7
<1>9. PICK seen : seen = [k \in DOMAIN ls |-> IF k <= Len(result) THEN result[k] ELSE drawn[k]]
  OBVIOUS
<1>10. \A k \in DOMAIN ls : seen[k] \in Lot
  BY <1>2, <1>8, <1>9
<1>11. seen \in Seq(Lot) /\ Len(seen) = Len(ls)
  BY <1>9, <1>10
<1>12. Release(ls, S, amount, day) = [lots |-> result, amount |-> amount, seen |-> seen]
  BY <1>1, <1>3, <1>5, <1>7, <1>9 DEF Release
<1>13. QED BY <1>11, <1>12

\* A release of either kind is sound in its types.
IsRelease(r, ls) == r.amount \in Nat /\ r.seen \in Seq(Lot) /\ Len(r.seen) = Len(ls)

LEMMA SoftType ==
  ASSUME NEW ls \in Seq(Lot), NEW day \in Int, NEW p \in Nat \ {0}, NEW e \in Nat,
         NEW c, c.softReleaseMonths \in Int, c.deadHoldTarget \in Int,
         c.maxSoftReleasePct \in Int
  PROVE  IsRelease(SoftRelease(ls, day, p, e, c), ls)
<1> DEFINE S == Aged(ls, day, c.softReleaseMonths)
           amount == SoftAmount(ls, day, p, e, c)
<1>1. S \subseteq DOMAIN ls
  BY DEF Aged, Where
<1>2. TotalDeadHold(ls) \in Nat
  BY AmountType DEF TotalDeadHold, Where
<1>3. AmountOf(ls, S) \in Nat
  BY <1>1, AmountType
<1>4. (c.deadHoldTarget * e) \div (200 * p) \in Int
  OBVIOUS
<1>5. (TotalDeadHold(ls) * c.maxSoftReleasePct) \div 100 \in Int
  BY <1>2
<1> HIDE DEF S
<1>6. amount \in Int
  BY <1>2, <1>3, <1>4, <1>5 DEF SoftAmount, S, Lesser
<1> HIDE DEF amount
<1>7. CASE amount <= 0
  BY <1>7 DEF SoftRelease, amount, NoRelease, IsRelease
<1>8. CASE ~(amount <= 0)
  <2>1. amount \in Nat
    BY <1>6, <1>8
  <2>2. SoftRelease(ls, day, p, e, c) \in {NoRelease(ls), Release(ls, S, amount, day)}
    BY DEF SoftRelease, amount, S
  <2>3. IsRelease(Release(ls, S, amount, day), ls)
    BY <1>1, <2>1, ReleaseType DEF IsRelease
  <2>4. IsRelease(NoRelease(ls), ls)
    BY DEF NoRelease, IsRelease
  <2>5. QED BY <2>2, <2>3, <2>4
<1>9. QED BY <1>7, <1>8

LEMMA HardType ==
  ASSUME NEW ls \in Seq(Lot), ls # <<>>, NEW needed \in Int
  PROVE  IsRelease(HardRelease(ls, needed), ls)
<1> DEFINE S == HardSource(ls)
           amount == Lesser(needed, AmountOf(ls, S))
<1>1. S \subseteq DOMAIN ls
  BY DEF HardSource, Where
<1>2. AmountOf(ls, S) \in Nat
  BY <1>1, AmountType
<1>3. amount \in Int
  BY <1>2 DEF Lesser
<1>4. ls[1].at \in Int
  <2>1. ls[1] \in Lot
    OBVIOUS
  <2>2. QED BY <2>1 DEF Lot
<1> HIDE DEF S, amount
<1>5. IsRelease(NoRelease(ls), ls)
  BY DEF NoRelease, IsRelease
<1>6. CASE amount <= 0
  BY <1>5, <1>6 DEF HardRelease, amount, S
<1>7. CASE ~(amount <= 0)
  <2>1. amount \in Nat
    BY <1>3, <1>7
  <2>2. HardRelease(ls, needed) = Release(ls, S, amount, ls[1].at)
    BY <1>7 DEF HardRelease, amount, S
  <2>3. IsRelease(Release(ls, S, amount, ls[1].at), ls)
    BY <1>1, <1>4, <2>1, ReleaseType DEF IsRelease
  <2>4. QED BY <2>2, <2>3
<1>8. QED BY <1>6, <1>7

-----------------------------------------------------------------------------
(* What a release moves                                                     *)

\* Lots are weighed by their amount, or by their amount when they are floating.
Amounts == [l \in Lot |-> l.amount]
FloatAmounts == [l \in Lot |-> IF l.type = "float" THEN l.amount ELSE 0]
Weighing(w) == w \in [Lot -> Nat] /\ \A l \in Lot : l.amount = 0 => w[l] = 0

Weights(w, ls) == [k \in DOMAIN ls |-> w[ls[k]]]
Mass(w, ls) == SumFunctionOnSet(Weights(w, ls), DOMAIN ls)

LEMMA WeighingAmounts == Weighing(Amounts) /\ Weighing(FloatAmounts)
BY DEF Weighing, Amounts, FloatAmounts, Lot

\* The positions of a sequence of lots, and the weights at them.
LEMMA WeightsType ==
  ASSUME NEW w, Weighing(w), NEW ls \in Seq(Lot)
  PROVE  /\ Len(ls) \in Nat /\ DOMAIN ls = 1 .. Len(ls) /\ IsFiniteSet(DOMAIN ls)
         /\ \A S : S \subseteq DOMAIN ls => IsFiniteSet(S) /\ NatOn(Weights(w, ls), S)
<1>1. Len(ls) \in Nat /\ DOMAIN ls = 1 .. Len(ls)
  OBVIOUS
<1>2. IsFiniteSet(DOMAIN ls)
  BY <1>1, FS_Interval
<1>3. ASSUME NEW S, S \subseteq DOMAIN ls PROVE IsFiniteSet(S) /\ NatOn(Weights(w, ls), S)
  <2>1. IsFiniteSet(S)
    BY <1>2, <1>3, FS_Subset
  <2>2. \A k \in S : k \in DOMAIN ls /\ ls[k] \in Lot
    BY <1>3
  <2>3. NatOn(Weights(w, ls), S)
    BY <2>2 DEF NatOn, Weights, Weighing
  <2>4. QED BY <2>1, <2>3
<1>4. QED BY <1>1, <1>2, <1>3

\* The mass of the first lots, one more at a time.
LEMMA MassNext ==
  ASSUME NEW w, Weighing(w), NEW ls \in Seq(Lot), NEW n \in 0 .. Len(ls) - 1
  PROVE  SumFunctionOnSet(Weights(w, ls), 1 .. (n + 1)) =
           SumFunctionOnSet(Weights(w, ls), 1 .. n) + w[ls[n + 1]]
<1>1. PICK S : S = 1 .. (n + 1)
  OBVIOUS
<1>2. PICK f : f = Weights(w, ls)
  OBVIOUS
<1>3. S \subseteq DOMAIN ls /\ n + 1 \in S /\ S \ {n + 1} = 1 .. n /\ 1 .. n \subseteq DOMAIN ls
  BY <1>1
<1>4. IsFiniteSet(S) /\ NatOn(f, S) /\ IsFiniteSet(1 .. n) /\ NatOn(f, 1 .. n)
  BY <1>2, <1>3, WeightsType
<1>5. SumFunctionOnSet(f, S) = f[n + 1] + SumFunctionOnSet(f, S \ {n + 1})
  BY <1>3, <1>4, SumAdd
<1>6. f[n + 1] = w[ls[n + 1]] /\ f[n + 1] \in Nat
  BY <1>1, <1>2, <1>3, <1>4 DEF Weights, NatOn
<1>7. SumFunctionOnSet(f, 1 .. n) \in Nat
  BY <1>4, SumNat
<1>8. f[n + 1] + SumFunctionOnSet(f, 1 .. n) = SumFunctionOnSet(f, 1 .. n) + w[ls[n + 1]]
  BY <1>6, <1>7
<1>9. SumFunctionOnSet(f, S) = SumFunctionOnSet(f, 1 .. n) + w[ls[n + 1]]
  BY <1>3, <1>5, <1>8
<1>10. QED BY <1>1, <1>2, <1>9

\* A lot appended adds its weight.
LEMMA MassAppend ==
  ASSUME NEW w, Weighing(w), NEW ls \in Seq(Lot), NEW l \in Lot
  PROVE  Mass(w, ls) \in Nat /\ Mass(w, Append(ls, l)) = Mass(w, ls) + w[l]
<1>1. PICK n : n = Len(ls)
  OBVIOUS
<1>2. PICK ls2 : ls2 = Append(ls, l)
  OBVIOUS
<1>3. /\ n \in Nat /\ ls2 \in Seq(Lot) /\ Len(ls2) = n + 1 /\ ls2[n + 1] = l
      /\ DOMAIN ls = 1 .. n /\ DOMAIN ls2 = 1 .. (n + 1)
      /\ \A k \in 1 .. n : ls2[k] = ls[k]
  BY <1>1, <1>2
<1>4. n \in 0 .. Len(ls2) - 1
  BY <1>3
<1>5. SumFunctionOnSet(Weights(w, ls2), 1 .. (n + 1)) =
        SumFunctionOnSet(Weights(w, ls2), 1 .. n) + w[l]
  BY <1>3, <1>4, MassNext
<1>6. IsFiniteSet(1 .. n) /\ NatOn(Weights(w, ls), 1 .. n)
  BY <1>3, WeightsType
<1>7. AgreeOn(Weights(w, ls2), 1 .. n, Weights(w, ls), 1 .. n)
  <2> SUFFICES ASSUME NEW k \in 1 .. n
               PROVE  Weights(w, ls)[k] = Weights(w, ls2)[k]
    BY DEF AgreeOn
  <2>1. k \in DOMAIN ls /\ k \in DOMAIN ls2 /\ ls2[k] = ls[k]
    BY <1>3
  <2>2. QED BY <2>1 DEF Weights
<1>8. SumFunctionOnSet(Weights(w, ls2), 1 .. n) = SumFunctionOnSet(Weights(w, ls), 1 .. n)
  BY <1>6, <1>7, SumAgree
<1>9. Mass(w, ls) = SumFunctionOnSet(Weights(w, ls), 1 .. n)
      /\ Mass(w, ls2) = SumFunctionOnSet(Weights(w, ls2), 1 .. (n + 1))
  BY <1>3 DEF Mass
<1>10. Mass(w, ls) \in Nat
  BY <1>6, <1>9, SumNat
<1>11. QED BY <1>2, <1>5, <1>8, <1>9, <1>10

\* Compaction loses no mass, ...
LEMMA MassCompact ==
  ASSUME NEW w, Weighing(w), NEW ls \in Seq(Lot)
  PROVE  Mass(w, Compact(ls)) = Mass(w, ls)
<1>1. PICK K : IsCompaction(K, ls)
  BY CompactFold
<1> DEFINE Level == {n \in Nat : n <= Len(ls) =>
                       Mass(w, K[n]) = SumFunctionOnSet(Weights(w, ls), 1 .. n)}
<1>2. Len(ls) \in Nat /\ DOMAIN ls = 1 .. Len(ls)
  OBVIOUS
<1>3. 0 \in Level
  <2>1. K[0] = <<>> /\ 1 .. 0 = {}
    BY <1>1 DEF IsCompaction
  <2>2. Mass(w, <<>>) = 0 /\ SumFunctionOnSet(Weights(w, ls), {}) = 0
    BY SumEmpty DEF Mass
  <2>3. QED BY <2>1, <2>2
<1>4. ASSUME NEW n \in Nat, n \in Level PROVE n + 1 \in Level
  <2> SUFFICES ASSUME n + 1 <= Len(ls)
               PROVE  Mass(w, K[n + 1]) = SumFunctionOnSet(Weights(w, ls), 1 .. (n + 1))
    OBVIOUS
  <2>1. n \in 0 .. Len(ls) - 1 /\ n \in 0 .. Len(ls) /\ n + 1 \in DOMAIN ls /\ n <= Len(ls)
    BY <1>2
  <2>2. Mass(w, K[n]) = SumFunctionOnSet(Weights(w, ls), 1 .. n)
    BY <1>4, <2>1
  <2>3. K[n] \in Seq(Lot) /\ ls[n + 1] \in Lot
    BY <1>1, <2>1 DEF IsCompaction
  <2>4. K[n + 1] = IF ls[n + 1].amount > 0 THEN Append(K[n], ls[n + 1]) ELSE K[n]
    BY <1>1, <2>1 DEF IsCompaction
  <2>5. ls[n + 1].amount \in Nat
    BY <2>3 DEF Lot
  <2>6. Mass(w, K[n]) \in Nat /\ Mass(w, Append(K[n], ls[n + 1])) = Mass(w, K[n]) + w[ls[n + 1]]
    BY <2>3, MassAppend
  <2>7. ls[n + 1].amount = 0 => w[ls[n + 1]] = 0
    BY <2>3 DEF Weighing
  <2>8. Mass(w, K[n + 1]) = Mass(w, K[n]) + w[ls[n + 1]]
    BY <2>4, <2>5, <2>6, <2>7
  <2>9. QED BY <2>1, <2>2, <2>8, MassNext
<1> HIDE DEF Level
<1>5. Len(ls) \in Level
  BY <1>2, <1>3, <1>4, NatSetInduction
<1>6. Compact(ls) = K[Len(ls)]
  BY <1>1 DEF IsCompaction
<1>7. QED BY <1>2, <1>5, <1>6 DEF Level, Mass

\* ... and no lot that holds something.
LEMMA CompactKeeps ==
  ASSUME NEW ls \in Seq(Lot), NEW k \in DOMAIN ls, ls[k].amount > 0
  PROVE  \E j \in DOMAIN Compact(ls) : Compact(ls)[j] = ls[k]
<1>1. PICK K : IsCompaction(K, ls)
  BY CompactFold
<1> DEFINE Level == {n \in Nat : k <= n /\ n <= Len(ls) =>
                       \E j \in DOMAIN K[n] : K[n][j] = ls[k]}
<1>2. Len(ls) \in Nat /\ DOMAIN ls = 1 .. Len(ls)
  OBVIOUS
<1>3. 0 \in Level
  BY <1>2
<1>4. ASSUME NEW n \in Nat, n \in Level PROVE n + 1 \in Level
  <2> SUFFICES ASSUME k <= n + 1, n + 1 <= Len(ls)
               PROVE  \E j \in DOMAIN K[n + 1] : K[n + 1][j] = ls[k]
    OBVIOUS
  <2>1. n \in 0 .. Len(ls) - 1 /\ n \in 0 .. Len(ls) /\ n + 1 \in DOMAIN ls /\ n <= Len(ls)
    BY <1>2
  <2>2. K[n] \in Seq(Lot) /\ ls[n + 1] \in Lot
    BY <1>1, <2>1 DEF IsCompaction
  <2>3. K[n + 1] = IF ls[n + 1].amount > 0 THEN Append(K[n], ls[n + 1]) ELSE K[n]
    BY <1>1, <2>1 DEF IsCompaction
  <2>4. CASE k = n + 1
    <3>1. K[n + 1] = Append(K[n], ls[k])
      BY <2>3, <2>4
    <3>2. K[n + 1][Len(K[n]) + 1] = ls[k] /\ Len(K[n]) + 1 \in DOMAIN K[n + 1]
      BY <2>2, <2>4, <3>1
    <3>3. QED BY <3>2
  <2>5. CASE k <= n
    <3>1. PICK j \in DOMAIN K[n] : K[n][j] = ls[k]
      BY <1>4, <2>1, <2>5
    <3>2. j \in DOMAIN Append(K[n], ls[n + 1]) /\ Append(K[n], ls[n + 1])[j] = ls[k]
      BY <2>2, <3>1
    <3>3. QED BY <2>3, <3>1, <3>2
  <2>6. QED BY <1>2, <2>4, <2>5
<1> HIDE DEF Level
<1>5. Len(ls) \in Level
  BY <1>2, <1>3, <1>4, NatSetInduction
<1>6. Compact(ls) = K[Len(ls)]
  BY <1>1 DEF IsCompaction
<1>7. QED BY <1>2, <1>5, <1>6 DEF Level

\* The sums of the code are masses.
LEMMA SumsAreMasses ==
  ASSUME NEW ls \in Seq(Lot)
  PROVE  /\ \A S : AmountOf(ls, S) = SumFunctionOnSet(Weights(Amounts, ls), S)
         /\ Total(ls) = Mass(Amounts, ls)
         /\ TotalFloatHold(ls) = Mass(FloatAmounts, ls)
<1>1. \A k \in DOMAIN ls : ls[k] \in Lot
  OBVIOUS
<1>2. [k \in DOMAIN ls |-> ls[k].amount] = Weights(Amounts, ls)
  BY <1>1 DEF Weights, Amounts
<1>3. \A S : AmountOf(ls, S) = SumFunctionOnSet(Weights(Amounts, ls), S)
  BY <1>2 DEF AmountOf
<1>4. Total(ls) = Mass(Amounts, ls)
  BY <1>3 DEF Total, Mass
<1>5. PICK S : S = Where(ls, LAMBDA l : l.type = "float")
  OBVIOUS
<1>6. S \subseteq DOMAIN ls /\ \A k \in DOMAIN ls : k \in S <=> ls[k].type = "float"
  BY <1>5 DEF Where
<1>7. AgreeOn(Weights(Amounts, ls), S, Weights(FloatAmounts, ls), DOMAIN ls)
  BY <1>1, <1>6 DEF AgreeOn, Weights, Amounts, FloatAmounts
<1>8. IsFiniteSet(DOMAIN ls) /\ NatOn(Weights(FloatAmounts, ls), DOMAIN ls)
  BY WeightsType, WeighingAmounts
<1>9. SumFunctionOnSet(Weights(Amounts, ls), S) = Mass(FloatAmounts, ls)
  BY <1>6, <1>7, <1>8, SumAgree DEF Mass
<1>10. QED BY <1>3, <1>4, <1>5, <1>9 DEF TotalFloatHold

\* What each lot of S gives.
Drawn(ls, S, amount) ==
  [k \in DOMAIN ls |->
     IF k \in S THEN Lesser(ls[k].amount, Greater(0, amount - AmountOf(ls, {j \in S : j < k})))
     ELSE 0]

LEMMA DrawParts ==
  ASSUME NEW ls \in Seq(Lot), NEW S, S \subseteq DOMAIN ls, NEW amount \in Nat,
         NEW k \in DOMAIN ls
  PROVE  /\ Drawn(ls, S, amount)[k] \in Nat
         /\ Draw(ls, S, amount)[k].amount \in Nat
         /\ ls[k].amount = Draw(ls, S, amount)[k].amount + Drawn(ls, S, amount)[k]
         /\ Draw(ls, S, amount)[k].type = ls[k].type
         /\ k \notin S => Draw(ls, S, amount)[k] = ls[k]
<1>1. ls[k] \in Lot
  OBVIOUS
<1>2. CASE k \notin S
  <2>1. Draw(ls, S, amount)[k] = ls[k] /\ Drawn(ls, S, amount)[k] = 0
    BY <1>2 DEF Draw, Drawn
  <2>2. QED BY <1>1, <2>1 DEF Lot
<1>3. CASE k \in S
  <2>1. PICK before : before = AmountOf(ls, {j \in S : j < k})
    OBVIOUS
  <2>2. before \in Nat
    BY <2>1, AmountType
  <2>3. PICK part : part = Lesser(ls[k].amount, Greater(0, amount - before))
    OBVIOUS
  <2>4. part \in Nat /\ ls[k].amount - part \in Nat
    BY <1>1, <2>2, <2>3 DEF Lot, Lesser, Greater
  <2>5. Draw(ls, S, amount)[k] = [ls[k] EXCEPT !.amount = ls[k].amount - part]
    BY <1>3, <2>1, <2>3 DEF Draw
  <2>6. Drawn(ls, S, amount)[k] = part
    BY <1>3, <2>1, <2>3 DEF Drawn
  <2>7. Draw(ls, S, amount)[k].amount = ls[k].amount - part
        /\ Draw(ls, S, amount)[k].type = ls[k].type
    BY <1>1, <2>5 DEF Lot
  <2>8. QED BY <1>1, <1>3, <2>4, <2>6, <2>7 DEF Lot
<1>4. QED BY <1>2, <1>3

\* Together they give the amount, or all that they hold.
LEMMA DrawnSum ==
  ASSUME NEW ls \in Seq(Lot), NEW S, S \subseteq DOMAIN ls, NEW amount \in Nat
  PROVE  /\ NatOn(Drawn(ls, S, amount), DOMAIN ls)
         /\ SumFunctionOnSet(Drawn(ls, S, amount), DOMAIN ls) = Lesser(amount, AmountOf(ls, S))
<1>1. PICK d : d = Drawn(ls, S, amount)
  OBVIOUS
<1>2. PICK f : f = Weights(Amounts, ls)
  OBVIOUS
<1>3. \A T : AmountOf(ls, T) = SumFunctionOnSet(f, T)
  BY <1>2, SumsAreMasses
<1>4. Len(ls) \in Nat /\ DOMAIN ls = 1 .. Len(ls)
  OBVIOUS
<1>5. \A T : T \subseteq DOMAIN ls => IsFiniteSet(T) /\ NatOn(f, T) /\ NatOn(d, T)
  <2>1. \A T : T \subseteq DOMAIN ls => IsFiniteSet(T) /\ NatOn(f, T)
    BY <1>2, WeightsType, WeighingAmounts
  <2>2. \A k \in DOMAIN ls : d[k] \in Nat
    BY <1>1, DrawParts
  <2>3. QED BY <2>1, <2>2 DEF NatOn
<1> DEFINE Level == {n \in Nat : n <= Len(ls) =>
                       SumFunctionOnSet(d, 1 .. n) =
                         Lesser(amount, SumFunctionOnSet(f, S \cap (1 .. n)))}
<1>6. 0 \in Level
  <2>1. 1 .. 0 = {} /\ S \cap (1 .. 0) = {}
    OBVIOUS
  <2>2. SumFunctionOnSet(d, {}) = 0 /\ SumFunctionOnSet(f, {}) = 0
    BY SumEmpty
  <2>3. Lesser(amount, 0) = 0
    BY DEF Lesser
  <2>4. QED BY <2>1, <2>2, <2>3
<1>7. ASSUME NEW n \in Nat, n \in Level PROVE n + 1 \in Level
  <2> SUFFICES ASSUME n + 1 <= Len(ls)
               PROVE  SumFunctionOnSet(d, 1 .. (n + 1)) =
                        Lesser(amount, SumFunctionOnSet(f, S \cap (1 .. (n + 1))))
    OBVIOUS
  <2>1. PICK k : k = n + 1
    OBVIOUS
  <2>2. PICK A : A = 1 .. k
    OBVIOUS
  <2>3. PICK B : B = 1 .. n
    OBVIOUS
  <2>4. /\ A \subseteq DOMAIN ls /\ B \subseteq DOMAIN ls /\ k \in A /\ A \ {k} = B
        /\ k \in DOMAIN ls /\ n <= Len(ls)
    BY <1>4, <2>1, <2>2, <2>3
  <2>5. SumFunctionOnSet(d, A) = d[k] + SumFunctionOnSet(d, B)
    BY <1>5, <2>4, SumAdd
  <2>6. SumFunctionOnSet(d, B) = Lesser(amount, SumFunctionOnSet(f, S \cap B))
    BY <1>7, <2>3, <2>4
  <2>7. IsFiniteSet(S \cap A) /\ NatOn(f, S \cap A) /\ IsFiniteSet(S \cap B) /\ NatOn(f, S \cap B)
    BY <1>5
  <2>8. PICK held : held = SumFunctionOnSet(f, S \cap B)
    OBVIOUS
  <2>9. held \in Nat
    BY <2>7, <2>8, SumNat
  <2>10. CASE k \in S
    <3>1. k \in S \cap A /\ (S \cap A) \ {k} = S \cap B
      BY <2>4, <2>10
    <3>2. SumFunctionOnSet(f, S \cap A) = f[k] + held
      BY <2>7, <2>8, <3>1, SumAdd
    <3>3. {j \in S : j < k} = S \cap B
      BY <1>4, <2>1, <2>3
    <3>4. ls[k] \in Lot /\ f[k] = ls[k].amount
      BY <1>2, <2>4 DEF Weights, Amounts
    <3>5. d[k] = Lesser(f[k], Greater(0, amount - held))
      BY <1>1, <1>3, <2>4, <2>8, <2>10, <3>3, <3>4 DEF Drawn
    <3>6. f[k] \in Nat
      BY <3>4 DEF Lot
    <3>7. d[k] + Lesser(amount, held) = Lesser(amount, f[k] + held)
      BY <2>9, <3>5, <3>6 DEF Lesser, Greater
    <3>8. QED BY <2>1, <2>2, <2>5, <2>6, <2>8, <3>2, <3>7
  <2>11. CASE k \notin S
    <3>1. S \cap A = S \cap B
      BY <2>4, <2>11
    <3>2. d[k] = 0
      BY <1>1, <2>4, <2>11 DEF Drawn
    <3>3. Lesser(amount, held) \in Nat
      BY <2>9 DEF Lesser
    <3>4. SumFunctionOnSet(d, A) = Lesser(amount, held)
      BY <2>5, <2>6, <2>8, <3>2, <3>3
    <3>5. SumFunctionOnSet(f, S \cap A) = held
      BY <2>8, <3>1
    <3>6. QED BY <2>1, <2>2, <3>4, <3>5
  <2>12. QED BY <2>10, <2>11
<1> HIDE DEF Level
<1>8. Len(ls) \in Level
  BY <1>4, <1>6, <1>7, NatSetInduction
<1>9. S \cap (1 .. Len(ls)) = S
  BY <1>4
<1>10. SumFunctionOnSet(d, 1 .. Len(ls)) = Lesser(amount, SumFunctionOnSet(f, S \cap (1 .. Len(ls))))
  BY <1>4, <1>8 DEF Level
<1>11. SumFunctionOnSet(d, DOMAIN ls) = Lesser(amount, AmountOf(ls, S))
  BY <1>3, <1>4, <1>9, <1>10
<1>12. NatOn(d, DOMAIN ls)
  BY <1>5
<1>13. QED BY <1>1, <1>11, <1>12

\* A release of no more than the lots of S hold, none of them floating, is sound.
LEMMA ReleaseIsSound ==
  ASSUME NEW ls \in Seq(Lot), NEW S, S \subseteq DOMAIN ls, NEW amount \in Nat \ {0},
         NEW day \in Int, \A k \in S : ls[k].type # "float", amount <= AmountOf(ls, S)
  PROVE  ReleaseSound(ls, S, Release(ls, S, amount, day))
<1>1. PICK drawn : drawn = Draw(ls, S, amount)
  OBVIOUS
<1>2. amount \in Int /\ amount \in Nat
  OBVIOUS
<1>3. drawn \in Seq(Lot) /\ DOMAIN drawn = DOMAIN ls
  <2>1. drawn \in [DOMAIN ls -> Lot]
    BY <1>1, <1>2, DrawType
  <2>2. DOMAIN ls = 1 .. Len(ls) /\ Len(ls) \in Nat
    OBVIOUS
  <2>3. QED BY <2>1, <2>2, FcnSeq
<1>4. PICK kept : kept = Compact(drawn)
  OBVIOUS
<1>5. kept \in Seq(Lot)
  BY <1>3, <1>4, CompactType
<1>6. PICK new : new = [type |-> "float", amount |-> amount, at |-> day, sealed |-> FALSE]
  OBVIOUS
<1>7. new \in Lot /\ Amounts[new] = amount /\ FloatAmounts[new] = amount
  BY <1>2, <1>6 DEF Lot, Amounts, FloatAmounts
<1>8. PICK r : r = Release(ls, S, amount, day)
  OBVIOUS
<1>9. r.lots = Append(kept, new) /\ r.amount = amount
  BY <1>1, <1>4, <1>6, <1>8 DEF Release
<1>10. r.lots \in Seq(Lot)
  BY <1>5, <1>7, <1>9
<1>11. /\ Mass(Amounts, r.lots) = Mass(Amounts, drawn) + amount
       /\ Mass(FloatAmounts, r.lots) = Mass(FloatAmounts, drawn) + amount
  BY <1>3, <1>4, <1>5, <1>7, <1>9, WeighingAmounts, MassAppend, MassCompact
<1>12. Mass(Amounts, ls) = Mass(Amounts, drawn) + amount
  <2>1. PICK d : d = Drawn(ls, S, amount)
    OBVIOUS
  <2>2. NatOn(d, DOMAIN ls) /\ SumFunctionOnSet(d, DOMAIN ls) = amount
    <3>1. AmountOf(ls, S) \in Nat
      BY AmountType
    <3>2. Lesser(amount, AmountOf(ls, S)) = amount
      BY <3>1 DEF Lesser
    <3>3. QED BY <1>2, <2>1, <3>2, DrawnSum
  <2>3. IsFiniteSet(DOMAIN ls) /\ NatOn(Weights(Amounts, drawn), DOMAIN ls)
    BY <1>3, WeightsType, WeighingAmounts
  <2>4. SplitOn(Weights(Amounts, ls), Weights(Amounts, drawn), d, DOMAIN ls)
    <3> SUFFICES ASSUME NEW k \in DOMAIN ls
                 PROVE  Weights(Amounts, ls)[k] = Weights(Amounts, drawn)[k] + d[k]
      BY DEF SplitOn
    <3>1. ls[k].amount = drawn[k].amount + d[k]
      BY <1>1, <1>2, <2>1, DrawParts
    <3>2. ls[k] \in Lot /\ drawn[k] \in Lot
      BY <1>3
    <3>3. QED BY <1>3, <3>1, <3>2 DEF Weights, Amounts
  <2>5. QED BY <1>3, <2>2, <2>3, <2>4, SumSplit DEF Mass
<1>13. Mass(FloatAmounts, ls) = Mass(FloatAmounts, drawn)
  <2> SUFFICES ASSUME NEW k \in DOMAIN ls
               PROVE  FloatAmounts[ls[k]] = FloatAmounts[drawn[k]]
    BY <1>3 DEF Mass, Weights
  <2>1. ls[k] \in Lot /\ drawn[k] \in Lot
    BY <1>3
  <2>2. drawn[k].type = ls[k].type /\ k \notin S => drawn[k] = ls[k]
    BY <1>1, <1>2, DrawParts
  <2>3. CASE k \notin S
    BY <1>1, <1>2, <2>3, DrawParts
  <2>4. CASE k \in S
    <3>1. ls[k].type # "float" /\ drawn[k].type = ls[k].type
      BY <1>1, <1>2, <2>4, DrawParts
    <3>2. QED BY <2>1, <3>1 DEF FloatAmounts
  <2>5. QED BY <2>3, <2>4
<1>14. Total(r.lots) = Total(ls) /\ TotalFloatHold(r.lots) = TotalFloatHold(ls) + r.amount
  BY <1>9, <1>10, <1>11, <1>12, <1>13, SumsAreMasses
<1>15. PICK others : others = [k \in DOMAIN ls |-> IF k \in S THEN [ls[k] EXCEPT !.amount = 0]
                                                  ELSE ls[k]]
  OBVIOUS
<1>16. ASSUME NEW k \in DOMAIN others, others[k].amount > 0
       PROVE  \E j \in DOMAIN r.lots : r.lots[j] = others[k]
  <2>1. k \in DOMAIN ls /\ ls[k] \in Lot
    BY <1>15
  <2>2. k \notin S
    <3>1. SUFFICES ASSUME k \in S PROVE FALSE
      OBVIOUS
    <3>2. others[k].amount = 0
      BY <1>15, <2>1, <3>1 DEF Lot
    <3>3. QED BY <1>16, <3>2
  <2>3. others[k] = ls[k] /\ drawn[k] = ls[k]
    BY <1>1, <1>2, <1>15, <2>1, <2>2, DrawParts
  <2>4. PICK j \in DOMAIN kept : kept[j] = ls[k]
    BY <1>3, <1>4, <1>16, <2>1, <2>3, CompactKeeps
  <2>5. j \in DOMAIN Append(kept, new) /\ Append(kept, new)[j] = ls[k]
    BY <1>5, <2>4
  <2>6. QED BY <1>9, <2>3, <2>5
<1>17. QED BY <1>8, <1>9, <1>14, <1>15, <1>16 DEF ReleaseSound

LEMMA NothingReleased == ASSUME NEW ls, NEW S PROVE ReleaseSound(ls, S, NoRelease(ls))
BY DEF ReleaseSound, NoRelease

\* SoftRelease moves what it says from unsealed lots that are old enough to a floating lot and
\* touches nothing else, for any slice of lots, day, price, equity and genes (lot.go).
THEOREM SoftSound ==
  ASSUME NEW ls \in Seq(Lot), NEW day \in Int, NEW p \in Nat \ {0}, NEW e \in Nat,
         NEW c, c.softReleaseMonths \in Int, c.deadHoldTarget \in Int,
         c.maxSoftReleasePct \in Int
  PROVE  ReleaseSound(ls, Aged(ls, day, c.softReleaseMonths), SoftRelease(ls, day, p, e, c))
<1> DEFINE S == Aged(ls, day, c.softReleaseMonths)
           amount == SoftAmount(ls, day, p, e, c)
<1>1. S \subseteq DOMAIN ls /\ \A k \in S : ls[k].type # "float"
  BY DEF Aged, Where, Releasable
<1>2. TotalDeadHold(ls) \in Nat
  BY AmountType DEF TotalDeadHold, Where
<1>3. AmountOf(ls, S) \in Nat
  BY <1>1, AmountType
<1>4. (c.deadHoldTarget * e) \div (200 * p) \in Int
  OBVIOUS
<1>5. (TotalDeadHold(ls) * c.maxSoftReleasePct) \div 100 \in Int
  BY <1>2
<1> HIDE DEF S
<1>6. amount \in Int /\ amount <= AmountOf(ls, S)
  BY <1>2, <1>3, <1>4, <1>5 DEF SoftAmount, S, Lesser
<1> HIDE DEF amount
<1>7. CASE amount <= 0
  <2>1. SoftRelease(ls, day, p, e, c) = NoRelease(ls)
    BY <1>7 DEF SoftRelease, amount
  <2>2. QED BY <2>1, NothingReleased
<1>8. CASE ~(amount <= 0)
  <2>1. amount \in Nat \ {0}
    BY <1>6, <1>8
  <2>2. SoftRelease(ls, day, p, e, c) \in {NoRelease(ls), Release(ls, S, amount, day)}
    BY DEF SoftRelease, amount, S
  <2>3. ReleaseSound(ls, S, Release(ls, S, amount, day))
    BY <1>1, <1>6, <2>1, ReleaseIsSound
  <2>4. QED BY <2>2, <2>3, NothingReleased DEF S
<1>9. QED BY <1>7, <1>8

\* HardRelease does the same with unsealed lots of any age, for any slice of lots and any
\* need (lot.go).
THEOREM HardSound ==
  ASSUME NEW ls \in Seq(Lot), NEW needed \in Int
  PROVE  ReleaseSound(ls, HardSource(ls), HardRelease(ls, needed))
<1> DEFINE S == HardSource(ls)
           amount == Lesser(needed, AmountOf(ls, S))
<1>1. S \subseteq DOMAIN ls /\ \A k \in S : ls[k].type # "float"
  BY DEF HardSource, Where, Releasable
<1>2. AmountOf(ls, S) \in Nat
  BY <1>1, AmountType
<1>3. amount \in Int /\ amount <= AmountOf(ls, S)
  BY <1>2 DEF Lesser
<1> HIDE DEF amount
<1>4. CASE amount <= 0
  <2>1. HardRelease(ls, needed) = NoRelease(ls)
    BY <1>4 DEF HardRelease, amount
  <2>2. QED BY <2>1, NothingReleased
<1>5. CASE ~(amount <= 0)
  <2>1. amount \in Nat \ {0}
    BY <1>3, <1>5
  <2>2. HardRelease(ls, needed) = Release(ls, S, amount, ls[1].at)
    BY <1>5 DEF HardRelease, amount
  <2>3. ls # <<>>
    <3>1. SUFFICES ASSUME ls = <<>> PROVE FALSE
      OBVIOUS
    <3>2. S = {}
      BY <1>1, <3>1
    <3>3. AmountOf(ls, S) = 0
      BY <3>2, SumEmpty DEF AmountOf
    <3>4. QED BY <1>3, <1>5, <3>3
  <2>4. ls[1].at \in Int
    <3>1. ls[1] \in Lot
      BY <2>3
    <3>2. QED BY <3>1 DEF Lot
  <2> HIDE DEF S
  <2>5. ReleaseSound(ls, S, Release(ls, S, amount, ls[1].at))
    BY <1>1, <1>3, <2>1, <2>4, ReleaseIsSound
  <2>6. QED BY <2>2, <2>5 DEF S
<1>6. QED BY <1>4, <1>5

-----------------------------------------------------------------------------
(* Step                                                                     *)

\* Clamped or not, a whole gene stays one.
LEMMA ClampType ==
  ASSUME NEW raw, \A f \in DOMAIN Bounds : raw[f] \in Int
  PROVE  ClampChromosome(raw) \in [DOMAIN Bounds -> Int]
<1>1. PICK b : b = InBounds(raw)
  OBVIOUS
<1>2. PICK o : o = OrderEmas(b)
  OBVIOUS
<1>3. b \in [DOMAIN Bounds -> Int]
  BY <1>1 DEF InBounds, Bounds, ClipTo
<1>4. o \in [DOMAIN Bounds -> Int]
  <2>1. b.emaShort + 1 \in Int
    BY <1>3 DEF Bounds
  <2>2. PICK b1 : b1 = [b EXCEPT !.emaShort = 199]
    OBVIOUS
  <2>3. PICK b2 : b2 = [b1 EXCEPT !.emaLong = 200]
    OBVIOUS
  <2>4. o \in {b, b2, [b EXCEPT !.emaLong = b.emaShort + 1]}
    BY <1>2, <2>2, <2>3, Zenon DEF OrderEmas
  <2>5. b1 \in [DOMAIN Bounds -> Int]
    BY <1>3, <2>2
  <2>6. QED BY <1>3, <2>1, <2>3, <2>4, <2>5
<1>5. o.microReserve \in Int /\ o.deadHoldTarget \in Int
  BY <1>4 DEF Bounds
<1> DEFINE half == (o.deadHoldTarget + o.microReserve - 190) \div 2
<1>6. half \in Int
  BY <1>5
<1>7. PICK m : m = IF o.microReserve - half < 10 THEN 10 ELSE o.microReserve - half
  OBVIOUS
<1>8. PICK d : d = IF o.deadHoldTarget - half < 20 THEN 20 ELSE o.deadHoldTarget - half
  OBVIOUS
<1>9. LimitReserves(o) \in {o, [o EXCEPT !.microReserve = m, !.deadHoldTarget = d]}
  BY <1>7, <1>8, Zenon DEF LimitReserves
<1> HIDE DEF half
<1>10. m \in Int /\ d \in Int
  BY <1>5, <1>6, <1>7, <1>8
<1>11. PICK c : c = [o EXCEPT !.microReserve = m, !.deadHoldTarget = d]
  OBVIOUS
<1>12. PICK G : G = DOMAIN Bounds
  OBVIOUS
<1>13. o \in [G -> Int] /\ "microReserve" \in G /\ "deadHoldTarget" \in G
  BY <1>4, <1>12 DEF Bounds
<1>14. c \in [G -> Int]
  BY <1>10, <1>11, <1>13, TwoFractions
<1>15. LimitReserves(o) \in [DOMAIN Bounds -> Int]
  BY <1>4, <1>9, <1>11, <1>12, <1>14
<1>16. QED BY <1>1, <1>2, <1>15 DEF ClampChromosome

\* What Step needs of the genes it reads.
Readable(c) ==
  /\ c.interval \in Int /\ c.accelMultiplier \in Int /\ c.softReleaseMonths \in Int
  /\ c.maxSoftReleasePct \in Int /\ c.deadHoldTarget \in Int /\ c.microReserve \in Int
  /\ c.inject \in Nat

LEMMA ChromosomeReadable ==
  ASSUME BacktestAssumption
  PROVE  Readable(Chromosome) /\ Chromosome.inject = Inject
<1>1. PICK c : c = ClampChromosome(Gene)
  OBVIOUS
<1>2. c \in [DOMAIN Bounds -> Int]
  BY <1>1, ClampType, BacktestAssumption
<1>3. DOMAIN c = DOMAIN Bounds
  BY <1>2
<1>4. Chromosome = [f \in DOMAIN Bounds \cup {"inject"} |-> IF f = "inject" THEN Inject ELSE c[f]]
  BY <1>1, <1>3 DEF Chromosome
<1>5. Inject \in Nat
  BY BacktestAssumption
<1>6. QED BY <1>2, <1>4, <1>5 DEF Readable, Bounds

\* The orders that the engines place.
LEMMA MacroType ==
  ASSUME NEW c, Readable(c), NEW days \in Int, NEW dilation \in Int, NEW dip \in BOOLEAN,
         NEW spendable \in Nat
  PROVE  MacroOrder(days, dilation, dip, spendable, c) \in Nat
<1>1. c.inject \in Nat /\ c.accelMultiplier \in Int
  BY DEF Readable
<1>2. Extra(dip, spendable, c) \in Int
  BY <1>1 DEF Extra, Lesser
<1>3. Clip(Extra(dip, spendable, c), 100, spendable) \in Int
  BY <1>2 DEF Clip
<1>4. \A x \in Int : AtLeast100(x) \in Nat
  BY DEF AtLeast100
<1>5. QED BY <1>1, <1>3, <1>4 DEF MacroOrder

LEMMA MicroType ==
  ASSUME NEW p, p.equity \in Nat, p.float \in Nat, NEW weight \in Nat,
         NEW quiet, NEW moving, NEW spendable \in Nat
  PROVE  MicroOrder(p, weight, quiet, moving, spendable) \in Int
<1>1. PICK t : t = Theoretical(p, weight)
  OBVIOUS
<1>2. t \in Int
  <2>1. weight * p.equity \in Nat
    OBVIOUS
  <2>2. (weight * p.equity) \div 4 \in Int
    BY <2>1
  <2>3. QED BY <1>1, <2>2 DEF Theoretical
<1>3. PICK order : order = WedgeFilter(t, p.equity, quiet, moving)
  OBVIOUS
<1>4. order \in Int
  BY <1>2, <1>3 DEF WedgeFilter
<1>5. AtLeast100(Lesser(order, spendable)) \in Int
  BY <1>4 DEF AtLeast100, Lesser
<1>6. QED BY <1>1, <1>3, <1>4, <1>5 DEF MicroOrder

\* The releases of Step: an amount, and as many lots as before.
LEMMA ReleasesType ==
  ASSUME NEW c, Readable(c), NEW p, p.equity \in Nat, NEW ls \in Seq(Lot), NEW day \in Int,
         NEW at \in Nat \ {0}, NEW micro \in Int
  PROVE  /\ Releases(p, ls, day, at, micro, c).amount \in Nat
         /\ Releases(p, ls, day, at, micro, c).seen \in Seq(Lot)
<1>1. PICK soft : soft = SoftRelease(ls, day, at, p.equity, c)
  OBVIOUS
<1>2. IsRelease(soft, ls)
  BY <1>1, SoftType DEF Readable
<1>3. PICK needed : needed = (-micro) \div at
  OBVIOUS
<1>4. needed \in Int
  BY <1>3
<1>5. PICK hard : hard = IF micro < 0 /\ TotalFloatHold(soft.seen) < needed
                         THEN HardRelease(soft.seen, needed) ELSE NoRelease(soft.seen)
  OBVIOUS
<1>6. CASE ls = <<>>
  BY <1>6 DEF Releases, NoRelease
<1>7. CASE ls # <<>>
  <2>1. soft.seen \in Seq(Lot) /\ soft.seen # <<>>
    BY <1>2, <1>7 DEF IsRelease
  <2>2. IsRelease(HardRelease(soft.seen, needed), soft.seen)
    BY <1>4, <2>1, HardType
  <2>3. IsRelease(NoRelease(soft.seen), soft.seen)
    BY <2>1 DEF NoRelease, IsRelease
  <2>4. IsRelease(hard, soft.seen)
    BY <1>5, <2>2, <2>3
  <2>5. Reported(soft.amount, hard.amount) \in Nat
    BY <1>2, <2>4 DEF Reported, IsRelease
  <2>6. PICK r : r = [amount |-> Reported(soft.amount, hard.amount), seen |-> hard.seen]
    OBVIOUS
  <2>7. Releases(p, ls, day, at, micro, c) \in {NoRelease(ls), r}
    BY <1>1, <1>3, <1>5, <2>6, Zenon DEF Releases
  <2>8. r.amount \in Nat /\ r.seen \in Seq(Lot)
    BY <2>4, <2>5, <2>6 DEF IsRelease
  <2>9. NoRelease(ls).amount \in Nat /\ NoRelease(ls).seen \in Seq(Lot)
    BY DEF NoRelease
  <2>10. QED BY <2>7, <2>8, <2>9
<1>8. QED BY <1>6, <1>7

\* What Step is given and what it returns.
InputOK(in) ==
  /\ in.portfolio.cash \in Nat /\ in.portfolio.float \in Nat /\ in.portfolio.equity \in Nat
  /\ in.lots \in Seq(Lot) /\ in.day \in Nat /\ in.bars \in Nat /\ in.price \in Nat \ {0}
  /\ in.lastMacro \in 0 .. in.day

OutputOK(o, in) ==
  /\ o.macro \in Nat /\ o.micro \in Int /\ o.spendable \in Nat /\ o.target \in Nat
  /\ o.release \in Nat /\ o.lots \in Seq(Lot) /\ o.lastMacro \in 0 .. in.day

LEMMA StepType ==
  ASSUME BacktestAssumption, NEW in, InputOK(in), NEW c, Readable(c), NEW s \in Signals
  PROVE  OutputOK(Step(in, s, c), in)
<1>1. OutputOK(NoDecision(in), in)
  BY DEF OutputOK, InputOK, NoDecision
<1>2. OutputOK(Decision(in, s, c), in)
  <2>1. PICK market : market = MarketState(in.bars, s.vol, s.up)
    OBVIOUS
  <2>2. market.dilation \in Int
    BY <2>1 DEF MarketState, Quiet, Bull, Bear, Panic
  <2>3. PICK spendable : spendable = Spendable(in.portfolio, c)
    OBVIOUS
  <2>4. spendable \in Nat
    <3>1. in.portfolio.equity * c.microReserve \in Int
      BY DEF InputOK, Readable
    <3>2. (in.portfolio.equity * c.microReserve) \div 200 \in Int
      BY <3>1
    <3>3. QED BY <2>3, <3>2 DEF Spendable, Greater, InputOK
  <2>5. PICK macro : macro = IF spendable >= 100 \/ c.inject >= 100
                             THEN MacroOrder(DaysSince(in.day, in.lastMacro), market.dilation,
                                             s.dip, spendable, c)
                             ELSE 0
    OBVIOUS
  <2>6. macro \in Nat
    <3>1. DaysSince(in.day, in.lastMacro) \in Int
      BY DEF DaysSince, InputOK
    <3>2. s.dip \in BOOLEAN
      BY DEF Signals
    <3>3. MacroOrder(DaysSince(in.day, in.lastMacro), market.dilation, s.dip, spendable, c) \in Nat
      BY <2>2, <2>4, <3>1, <3>2, MacroType
    <3>4. QED BY <2>5, <3>3
  <2>7. s.weight \in Nat
    <3>1. s.weight \in Weight
      BY DEF Signals
    <3>2. Weight \subseteq 0 .. 4
      BY BacktestAssumption
    <3>3. s.weight \in 0 .. 4
      BY <3>1, <3>2
    <3>4. QED BY <3>3
  <2>8. PICK micro : micro = MicroOrder(in.portfolio, s.weight, market.quiet, s.moving, spendable)
    OBVIOUS
  <2>9. micro \in Int
    BY <2>4, <2>7, <2>8, MicroType DEF InputOK
  <2>10. PICK release : release = Releases(in.portfolio, in.lots, in.day, in.price, micro, c)
    OBVIOUS
  <2>11. release.amount \in Nat /\ release.seen \in Seq(Lot)
    <3>1. in.day \in Int
      BY DEF InputOK
    <3>2. QED BY <2>9, <2>10, <3>1, ReleasesType DEF InputOK
  <2>12. PICK target : target = (s.weight * in.portfolio.equity) \div 4
    OBVIOUS
  <2>13. target \in Nat
    <3>1. s.weight * in.portfolio.equity \in Nat
      BY <2>7 DEF InputOK
    <3>2. QED BY <2>12, <3>1
  <2>14. PICK last : last = IF macro > 0 THEN in.day ELSE in.lastMacro
    OBVIOUS
  <2>15. last \in 0 .. in.day
    BY <2>14 DEF InputOK
  <2>16. Decision(in, s, c) =
           [macro |-> macro, micro |-> micro, spendable |-> spendable, target |-> target,
            release |-> release.amount, lots |-> release.seen, lastMacro |-> last]
    BY <2>1, <2>3, <2>5, <2>8, <2>10, <2>12, <2>14, Zenon DEF Decision
  <2>17. QED BY <2>4, <2>6, <2>9, <2>11, <2>13, <2>15, <2>16 DEF OutputOK
<1>3. QED BY <1>1, <1>2 DEF Step

-----------------------------------------------------------------------------
(* Types                                                                    *)

USE BacktestAssumption

\* Whole parts of a product.
LEMMA ShareOf ==
  ASSUME NEW x \in Nat, NEW pct \in 0 .. 199
  PROVE  /\ (x * pct) \div 100 \in Nat
         /\ pct >= 100 => (x * pct) \div 100 >= x
         /\ pct <= 100 => (x * pct) \div 100 <= x
<1>1. x * pct \in Nat
  OBVIOUS
<1>2. PICK y : y = x * pct
  OBVIOUS
<1>3. pct >= 100 => y >= x * 100
  BY <1>2
<1>4. pct <= 100 => y <= x * 100
  BY <1>2
<1>5. y \in Nat /\ 100 * x = x * 100
  BY <1>1, <1>2
<1>6. /\ y \div 100 \in Nat
      /\ y >= x * 100 => y \div 100 >= x
      /\ y <= x * 100 => y \div 100 <= x
  BY <1>5
<1>7. QED BY <1>2, <1>3, <1>4, <1>6

\* Fees: a purchase costs at least what it is worth, a sale brings at most that.
LEMMA Fees ==
  ASSUME price \in Price, NEW n \in Nat
  PROVE  /\ n * price \in Nat
         /\ Cost(n) \in Nat /\ Cost(n) >= n * price
         /\ Proceeds(n) \in Nat /\ Proceeds(n) <= n * price
<1>1. price \in Nat
  OBVIOUS
<1>2. PICK x : x = n * price
  OBVIOUS
<1>3. x \in Nat
  BY <1>1, <1>2
<1>4. 100 + FeePct \in 0 .. 199 /\ 100 + FeePct >= 100
  OBVIOUS
<1>5. 100 - FeePct \in 0 .. 199 /\ 100 - FeePct <= 100
  OBVIOUS
<1>6. Cost(n) = (x * (100 + FeePct)) \div 100 /\ Proceeds(n) = (x * (100 - FeePct)) \div 100
  BY <1>2 DEF Cost, Proceeds
<1>7. /\ (x * (100 + FeePct)) \div 100 \in Nat
      /\ (x * (100 + FeePct)) \div 100 >= x
  BY <1>3, <1>4, ShareOf, Zenon
<1>8. /\ (x * (100 - FeePct)) \div 100 \in Nat
      /\ (x * (100 - FeePct)) \div 100 <= x
  BY <1>3, <1>5, ShareOf, Zenon
<1>9. QED BY <1>2, <1>3, <1>6, <1>7, <1>8

LEMMA SharesType ==
  ASSUME price \in Price, NEW amount \in Nat
  PROVE  Shares(amount) \in Nat
<1>1. PICK unit : unit = price * LotStep
  OBVIOUS
<1>2. unit \in Nat \ {0}
  BY <1>1
<1>3. amount \div unit \in Nat
  BY <1>2
<1>4. (amount \div unit) * LotStep \in Nat
  BY <1>3
<1>5. QED BY <1>1, <1>4 DEF Shares

\* What a portfolio is worth after so many shares more, or fewer.
LEMMA MoreShares ==
  ASSUME NEW p \in Nat, NEW h \in Nat, NEW n \in Nat
  PROVE  /\ (h + n) * p = h * p + n * p
         /\ (h - n) * p = h * p - n * p
OBVIOUS

\* The portfolio after an order.
Books(p) == p.cash \in Nat /\ p.dead \in Nat /\ p.float \in Nat /\ p.bought \in Nat
Worth(p) == p.cash + (p.dead + p.float) * price

LEMMA MacroTraded ==
  ASSUME Typed
  PROVE  Books(AfterMacro) /\ Worth(AfterMacro) <= cash + (dead + float) * price
<1>1. PICK n : n = Shares(out.macro)
  OBVIOUS
<1>2. n \in Nat /\ price \in Price /\ price \in Nat
  <2>1. out.macro \in Nat /\ price \in Price
    BY DEF Typed, Output
  <2>2. QED BY <1>1, <2>1, SharesType
<1>3. Cost(n) \in Nat /\ Cost(n) >= n * price /\ n * price \in Nat
  BY <1>2, Fees
<1>4. PICK k : k = Cost(n)
  OBVIOUS
<1>5. cash \in Nat /\ dead \in Nat /\ float \in Nat
  BY DEF Typed
<1>6. (dead + n + float) * price = (dead + float) * price + n * price
  BY <1>2, <1>5
<1>7. (dead + float) * price \in Nat
  BY <1>2, <1>5
<1>8. CASE n > 0 /\ cash >= k
  <2>1. AfterMacro = [cash |-> cash - k, dead |-> dead + n, float |-> float, bought |-> n]
    BY <1>1, <1>4, <1>8 DEF AfterMacro
  <2>2. Books(AfterMacro)
    BY <1>2, <1>3, <1>4, <1>5, <1>8, <2>1 DEF Books
  <2>3. Worth(AfterMacro) = cash - k + (dead + n + float) * price
    BY <2>1 DEF Worth
  <2>4. PICK held, more : held = (dead + float) * price /\ more = n * price
    OBVIOUS
  <2>5. Worth(AfterMacro) = cash - k + (held + more)
    BY <1>6, <2>3, <2>4
  <2>6. held \in Nat /\ more \in Nat /\ k \in Nat /\ k >= more
    BY <1>3, <1>4, <1>7, <2>4
  <2>7. Worth(AfterMacro) <= cash + held
    BY <1>5, <2>5, <2>6
  <2>8. QED BY <2>2, <2>4, <2>7
<1>9. CASE ~(n > 0 /\ cash >= k)
  <2>1. AfterMacro = [cash |-> cash, dead |-> dead, float |-> float, bought |-> 0]
    BY <1>1, <1>4, <1>9 DEF AfterMacro
  <2>2. Books(AfterMacro)
    BY <1>5, <2>1 DEF Books
  <2>3. Worth(AfterMacro) = cash + (dead + float) * price
    BY <2>1 DEF Worth
  <2>4. QED BY <1>5, <1>7, <2>2, <2>3
<1>10. QED BY <1>8, <1>9

LEMMA MicroTraded ==
  ASSUME Typed, NEW p \in [cash : Nat, dead : Nat, float : Nat, bought : Nat]
  PROVE  Books(AfterMicro(p)) /\ Worth(AfterMicro(p)) <= Worth(p)
<1>1. PICK n : n = Shares(Abs(out.micro))
  OBVIOUS
<1>2. n \in Nat /\ price \in Price /\ price \in Nat
  <2>1. out.micro \in Int /\ price \in Price
    BY DEF Typed, Output
  <2>2. Abs(out.micro) \in Nat
    BY <2>1 DEF Abs
  <2>3. QED BY <1>1, <2>1, <2>2, SharesType
<1>3. /\ Cost(n) \in Nat /\ Cost(n) >= n * price /\ n * price \in Nat
      /\ Proceeds(n) \in Nat /\ Proceeds(n) <= n * price
  BY <1>2, Fees
<1>4. (p.dead + p.float) * price \in Nat
  BY <1>2
<1>5. CASE out.micro > 0 /\ CanBuy(p, n)
  <2>1. AfterMicro(p) = [p EXCEPT !.cash = p.cash - Cost(n), !.float = p.float + n]
    BY <1>1, <1>5, Zenon DEF AfterMicro
  <2>2. p.cash >= Cost(n)
    BY <1>5 DEF CanBuy
  <2>3. PICK q : q = AfterMicro(p)
    OBVIOUS
  <2>4. q.cash = p.cash - Cost(n) /\ q.float = p.float + n /\ q.dead = p.dead
        /\ q.bought = p.bought
    BY <2>1, <2>3
  <2>5. Books(q)
    BY <1>2, <1>3, <2>2, <2>4 DEF Books
  <2>6. (p.dead + (p.float + n)) * price = (p.dead + p.float) * price + n * price
    BY <1>2
  <2>7. QED BY <1>3, <1>4, <2>3, <2>4, <2>5, <2>6 DEF Worth
<1>6. CASE ~(out.micro > 0 /\ CanBuy(p, n)) /\ out.micro < 0 /\ n > 0 /\ p.float >= n
  <2>1. AfterMicro(p) = [p EXCEPT !.cash = p.cash + Proceeds(n), !.float = p.float - n]
    BY <1>1, <1>6, Zenon DEF AfterMicro
  <2>2. PICK q : q = AfterMicro(p)
    OBVIOUS
  <2>3. q.cash = p.cash + Proceeds(n) /\ q.float = p.float - n /\ q.dead = p.dead
        /\ q.bought = p.bought
    BY <2>1, <2>2
  <2>4. Books(q)
    BY <1>2, <1>3, <1>6, <2>3 DEF Books
  <2>5. (p.dead + (p.float - n)) * price = (p.dead + p.float) * price - n * price
    BY <1>2
  <2>6. QED BY <1>3, <1>4, <2>2, <2>3, <2>4, <2>5 DEF Worth
<1>7. CASE ~(out.micro > 0 /\ CanBuy(p, n)) /\ ~(out.micro < 0 /\ n > 0 /\ p.float >= n)
  <2>1. AfterMicro(p) = p
    BY <1>1, <1>7, Zenon DEF AfterMicro
  <2>2. QED BY <1>4, <2>1 DEF Books, Worth
<1>8. QED BY <1>5, <1>6, <1>7

\* Days grow with the bars.
LEMMA DaysGrow ==
  ASSUME NEW b \in Nat, NEW m \in Nat, b <= m
  PROVE  /\ b * BarDays \in Nat /\ (b + 1) * BarDays \in Nat
         /\ b * BarDays <= (b + 1) * BarDays
         /\ b * BarDays <= m * BarDays
<1>1. BarDays \in Nat /\ m - b \in Nat /\ m = b + (m - b)
  OBVIOUS
<1>2. (b + 1) * BarDays = b * BarDays + BarDays
  BY <1>1
<1>3. m * BarDays = b * BarDays + (m - b) * BarDays
  BY <1>1
<1>4. b * BarDays \in Nat /\ (m - b) * BarDays \in Nat
  BY <1>1
<1>5. QED BY <1>1, <1>2, <1>3, <1>4

\* What Step returns for the bar that arrives.
LEMMA Decided ==
  ASSUME Typed, NEW p \in Price, NEW s \in Signals
  PROVE  InputOK(Input(p)) /\ OutputOK(Step(Input(p), s, Chromosome), Input(p))
<1>1. PICK in : in = Input(p)
  OBVIOUS
<1>2. bar \in Nat
  BY DEF Typed
<1>3. (bar + 1) * BarDays \in Nat /\ bar * BarDays \in Nat
      /\ bar * BarDays <= (bar + 1) * BarDays
  BY <1>2, DaysGrow
<1>4. lastMacro \in 0 .. (bar + 1) * BarDays
  BY <1>3 DEF Typed
<1>5. p \in Nat \ {0}
  OBVIOUS
<1>6. InputOK(in)
  BY <1>1, <1>2, <1>3, <1>4, <1>5 DEF InputOK, Input, Typed
<1>7. QED BY <1>1, <1>6, ChromosomeReadable, StepType

LEMMA DecideTyped ==
  ASSUME Typed, NEW p \in Price, NEW s \in Signals, DecideBar(p, s)
  PROVE  Typed'
<1>1. PICK o : o = Step(Input(p), s, Chromosome)
  OBVIOUS
<1>2. OutputOK(o, Input(p))
  BY <1>1, Decided
<1>3. /\ phase = "step" /\ bar < MaxBar /\ phase' = "trade" /\ bar' = bar + 1 /\ price' = p
      /\ out' = [f \in DOMAIN out |-> o[f]] /\ lots' = o.lots /\ lastMacro' = o.lastMacro
      /\ UNCHANGED <<cash, dead, float, equity, peak, maxDD, curve>>
  BY <1>1 DEF DecideBar
<1>4. out' \in Output
  BY <1>2, <1>3 DEF Typed, Output, OutputOK
<1>5. lots' \in Seq(Lot)
  BY <1>2, <1>3 DEF OutputOK
<1>6. lastMacro' \in 0 .. bar' * BarDays
  BY <1>2, <1>3 DEF OutputOK, Input
<1>7. bar' \in 0 .. MaxBar
  BY <1>3 DEF Typed
<1>8. curve' \in Seq(Nat) /\ Len(curve') = IF phase' = "trade" THEN bar' - 1 ELSE bar'
  BY <1>3 DEF Typed
<1>9. QED BY <1>3, <1>4, <1>5, <1>6, <1>7, <1>8 DEF Typed

\* The portfolio and its value after both orders.
LEMMA Traded ==
  ASSUME Typed
  PROVE  /\ Books(AfterMicro(AfterMacro))
         /\ Worth(AfterMicro(AfterMacro)) \in Nat
         /\ Worth(AfterMicro(AfterMacro)) <= cash + (dead + float) * price
<1>1. PICK m : m = AfterMacro
  OBVIOUS
<1>2. Books(m) /\ Worth(m) <= cash + (dead + float) * price
  BY <1>1, MacroTraded
<1>3. m \in [cash : Nat, dead : Nat, float : Nat, bought : Nat]
  <2>1. \E a, b, c, d : m = [cash |-> a, dead |-> b, float |-> c, bought |-> d]
    BY <1>1 DEF AfterMacro
  <2>2. QED BY <1>2, <2>1 DEF Books
<1>4. PICK q : q = AfterMicro(m)
  OBVIOUS
<1>5. Books(q) /\ Worth(q) <= Worth(m)
  BY <1>3, <1>4, MicroTraded
<1>6. price \in Nat /\ cash \in Nat /\ dead \in Nat /\ float \in Nat
  BY DEF Typed
<1>7. Worth(q) \in Nat /\ Worth(m) \in Nat /\ cash + (dead + float) * price \in Nat
  <2>1. (q.dead + q.float) * price \in Nat /\ (m.dead + m.float) * price \in Nat
        /\ (dead + float) * price \in Nat
    BY <1>2, <1>5, <1>6 DEF Books
  <2>2. QED BY <1>2, <1>5, <1>6, <2>1 DEF Books, Worth
<1>8. QED BY <1>1, <1>2, <1>4, <1>5, <1>7

LEMMA TradeTyped ==
  ASSUME Typed, Trade
  PROVE  Typed'
<1>1. PICK q : q = AfterMicro(AfterMacro)
  OBVIOUS
<1>2. PICK value : value = Worth(q)
  OBVIOUS
<1>3. Books(q) /\ value \in Nat
  BY <1>1, <1>2, Traded
<1>4. PICK top : top = NextPeak(value)
  OBVIOUS
<1>5. top \in Nat \ {0} /\ top >= value
  BY <1>3, <1>4 DEF NextPeak, Greater, Typed
<1>6. /\ phase = "trade" /\ phase' = "step" /\ cash' = q.cash /\ dead' = q.dead
      /\ float' = q.float /\ equity' = value /\ peak' = top
      /\ lots' = IF q.bought = 0 THEN lots
                 ELSE Append(lots, [type |-> "dead", amount |-> q.bought, at |-> bar * BarDays,
                                    sealed |-> FALSE])
      /\ maxDD' = IF (top - value) * maxDD.den > maxDD.num * top
                  THEN [num |-> top - value, den |-> top] ELSE maxDD
      /\ curve' = Append(curve, value)
      /\ UNCHANGED <<bar, price, lastMacro, out>>
  BY <1>1, <1>2, <1>4 DEF Trade, Worth
<1>7. lots' \in Seq(Lot)
  <2>1. bar \in Nat
    BY DEF Typed
  <2>2. bar * BarDays \in Int
    BY <2>1
  <2>3. [type |-> "dead", amount |-> q.bought, at |-> bar * BarDays, sealed |-> FALSE] \in Lot
    BY <1>3, <2>2 DEF Lot, Books
  <2>4. QED BY <1>6, <2>3 DEF Typed
<1>8. maxDD' \in [num : Nat, den : Nat \ {0}]
  <2>1. [num |-> top - value, den |-> top] \in [num : Nat, den : Nat \ {0}]
    BY <1>3, <1>5
  <2>2. QED BY <1>6, <2>1 DEF Typed
<1>9. curve' \in Seq(Nat) /\ Len(curve') = Len(curve) + 1
  BY <1>3, <1>6 DEF Typed
<1>10. cash' \in Nat /\ dead' \in Nat /\ float' \in Nat /\ equity' \in Nat
  BY <1>3, <1>6 DEF Books
<1>11. Len(curve') = bar'
  BY <1>6, <1>9 DEF Typed
<1>12. QED BY <1>5, <1>6, <1>7, <1>8, <1>9, <1>10, <1>11 DEF Typed

\* The types are an inductive invariant.
LEMMA TypedInit == Init => Typed
<1> SUFFICES ASSUME Init PROVE Typed
  OBVIOUS
<1>1. lastMacro \in 0 .. bar * BarDays
  BY DEF Init
<1>2. QED BY <1>1 DEF Init, Typed, Output

LEMMA TypedStep == Typed /\ [Next]_vars => Typed'
<1> SUFFICES ASSUME Typed, [Next]_vars PROVE Typed'
  OBVIOUS
<1>1. ASSUME NEW p \in Price, NEW s \in Signals, DecideBar(p, s) PROVE Typed'
  BY <1>1, DecideTyped
<1>2. CASE Trade
  BY <1>2, TradeTyped
<1>3. CASE UNCHANGED vars
  BY <1>3 DEF vars, Typed
<1>4. QED BY <1>1, <1>2, <1>3 DEF Next

\* TypeOK: whatever the signals, cash and holdings are never negative and releases leave lots
\* (adapter.go; step.go; lot.go).
THEOREM Typing == Spec => []TypeOK
<1>1. Typed => TypeOK
  <2> SUFFICES ASSUME Typed PROVE TypeOK
    OBVIOUS
  <2>1. lastMacro \in 0 .. MaxBar * BarDays
    <3>1. bar \in Nat /\ MaxBar \in Nat /\ bar <= MaxBar
      BY DEF Typed
    <3>2. bar * BarDays <= MaxBar * BarDays /\ bar * BarDays \in Nat /\ MaxBar * BarDays \in Nat
      BY <3>1, DaysGrow
    <3>3. QED BY <3>2 DEF Typed
  <2>2. \A k \in DOMAIN lots : lots[k].type \in {"dead", "float"} /\ lots[k].amount \in Nat
    <3> SUFFICES ASSUME NEW k \in DOMAIN lots
                 PROVE  lots[k].type \in {"dead", "float"} /\ lots[k].amount \in Nat
      OBVIOUS
    <3>1. lots[k] \in Lot
      BY DEF Typed
    <3>2. QED BY <3>1 DEF Lot
  <2>3. Len(curve) <= MaxBar
    BY DEF Typed
  <2>4. QED BY <2>1, <2>2, <2>3 DEF Typed, TypeOK, Output
<1>2. QED BY <1>1, TypedInit, TypedStep, PTL DEF Spec

\* ReleasesSound: whichever lots are sealed, in the slice they return both releases have moved
\* what they say, taken nothing sealed or too young, and left every other lot as it is (lot.go,
\* SoftRelease and HardRelease).  What the slice of their caller shows is no part of it.
THEOREM SoundReleases == Spec => []ReleasesSound
<1>1. Typed => ReleasesSound
  <2> SUFFICES ASSUME Typed PROVE ReleasesSound
    OBVIOUS
  <2>1. PICK day : day = bar * BarDays
    OBVIOUS
  <2>2. PICK c : c = Chromosome
    OBVIOUS
  <2>3. /\ day \in Int /\ price \in Nat \ {0} /\ equity \in Nat /\ dead \in Int
        /\ c.softReleaseMonths \in Int /\ c.deadHoldTarget \in Int /\ c.maxSoftReleasePct \in Int
    <3>1. bar \in Nat /\ BarDays \in Nat
      BY DEF Typed
    <3>2. bar * BarDays \in Int
      BY <3>1
    <3>3. QED BY <2>1, <2>2, <3>2, ChromosomeReadable DEF Typed, Readable
  <2>4. ASSUME NEW sealed \in SUBSET DOMAIN lots,
               NEW ls, ls = [k \in DOMAIN lots |-> [lots[k] EXCEPT !.sealed = k \in sealed]]
        PROVE  LET Unsealed == {k \in DOMAIN ls : ls[k].type = "dead" /\ k \notin sealed}
                   Old == {k \in Unsealed : ls[k].at < day - 30 * c.softReleaseMonths}
               IN  /\ ReleaseSound(ls, Old, SoftRelease(ls, day, price, equity, c))
                   /\ \A n \in {1, LotStep, dead} : ReleaseSound(ls, Unsealed, HardRelease(ls, n))
    <3> DEFINE Unsealed == {k \in DOMAIN ls : ls[k].type = "dead" /\ k \notin sealed}
               Old == {k \in Unsealed : ls[k].at < day - 30 * c.softReleaseMonths}
    <3>1. lots \in Seq(Lot)
      BY DEF Typed
    <3>2. \A k \in DOMAIN lots : ls[k] \in Lot /\ (ls[k].sealed <=> k \in sealed)
      <4> SUFFICES ASSUME NEW k \in DOMAIN lots
                   PROVE  ls[k] \in Lot /\ (ls[k].sealed <=> k \in sealed)
        OBVIOUS
      <4>1. lots[k] \in Lot
        BY <3>1
      <4>2. ls[k] = [lots[k] EXCEPT !.sealed = k \in sealed]
        BY <2>4
      <4>3. PICK b \in BOOLEAN : b = (k \in sealed)
        <5>1. CASE k \in sealed
          BY <5>1, TRUE = (k \in sealed), Zenon
        <5>2. CASE k \notin sealed
          BY <5>2, FALSE = (k \in sealed), Zenon
        <5>3. QED BY <5>1, <5>2
      <4>4. ls[k] = [lots[k] EXCEPT !.sealed = b]
        BY ONLY <4>2, <4>3, Zenon
      <4>5. ls[k] \in Lot
        BY ONLY <4>1, <4>3, <4>4 DEF Lot
      <4>6. ls[k].sealed = b
        BY ONLY <4>1, <4>4 DEF Lot
      <4>7. QED BY ONLY <4>3, <4>5, <4>6, Zenon
    <3>3. ls \in [DOMAIN lots -> Lot]
      BY <2>4, <3>2
    <3>4. ls \in Seq(Lot)
      <4>1. DOMAIN lots = 1 .. Len(lots) /\ Len(lots) \in Nat
        BY <3>1
      <4>2. QED BY <3>3, <4>1, FcnSeq
    <3>5. Unsealed = HardSource(ls)
      BY <3>2, <3>3 DEF HardSource, Where, Releasable
    <3>6. Old = Aged(ls, day, c.softReleaseMonths)
      BY <3>2, <3>3 DEF Aged, Where, Releasable
    <3>7. \A n \in {1, LotStep, dead} : n \in Int
      BY <2>3
    <3>8. \A n \in {1, LotStep, dead} : ReleaseSound(ls, HardSource(ls), HardRelease(ls, n))
      BY <3>4, <3>7, HardSound
    <3>9. ReleaseSound(ls, Aged(ls, day, c.softReleaseMonths), SoftRelease(ls, day, price, equity, c))
      BY <2>3, <3>4, SoftSound
    <3>10. QED BY <3>5, <3>6, <3>8, <3>9
  <2>5. ASSUME NEW sealed \in SUBSET DOMAIN lots
        PROVE  LET ls == [k \in DOMAIN lots |-> [lots[k] EXCEPT !.sealed = k \in sealed]]
                   Unsealed == {k \in DOMAIN ls : ls[k].type = "dead" /\ k \notin sealed}
                   Old == {k \in Unsealed : ls[k].at < day - 30 * c.softReleaseMonths}
               IN  /\ ReleaseSound(ls, Old, SoftRelease(ls, day, price, equity, c))
                   /\ \A n \in {1, LotStep, dead} : ReleaseSound(ls, Unsealed, HardRelease(ls, n))
    <3>1. PICK ls : ls = [k \in DOMAIN lots |-> [lots[k] EXCEPT !.sealed = k \in sealed]]
      OBVIOUS
    <3>2. QED BY ONLY <2>4, <3>1, Zenon
  <2>6. QED BY ONLY <2>1, <2>2, <2>5, Zenon DEF ReleasesSound
<1>2. QED BY <1>1, TypedInit, TypedStep, PTL DEF Spec

\* NoFreeLunch: at the price of the bar the orders make nothing (adapter.go, executeMacro and
\* executeMicro).
THEOREM NothingMade == Spec => NoFreeLunch
<1>1. Typed /\ [Next]_vars =>
        [phase = "trade" =>
           cash' + (dead' + float') * price <= cash + (dead + float) * price]_vars
  <2> SUFFICES ASSUME Typed, Next, phase = "trade"
               PROVE  cash' + (dead' + float') * price <= cash + (dead + float) * price
    OBVIOUS
  <2>1. Trade
    BY DEF Next, DecideBar
  <2>2. PICK q : q = AfterMicro(AfterMacro)
    OBVIOUS
  <2>3. cash' = q.cash /\ dead' = q.dead /\ float' = q.float
    BY <2>1, <2>2 DEF Trade
  <2>4. Worth(q) <= cash + (dead + float) * price
    BY <2>2, Traded
  <2>5. QED BY <2>3, <2>4 DEF Worth
<1>2. QED BY <1>1, TypedInit, TypedStep, PTL DEF Spec, NoFreeLunch

-----------------------------------------------------------------------------
(* Money that has piled up                                                  *)

\* A macro order when more than three injections of at least 100 can be spent.
LEMMA OrderForced ==
  ASSUME NEW c, Readable(c), c.inject >= 100, NEW days \in Int, NEW dilation \in Int,
         NEW dip \in BOOLEAN, NEW spendable \in Nat, spendable > 3 * c.inject
  PROVE  MacroOrder(days, dilation, dip, spendable, c) >= 100
<1>1. c.inject \in Nat /\ c.accelMultiplier \in Int
  BY DEF Readable
<1>2. AtLeast100(c.inject) >= 100
  BY <1>1 DEF AtLeast100
<1>3. PICK x : x = Clip(Extra(dip, spendable, c), 100, spendable)
  OBVIOUS
<1>4. Extra(dip, spendable, c) \in Int
  BY <1>1 DEF Extra, Lesser
<1>5. x \in Int /\ x >= 100
  BY <1>1, <1>3, <1>4 DEF Clip
<1>6. AtLeast100(x) >= 100
  BY <1>5 DEF AtLeast100
<1>7. QED BY <1>2, <1>3, <1>6 DEF MacroOrder

LEMMA StepForced ==
  ASSUME NEW in, InputOK(in), NEW c, Readable(c), c.inject >= 100, NEW s \in Signals,
         Step(in, s, c).spendable > 3 * c.inject
  PROVE  Step(in, s, c).macro >= 100
<1>1. PICK o : o = Step(in, s, c)
  OBVIOUS
<1>2. CASE in.bars < MinBars(c)
  <2>1. o.spendable = 0
    BY <1>1, <1>2 DEF Step, NoDecision
  <2>2. QED BY <1>1, <2>1 DEF Readable
<1>3. CASE ~(in.bars < MinBars(c))
  <2>1. PICK market : market = MarketState(in.bars, s.vol, s.up)
    OBVIOUS
  <2>2. market.dilation \in Int
    BY <2>1 DEF MarketState, Quiet, Bull, Bear, Panic
  <2>3. PICK spendable : spendable = Spendable(in.portfolio, c)
    OBVIOUS
  <2>4. /\ o.spendable = spendable
        /\ o.macro = IF spendable >= 100 \/ c.inject >= 100
                     THEN MacroOrder(DaysSince(in.day, in.lastMacro), market.dilation, s.dip,
                                     spendable, c)
                     ELSE 0
    BY <1>1, <1>3, <2>1, <2>3 DEF Step, Decision
  <2>5. spendable \in Nat
    BY <1>1, <2>4, StepType DEF OutputOK
  <2>6. DaysSince(in.day, in.lastMacro) \in Int /\ s.dip \in BOOLEAN
    BY DEF DaysSince, InputOK, Signals
  <2>7. spendable > 3 * c.inject
    BY <1>1, <2>4
  <2>8. MacroOrder(DaysSince(in.day, in.lastMacro), market.dilation, s.dip, spendable, c) >= 100
    BY <2>2, <2>5, <2>6, <2>7, OrderForced
  <2>9. QED BY <1>1, <2>4, <2>8
<1>4. QED BY <1>2, <1>3

\* DeadlineForces: money that has piled up is put to work, whichever trigger wins, as long as
\* an injection is itself an order (macro_engine.go:12).  A base purchase of less than 100 is
\* dropped by the code, so below that amount the promise does not hold.
THEOREM Deployed == ASSUME Inject >= 100 PROVE Spec => []DeadlineForces
<1>1. Init => DeadlineForces
  BY DEF Init, DeadlineForces
<1>2. Typed /\ DeadlineForces /\ [Next]_vars => DeadlineForces'
  <2> SUFFICES ASSUME Typed, DeadlineForces, [Next]_vars PROVE DeadlineForces'
    OBVIOUS
  <2>1. ASSUME NEW p \in Price, NEW s \in Signals, DecideBar(p, s) PROVE DeadlineForces'
    <3>1. PICK o : o = Step(Input(p), s, Chromosome)
      OBVIOUS
    <3>2. out'.spendable = o.spendable /\ out'.macro = o.macro
      BY <2>1, <3>1 DEF DecideBar, Typed, Output
    <3>3. InputOK(Input(p))
      BY Decided
    <3>4. o.spendable > 3 * Inject => o.macro >= 100
      BY <3>1, <3>3, ChromosomeReadable, StepForced
    <3>5. QED BY <3>2, <3>4 DEF DeadlineForces
  <2>2. CASE Trade
    BY <2>2 DEF Trade, DeadlineForces
  <2>3. CASE UNCHANGED vars
    BY <2>3 DEF vars, DeadlineForces
  <2>4. QED BY <2>1, <2>2, <2>3 DEF Next
<1>3. QED BY <1>1, <1>2, TypedInit, TypedStep, PTL DEF Spec

-----------------------------------------------------------------------------
(* Drawdown                                                                 *)

\* A fall that is no deeper than the deepest one is no deeper than a deeper one.
LEMMA DeeperCovers ==
  ASSUME NEW fall \in Int, NEW from \in Nat, NEW num \in Nat, NEW den \in Nat \ {0},
         NEW num2 \in Nat, NEW den2 \in Nat \ {0},
         fall * den <= num * from, num2 * den > num * den2
  PROVE  fall * den2 <= num2 * from
<1>1. (fall * den) * den2 <= (num * from) * den2
  OBVIOUS
<1>2. (num * den2) * from <= (num2 * den) * from
  OBVIOUS
<1>3. (fall * den) * den2 = (fall * den2) * den
  OBVIOUS
<1>4. (num * from) * den2 = (num * den2) * from /\ (num2 * den) * from = (num2 * from) * den
  OBVIOUS
<1>5. PICK a \in Int, b \in Int : a = fall * den2 /\ b = num2 * from
  OBVIOUS
<1>6. a * den <= b * den
  BY <1>1, <1>2, <1>3, <1>4, <1>5
<1>7. a <= b
  BY <1>6
<1>8. QED BY <1>5, <1>7

\* A fall from less than the peak is no deeper than the one from the peak.
LEMMA PeakCovers ==
  ASSUME NEW top \in Nat, NEW from \in Nat, from <= top, NEW value \in Nat,
         NEW num \in Nat, NEW den \in Nat \ {0}, (top - value) * den <= num * top
  PROVE  (from - value) * den <= num * from
<1>1. top * (den - num) <= value * den
  OBVIOUS
<1>2. from * (den - num) <= value * den
  <2>1. CASE den >= num
    <3>1. PICK r \in Nat : r = den - num
      BY <2>1
    <3>2. from * r <= top * r
      BY <3>1
    <3>3. top * r <= value * den
      BY <1>1, <3>1
    <3>4. from * r \in Int /\ top * r \in Int /\ value * den \in Int
      BY <3>1
    <3>5. from * r <= value * den
      BY <3>2, <3>3, <3>4
    <3>6. QED BY <3>1, <3>5
  <2>2. CASE den < num
    <3>1. PICK r \in Nat : r = num - den
      BY <2>2
    <3>2. from * r \in Nat /\ value * den \in Nat
      BY <3>1
    <3>3. from * (den - num) = -(from * r)
      BY <3>1
    <3>4. QED BY <3>2, <3>3
  <2>3. QED BY <2>1, <2>2
<1>3. QED BY <1>2

\* The curve with one value more.
LEMMA NextValue ==
  ASSUME Typed, NEW value \in Nat, curve' = Append(curve, value)
  PROVE  /\ Value \in Seq(Nat) /\ Len(Value) = Len(curve) + 1
         /\ DOMAIN Value = 1 .. Len(Value)
         /\ DOMAIN Value' = 1 .. (Len(Value) + 1)
         /\ \A i \in DOMAIN Value : Value'[i] = Value[i]
         /\ Value'[Len(Value) + 1] = value
<1>1. curve \in Seq(Nat) /\ InitialCapital \in Nat
  BY DEF Typed
<1>2. Value \in Seq(Nat) /\ Len(Value) = Len(curve) + 1
  BY <1>1 DEF Value
<1>3. Value' = Append(Value, value)
  BY <1>1 DEF Value
<1>4. QED BY <1>2, <1>3

\* The drawdown after a bar is valued.
LEMMA TradeDrawdown ==
  ASSUME DrawdownInv, Trade
  PROVE  PeakInv' /\ DrawdownRight'
<1>1. Typed /\ PeakInv /\ DrawdownRight
  BY DEF DrawdownInv
<1>2. PICK value : value = Worth(AfterMicro(AfterMacro))
  OBVIOUS
<1>3. value \in Nat
  BY <1>1, <1>2, Traded
<1>4. PICK top : top = NextPeak(value)
  OBVIOUS
<1>5. /\ peak' = top
      /\ maxDD' = IF (top - value) * maxDD.den > maxDD.num * top
                  THEN [num |-> top - value, den |-> top] ELSE maxDD
      /\ curve' = Append(curve, value)
  BY <1>2, <1>4 DEF Trade, Worth
<1>6. PICK len : len = Len(Value)
  OBVIOUS
<1>7. /\ Value \in Seq(Nat) /\ len \in Nat
      /\ DOMAIN Value = 1 .. len /\ DOMAIN Value' = 1 .. (len + 1)
      /\ \A i \in 1 .. len : Value'[i] = Value[i] /\ Value[i] \in Nat
      /\ Value'[len + 1] = value
  BY <1>1, <1>3, <1>5, <1>6, NextValue
<1>8. peak \in Nat \ {0} /\ maxDD.num \in Nat /\ maxDD.den \in Nat \ {0}
  BY <1>1 DEF Typed
<1>9. top \in Nat \ {0} /\ top >= value /\ top >= peak /\ top \in {peak, value}
  BY <1>3, <1>4, <1>8 DEF NextPeak, Greater
<1>10. \A i \in 1 .. len : Value[i] <= top
  BY <1>1, <1>7, <1>8, <1>9 DEF PeakInv
<1>11. PICK at \in 1 .. len : Value[at] = peak
  BY <1>1, <1>7 DEF PeakInv
<1>12. PeakInv'
  <2>1. \A i \in 1 .. (len + 1) : Value'[i] <= top
    BY <1>7, <1>9, <1>10
  <2>2. \E i \in 1 .. (len + 1) : Value'[i] = top
    BY <1>7, <1>9, <1>11
  <2>3. QED BY <1>5, <1>7, <2>1, <2>2 DEF PeakInv
<1>13. \A i, j \in 1 .. len :
         i <= j => (Value[i] - Value[j]) * maxDD.den <= maxDD.num * Value[i]
  BY <1>1, <1>7 DEF DrawdownRight, Fall
<1>14. CASE (top - value) * maxDD.den > maxDD.num * top
  <2>1. top = peak
    <3>1. CASE top = value
      <4>1. (top - value) * maxDD.den = 0 /\ maxDD.num * top \in Nat
        BY <1>3, <1>8, <1>9, <3>1
      <4>2. QED BY <1>14, <4>1
    <3>2. QED BY <1>9, <3>1
  <2>2. top - value \in Nat
    BY <1>3, <1>9
  <2>3. maxDD'.num = top - value /\ maxDD'.den = top
    BY <1>5, <1>14
  <2>4. ASSUME NEW i \in 1 .. (len + 1), NEW j \in 1 .. (len + 1), i <= j
        PROVE  (Value'[i] - Value'[j]) * top <= (top - value) * Value'[i]
    <3>1. CASE j <= len
      <4>1. i \in 1 .. len /\ j \in 1 .. len
        BY <1>7, <2>4, <3>1
      <4>2. PICK fall : fall = Value[i] - Value[j]
        OBVIOUS
      <4>3. fall \in Int /\ Value[i] \in Nat
        BY <1>7, <4>1, <4>2
      <4>4. fall * maxDD.den <= maxDD.num * Value[i]
        BY <1>13, <2>4, <4>1, <4>2
      <4>5. fall * top <= (top - value) * Value[i]
        BY <1>8, <1>9, <1>14, <2>2, <4>3, <4>4, DeeperCovers
      <4>6. QED BY <1>7, <4>1, <4>2, <4>5
    <3>2. CASE j = len + 1
      <4>1. PICK from : from = Value'[i]
        OBVIOUS
      <4>2. from \in Nat /\ from <= top
        BY <1>3, <1>7, <1>9, <1>10, <4>1
      <4>3. (top - value) * top <= (top - value) * top
        BY <2>2, <1>9
      <4>4. (from - value) * top <= (top - value) * from
        BY <1>3, <1>9, <2>2, <4>2, <4>3, PeakCovers
      <4>5. QED BY <1>7, <3>2, <4>1, <4>4
    <3>3. QED BY <1>7, <3>1, <3>2
  <2>5. (Value'[at] - Value'[len + 1]) * top = (top - value) * Value'[at]
    BY <1>3, <1>7, <1>9, <1>11, <2>1
  <2>6. at \in 1 .. (len + 1) /\ len + 1 \in 1 .. (len + 1) /\ at <= len + 1
    BY <1>7
  <2>7. DrawdownRight'
    BY <1>7, <2>3, <2>4, <2>5, <2>6 DEF DrawdownRight, Fall
  <2>8. QED BY <1>12, <2>7
<1>15. CASE ~((top - value) * maxDD.den > maxDD.num * top)
  <2>1. maxDD' = maxDD
    BY <1>5, <1>15
  <2>2. (top - value) * maxDD.den <= maxDD.num * top
    BY <1>3, <1>8, <1>9, <1>15
  <2>3. ASSUME NEW i \in 1 .. (len + 1), NEW j \in 1 .. (len + 1), i <= j
        PROVE  (Value'[i] - Value'[j]) * maxDD.den <= maxDD.num * Value'[i]
    <3>1. CASE j <= len
      <4>1. i \in 1 .. len /\ j \in 1 .. len
        BY <1>7, <2>3, <3>1
      <4>2. (Value[i] - Value[j]) * maxDD.den <= maxDD.num * Value[i]
        BY <1>13, <2>3, <4>1
      <4>3. Value'[i] = Value[i] /\ Value'[j] = Value[j]
        BY <1>7, <4>1
      <4>4. QED BY <4>2, <4>3
    <3>2. CASE j = len + 1
      <4>1. PICK from : from = Value'[i]
        OBVIOUS
      <4>2. from \in Nat /\ from <= top
        BY <1>3, <1>7, <1>9, <1>10, <4>1
      <4>3. (from - value) * maxDD.den <= maxDD.num * from
        BY <1>3, <1>8, <1>9, <2>2, <4>2, PeakCovers
      <4>4. QED BY <1>7, <3>2, <4>1, <4>3
    <3>3. QED BY <1>7, <3>1, <3>2
  <2>4. PICK i \in 1 .. len, j \in 1 .. len :
          i <= j /\ (Value[i] - Value[j]) * maxDD.den = maxDD.num * Value[i]
    BY <1>1, <1>7 DEF DrawdownRight, Fall
  <2>5. i \in 1 .. (len + 1) /\ j \in 1 .. (len + 1)
        /\ (Value'[i] - Value'[j]) * maxDD.den = maxDD.num * Value'[i]
    BY <1>7, <2>4
  <2>6. DrawdownRight'
    BY <1>7, <2>1, <2>3, <2>4, <2>5 DEF DrawdownRight, Fall
  <2>7. QED BY <1>12, <2>6
<1>16. QED BY <1>14, <1>15

\* DrawdownRight: kept bar by bar, the drawdown is the largest fall from any earlier value of
\* the curve (adapter.go).
THEOREM Drawdown == Spec => []DrawdownRight
<1>1. Init => DrawdownInv
  <2> SUFFICES ASSUME Init PROVE DrawdownInv
    OBVIOUS
  <2>1. Value = <<InitialCapital>> /\ InitialCapital \in Nat \ {0}
    BY DEF Init, Value
  <2>2. PeakInv
    BY <2>1 DEF Init, PeakInv
  <2>3. DrawdownRight
    BY <2>1 DEF Init, DrawdownRight, Fall
  <2>4. QED BY <2>2, <2>3, TypedInit DEF DrawdownInv
<1>2. DrawdownInv /\ [Next]_vars => DrawdownInv'
  <2> SUFFICES ASSUME DrawdownInv, [Next]_vars PROVE DrawdownInv'
    OBVIOUS
  <2>1. Typed'
    BY TypedStep DEF DrawdownInv
  <2>2. CASE Trade
    BY <2>1, <2>2, TradeDrawdown DEF DrawdownInv
  <2>3. CASE UNCHANGED <<peak, maxDD, curve>>
    BY <2>1, <2>3 DEF DrawdownInv, PeakInv, DrawdownRight, Fall, Value
  <2>4. QED BY <2>2, <2>3 DEF Next, DecideBar, vars
<1>3. DrawdownInv => DrawdownRight
  BY DEF DrawdownInv
<1>4. QED BY <1>1, <1>2, <1>3, PTL DEF Spec


\* What the value of a fold over 1 .. n, the highest member last, is for each subset.
FoldsUp(g, n, T, base, step) ==
  \A s \in SUBSET (1 .. n) :
    /\ s = {} => g[s] = base
    /\ s # {} /\ g[s \ {Max(s)}] \in T => g[s] = step[Max(s)][g[s \ {Max(s)}]]

\* The values of a fold after each of the first members.
IsRun(K, n, T, base, step) ==
  /\ K \in [0 .. n -> T] /\ K[0] = base
  /\ \A m \in 0 .. n - 1 : K[m + 1] = step[m + 1][K[m]]

LEMMA HighestOf ==
  ASSUME NEW m \in Nat, NEW n \in Nat, m < n
  PROVE  LET s == 1 .. (m + 1) IN
           s \in SUBSET (1 .. n) /\ s # {} /\ Max(s) = m + 1 /\ s \ {Max(s)} = 1 .. m
<1>1. PICK s : s = 1 .. (m + 1)
  OBVIOUS
<1>2. s \in SUBSET (1 .. n) /\ s # {} /\ m + 1 \in s /\ s \ {m + 1} = 1 .. m
  BY <1>1
<1>3. Max(s) \in s /\ \A x \in s : Max(s) >= x
  BY <1>2, MaxIn
<1>4. Max(s) = m + 1
  BY <1>1, <1>2, <1>3
<1>5. QED BY <1>1, <1>2, <1>4

LEMMA FoldRun ==
  ASSUME NEW n \in Nat, NEW T, NEW base \in T, NEW step \in [1 .. n -> [T -> T]],
         NEW g, FoldsUp(g, n, T, base, step)
  PROVE  \E K : IsRun(K, n, T, base, step) /\ K[n] = g[1 .. n]
<1> DEFINE G == {m \in Nat : m <= n => g[1 .. m] \in T}
<1>1. 0 \in G
  <2>1. 1 .. 0 = {}
    OBVIOUS
  <2>2. QED BY <2>1 DEF FoldsUp
<1>2. ASSUME NEW m \in Nat, m < n, g[1 .. m] \in T
      PROVE  g[1 .. (m + 1)] = step[m + 1][g[1 .. m]] /\ g[1 .. (m + 1)] \in T
  <2>1. PICK s : s = 1 .. (m + 1)
    OBVIOUS
  <2>2. s \in SUBSET (1 .. n) /\ s # {} /\ Max(s) = m + 1 /\ s \ {Max(s)} = 1 .. m
    BY <1>2, <2>1, HighestOf
  <2>3. g[s] = step[m + 1][g[1 .. m]]
    BY <1>2, <2>2 DEF FoldsUp
  <2>4. m + 1 \in 1 .. n
    BY <1>2
  <2>5. QED BY <1>2, <2>1, <2>3, <2>4
<1>3. ASSUME NEW m \in Nat, m \in G PROVE m + 1 \in G
  <2>1. CASE m < n
    BY <1>2, <1>3, <2>1
  <2>2. CASE ~(m < n)
    BY <2>2
  <2>3. QED BY <2>1, <2>2
<1>4. \A m \in 0 .. n : g[1 .. m] \in T
  <2>1. Nat \subseteq G
    <3> HIDE DEF G
    <3>1. QED BY <1>1, <1>3, NatSetInduction
  <2>2. QED BY <2>1
<1>5. PICK K : K = [m \in 0 .. n |-> g[1 .. m]]
  OBVIOUS
<1>6. K[0] = base
  <2>1. 1 .. 0 = {} /\ {} \in SUBSET (1 .. n) /\ 0 \in 0 .. n
    OBVIOUS
  <2>2. g[{}] = base
    BY <2>1 DEF FoldsUp
  <2>3. K[0] = g[1 .. 0]
    BY <1>5, <2>1
  <2>4. QED BY <2>1, <2>2, <2>3
<1>7. ASSUME NEW m \in 0 .. n - 1 PROVE K[m + 1] = step[m + 1][K[m]]
  <2>1. m \in Nat /\ m < n /\ m \in 0 .. n /\ m + 1 \in 0 .. n
    OBVIOUS
  <2>2. K[m] = g[1 .. m] /\ K[m + 1] = g[1 .. (m + 1)] /\ g[1 .. m] \in T
    BY <1>4, <1>5, <2>1
  <2>3. g[1 .. (m + 1)] = step[m + 1][g[1 .. m]]
    BY <1>2, <2>1, <2>2
  <2>4. QED BY <2>2, <2>3
<1>8. K \in [0 .. n -> T] /\ K[n] = g[1 .. n]
  BY <1>4, <1>5
<1>9. QED BY <1>6, <1>7, <1>8 DEF IsRun

\* The fold itself, as the recursive function of the community modules, exists.
IsFoldUp(g, n, T, base, step) ==
  /\ g \in [SUBSET (1 .. n) -> T]
  /\ \A s \in SUBSET (1 .. n) :
       g[s] = IF s = {} THEN base ELSE step[Max(s)][g[s \ {Max(s)}]]

LEMMA FoldUpExists ==
  ASSUME NEW n \in Nat, NEW T, NEW base \in T, NEW step \in [1 .. n -> [T -> T]]
  PROVE  \E g : IsFoldUp(g, n, T, base, step)
<1> DEFINE S == 1 .. n
<1>1. PICK pick : pick = [s \in SUBSET S |-> Max(s)]
  OBVIOUS
<1>2. IsFiniteSet(S) /\ \A s \in SUBSET S : s # {} => Max(s) \in s
  <2>1. IsFiniteSet(S)
    BY FS_Interval
  <2>2. QED BY <2>1, MaxIn
<1>3. PicksFrom(S, pick)
  BY <1>1, <1>2 DEF PicksFrom
<1>4. PICK g : IsFold(g, S, T, base, step, pick)
  <2> HIDE DEF S
  <2>1. step \in [S -> [T -> T]]
    BY DEF S
  <2>2. QED BY <1>2, <1>3, <2>1, FoldExists
<1>5. QED BY <1>1, <1>4 DEF IsFold, IsFoldUp

-----------------------------------------------------------------------------
(* Windows                                                                  *)

Bar == [at : Nat, close : Int]
FromStep(bars, start) ==
  [i \in 1 .. Len(bars) |-> [kept \in Seq(Bar) |->
     IF bars[i].at >= start THEN Append(kept, bars[i]) ELSE kept]]

LEMMA FromRun ==
  ASSUME NEW bars \in Seq(Bar), NEW start \in Int
  PROVE  \E K : /\ IsRun(K, Len(bars), Seq(Bar), <<>>, FromStep(bars, start))
                /\ K[Len(bars)] = From(bars, start)
<1>1. PICK n \in Nat : n = Len(bars) /\ DOMAIN bars = 1 .. n
  OBVIOUS
<1> DEFINE T == Seq(Bar)
           Keeps(g) == g = [s \in SUBSET DOMAIN bars |->
                              IF s = {} THEN <<>>
                              ELSE LET x == Max(s) IN
                                   IF bars[x].at >= start THEN Append(g[s \ {x}], bars[x])
                                   ELSE g[s \ {x}]]
           keeps == CHOOSE g : Keeps(g)
<1>2. PICK step : step = FromStep(bars, start)
  OBVIOUS
<1>3. ASSUME NEW i \in 1 .. n
      PROVE  /\ step[i] \in [T -> T]
             /\ \A kept \in T :
                  step[i][kept] = IF bars[i].at >= start THEN Append(kept, bars[i]) ELSE kept
  <2>1. step[i] = [kept \in T |-> IF bars[i].at >= start THEN Append(kept, bars[i]) ELSE kept]
    BY <1>1, <1>2 DEF FromStep
  <2>2. bars[i] \in Bar
    BY <1>1
  <2>3. \A kept \in T : Append(kept, bars[i]) \in T
    BY <2>2
  <2> HIDE DEF T
  <2>4. QED BY <2>1, <2>3
<1>4. step \in [1 .. n -> [T -> T]]
  <2>1. step = [i \in 1 .. n |-> step[i]]
    BY <1>1, <1>2 DEF FromStep
  <2>2. QED BY <1>3, <2>1
<1>5. \A s \in SUBSET (1 .. n) : s # {} => Max(s) \in 1 .. n
  BY MaxIn
<1>6. PICK g : IsFoldUp(g, n, T, <<>>, step)
  <2>1. <<>> \in T
    OBVIOUS
  <2> HIDE DEF T
  <2>2. QED BY <1>4, <2>1, FoldUpExists
<1>7. Keeps(g)
  <2>1. ASSUME NEW s \in SUBSET (1 .. n), s # {}
        PROVE  g[s] = IF bars[Max(s)].at >= start THEN Append(g[s \ {Max(s)}], bars[Max(s)])
                      ELSE g[s \ {Max(s)}]
    <3>1. g[s \ {Max(s)}] \in T
      BY <1>6 DEF IsFoldUp
    <3>2. g[s] = step[Max(s)][g[s \ {Max(s)}]]
      BY <1>6, <2>1 DEF IsFoldUp
    <3> HIDE DEF T
    <3>3. QED BY <1>3, <1>5, <2>1, <3>1, <3>2
  <2>2. g[{}] = <<>>
    BY <1>6 DEF IsFoldUp
  <2>3. QED BY <1>1, <1>6, <2>1, <2>2 DEF IsFoldUp
<1>8. Keeps(keeps)
  <2> HIDE DEF Keeps
  <2>1. QED BY <1>7
<1>9. From(bars, start) = keeps[1 .. n]
  BY <1>1 DEF From, FoldLeft, MapThenFoldSet
<1> HIDE DEF keeps
<1>10. FoldsUp(keeps, n, T, <<>>, step)
  <2>1. keeps[{}] = <<>>
    BY <1>8
  <2>2. ASSUME NEW s \in SUBSET (1 .. n), s # {}, keeps[s \ {Max(s)}] \in T
        PROVE  keeps[s] = step[Max(s)][keeps[s \ {Max(s)}]]
    <3>1. keeps[s] = IF bars[Max(s)].at >= start THEN Append(keeps[s \ {Max(s)}], bars[Max(s)])
                     ELSE keeps[s \ {Max(s)}]
      BY <1>1, <1>8, <2>2
    <3> HIDE DEF T
    <3>2. QED BY <1>3, <1>5, <2>2, <3>1
  <2>3. QED BY <2>1, <2>2 DEF FoldsUp
<1>11. QED
  <2>1. <<>> \in T
    OBVIOUS
  <2>2. \E K : IsRun(K, n, T, <<>>, step) /\ K[n] = keeps[1 .. n]
    <3> HIDE DEF T
    <3>1. QED BY <1>4, <1>10, <2>1, FoldRun
  <2>3. QED BY <1>1, <1>2, <1>9, <2>2

InOrder(bars) ==
  /\ bars \in Seq(Bar) /\ bars # <<>>
  /\ \A i, j \in DOMAIN bars : i < j => bars[i].at < bars[j].at

\* Facts about the end of a sequence.
LEMMA Suffix ==
  ASSUME NEW T, NEW s \in Seq(T), NEW f \in 1 .. Len(s) + 1
  PROVE  LET w == SubSeq(s, f, Len(s)) IN
           /\ w \in Seq(T) /\ Len(w) = Len(s) - f + 1
           /\ \A i \in 1 .. Len(w) : w[i] = s[f + i - 1]
           /\ f = 1 => w = s
  OBVIOUS

LEMMA SameSeq ==
  ASSUME NEW T, NEW a \in Seq(T), NEW b \in Seq(T), Len(a) = Len(b),
         \A i \in 1 .. Len(a) : a[i] = b[i]
  PROVE  a = b
  OBVIOUS

LEMMA SuffixOfSuffix ==
  ASSUME NEW T, NEW s \in Seq(T), NEW f \in 1 .. Len(s) + 1, NEW e \in 1 .. f
  PROVE  IsSuffixOf(SubSeq(s, f, Len(s)), SubSeq(s, e, Len(s)))
<1>1. PICK short : short = SubSeq(s, f, Len(s))
  OBVIOUS
<1>2. PICK long : long = SubSeq(s, e, Len(s))
  OBVIOUS
<1>3. Len(s) \in Nat /\ e \in 1 .. Len(s) + 1
  OBVIOUS
<1>4. /\ short \in Seq(T) /\ Len(short) = Len(s) - f + 1
      /\ \A i \in 1 .. Len(short) : short[i] = s[f + i - 1]
  BY <1>1, <1>3, Suffix
<1>5. /\ long \in Seq(T) /\ Len(long) = Len(s) - e + 1
      /\ \A i \in 1 .. Len(long) : long[i] = s[e + i - 1]
  BY <1>2, <1>3, Suffix
<1>6. PICK from \in 1 .. Len(long) + 1 : from = Len(long) - Len(short) + 1
  <2>1. Len(long) - Len(short) + 1 = f - e + 1
    BY <1>3, <1>4, <1>5
  <2>2. f - e + 1 \in 1 .. Len(long) + 1
    BY <1>3, <1>5
  <2>3. QED BY <2>1, <2>2
<1>7. PICK rest : rest = SubSeq(long, from, Len(long))
  OBVIOUS
<1>8. /\ rest \in Seq(T) /\ Len(rest) = Len(short)
      /\ \A i \in 1 .. Len(rest) : rest[i] = long[from + i - 1]
  BY <1>3, <1>4, <1>5, <1>6, <1>7, Suffix
<1>9. \A i \in 1 .. Len(short) : short[i] = rest[i]
  <2> SUFFICES ASSUME NEW i \in 1 .. Len(short) PROVE short[i] = rest[i]
    OBVIOUS
  <2>1. from + i - 1 \in 1 .. Len(long) /\ from - 1 = f - e
    BY <1>3, <1>4, <1>5, <1>6
  <2>2. e + (from + i - 1) - 1 = f + i - 1
    BY <2>1, <1>6
  <2>3. QED BY <1>4, <1>5, <1>8, <2>1, <2>2
<1>10. short = rest
  <2>1. short \in Seq(T) /\ rest \in Seq(T) /\ Len(short) = Len(rest)
    BY <1>4, <1>8
  <2>2. QED BY ONLY <1>9, <2>1, SameSeq
<1>11. QED BY <1>1, <1>2, <1>6, <1>7, <1>10 DEF IsSuffixOf

LEMMA SubSeqGrows ==
  ASSUME NEW T, NEW s \in Seq(T), NEW m \in Nat, m < Len(s), NEW f \in 1 .. m + 1
  PROVE  SubSeq(s, f, m + 1) = Append(SubSeq(s, f, m), s[m + 1])
  OBVIOUS

LEMMA SubSeqEmpty ==
  ASSUME NEW T, NEW s \in Seq(T), NEW m \in Nat
  PROVE  SubSeq(s, m + 1, m) = <<>>
  OBVIOUS

\* The bars from a time on are the end of the series.
LEMMA FromIsSuffix ==
  ASSUME NEW bars, InOrder(bars), NEW start \in Int
  PROVE  \E f \in 1 .. Len(bars) + 1 :
           /\ From(bars, start) = SubSeq(bars, f, Len(bars))
           /\ \A i \in DOMAIN bars : bars[i].at >= start <=> i >= f
<1>1. PICK n \in Nat : n = Len(bars) /\ DOMAIN bars = 1 .. n
  BY DEF InOrder
<1>2. bars \in Seq(Bar) /\ \A i, j \in 1 .. n : i < j => bars[i].at < bars[j].at
  BY <1>1 DEF InOrder
<1>3. ASSUME NEW i \in 1 .. n PROVE bars[i] \in Bar /\ bars[i].at \in Nat
  <2>1. bars[i] \in Bar
    BY <1>1, <1>2
  <2>2. QED BY <2>1 DEF Bar
<1>4. PICK K : /\ IsRun(K, n, Seq(Bar), <<>>, FromStep(bars, start))
               /\ K[n] = From(bars, start)
  BY <1>1, <1>2, FromRun
<1>5. ASSUME NEW m \in Nat, m < n
      PROVE  K[m + 1] = IF bars[m + 1].at >= start THEN Append(K[m], bars[m + 1]) ELSE K[m]
  <2>1. m \in 0 .. n /\ m \in 0 .. n - 1 /\ m + 1 \in 1 .. n
    BY <1>5
  <2>2. K[m] \in Seq(Bar) /\ K[m + 1] = FromStep(bars, start)[m + 1][K[m]]
    BY <1>4, <2>1 DEF IsRun
  <2>3. QED BY <1>1, <2>1, <2>2 DEF FromStep
<1> DEFINE Cut(m, f) == /\ K[m] = SubSeq(bars, f, m)
                        /\ \A i \in 1 .. m : bars[i].at >= start <=> i >= f
           G == {m \in Nat : m <= n => \E f \in 1 .. m + 1 : Cut(m, f)}
<1>6. 0 \in G
  <2>1. K[0] = <<>>
    BY <1>4 DEF IsRun
  <2>2. SubSeq(bars, 1, 0) = <<>>
    BY <1>2
  <2>3. Cut(0, 1)
    BY <2>1, <2>2
  <2>4. 1 \in 1 .. 0 + 1
    OBVIOUS
  <2> HIDE DEF Cut
  <2>5. QED BY <2>3, <2>4
<1>7. ASSUME NEW m \in Nat, m \in G PROVE m + 1 \in G
  <2> HIDE DEF Cut
  <2> SUFFICES ASSUME m + 1 <= n PROVE \E f \in 1 .. (m + 1) + 1 : Cut(m + 1, f)
    OBVIOUS
  <2>1. PICK f \in 1 .. m + 1 : Cut(m, f)
    BY <1>1, <1>7
  <2>2. m + 1 \in 1 .. n /\ m < n
    BY <1>1
  <2> USE DEF Cut
  <2>3. CASE bars[m + 1].at >= start
    <3>1. K[m + 1] = Append(K[m], bars[m + 1])
      BY <1>5, <2>2, <2>3
    <3>2. K[m + 1] = SubSeq(bars, f, m + 1)
      BY <1>1, <1>2, <2>1, <2>2, <3>1, SubSeqGrows
    <3>3. \A i \in 1 .. m + 1 : bars[i].at >= start <=> i >= f
      BY <2>1, <2>3
    <3>4. QED BY <3>2, <3>3
  <2>4. CASE ~(bars[m + 1].at >= start)
    <3>1. \A i \in 1 .. m + 1 : ~(bars[i].at >= start)
      <4>1. \A i \in 1 .. m : bars[i].at < bars[m + 1].at
        BY <1>2, <2>2
      <4>2. \A i \in 1 .. m + 1 : bars[i].at \in Nat
        BY <1>3
      <4>3. QED BY <2>4, <4>1, <4>2
    <3>2. f = m + 1
      <4>1. CASE f \in 1 .. m
        BY <2>1, <3>1, <4>1
      <4>2. QED BY <4>1
    <3>3. K[m + 1] = K[m]
      BY <1>5, <2>2, <2>4
    <3>4. K[m] = <<>> /\ SubSeq(bars, m + 2, m + 1) = <<>>
      <4>1. SubSeq(bars, m + 1, m) = <<>>
        BY <1>2, SubSeqEmpty
      <4>2. SubSeq(bars, (m + 1) + 1, m + 1) = <<>>
        BY <1>2, SubSeqEmpty
      <4>3. QED BY <2>1, <3>2, <4>1, <4>2
    <3>5. Cut(m + 1, m + 2)
      BY <3>1, <3>3, <3>4
    <3>6. QED BY <3>5
  <2>5. QED BY <2>3, <2>4
<1>8. n \in G
  <2> HIDE DEF G
  <2>1. QED BY <1>6, <1>7, NatSetInduction
<1>9. QED BY <1>1, <1>4, <1>8

\* An order of the windows has each of them.
LEMMA OrderHasAll ==
  ASSUME NEW order \in SetToSeqs(Label)
  PROVE  /\ Len(order) \in Nat \ {0} /\ DOMAIN order = 1 .. Len(order)
         /\ \A k \in DOMAIN order : order[k] \in Label
         /\ \A label \in Label : \E k \in DOMAIN order : order[k] = label
<1>1. IsFiniteSet(Label) /\ Label # {}
  BY BenchmarkAssumption DEF Label
<1>2. PICK n : n = Cardinality(Label)
  OBVIOUS
<1>3. n \in Nat /\ n # 0
  BY <1>1, <1>2, FS_CardinalityType, FS_EmptySet
<1>4. order \in [1 .. n -> Label] /\ \A i, j \in 1 .. n : i # j => order[i] # order[j]
  BY <1>2 DEF SetToSeqs
<1>5. order \in Injection(1 .. n, Label)
  BY <1>4 DEF Injection, IsInjective
<1>6. Cardinality(1 .. n) = n
  BY <1>3, FS_Interval
<1>7. order \in Surjection(1 .. n, Label)
  BY <1>1, <1>2, <1>5, <1>6, FS_Injection
<1>8. \A label \in Label : \E k \in 1 .. n : order[k] = label
  BY <1>7 DEF Surjection
<1>9. Len(order) = n /\ DOMAIN order = 1 .. n
  BY <1>3, <1>4
<1>10. QED BY <1>3, <1>4, <1>8, <1>9

\* Every window is the end of the series from its first bar, and has the bars it is to have.
LEMMA WindowIsSuffix ==
  ASSUME NEW bars, InOrder(bars), NEW label \in Label
  PROVE  /\ EvalStart(bars, label) - Warmup \in Int
         /\ \E f \in 1 .. Len(bars) + 1 :
              /\ WindowBars(bars, label) = SubSeq(bars, f, Len(bars))
              /\ \A i \in DOMAIN bars : bars[i].at >= EvalStart(bars, label) - Warmup <=> i >= f
<1>1. bars \in Seq(Bar) /\ bars # <<>>
  BY DEF InOrder
<1>2. bars[1] \in Bar /\ Last(bars) \in Bar
  BY <1>1 DEF Last
<1>3. EvalStart(bars, label) \in Int
  BY <1>2, BenchmarkAssumption DEF EvalStart, Label, Bar
<1>4. EvalStart(bars, label) - Warmup \in Int
  BY <1>3, BenchmarkAssumption
<1>5. QED BY <1>4, FromIsSuffix DEF WindowBars

\* The window over all bars has all of them.
LEMMA FullWindow ==
  ASSUME NEW bars, InOrder(bars), NEW label \in Label, EvalBars[label] = 0
  PROVE  WindowBars(bars, label) = bars
<1>1. bars \in Seq(Bar) /\ Len(bars) \in Nat \ {0} /\ 1 \in DOMAIN bars
  BY DEF InOrder
<1>2. PICK f \in 1 .. Len(bars) + 1 :
        /\ WindowBars(bars, label) = SubSeq(bars, f, Len(bars))
        /\ \A i \in DOMAIN bars : bars[i].at >= EvalStart(bars, label) - Warmup <=> i >= f
  BY WindowIsSuffix
<1>3. bars[1].at \in Nat
  <2>1. bars[1] \in Bar
    BY <1>1
  <2>2. QED BY <2>1 DEF Bar
<1>4. EvalStart(bars, label) = bars[1].at
  BY DEF EvalStart
<1>5. bars[1].at >= EvalStart(bars, label) - Warmup
  BY <1>3, <1>4, BenchmarkAssumption
<1>6. f = 1
  BY <1>1, <1>2, <1>5
<1>7. SubSeq(bars, 1, Len(bars)) = bars
  BY <1>1, Suffix
<1>8. QED BY <1>2, <1>6, <1>7

\* WindowsSound: whatever the series and the lengths of the windows, as long as one of them
\* takes all bars, the windows of a crucible are suffixes of one another in the order in which
\* they are returned, and the last is the whole series (crucible.go).
THEOREM Windows ==
  ASSUME NEW bars, InOrder(bars)
  PROVE  WindowsSound(bars)
<1> SUFFICES ASSUME NEW order \in CrucibleOrders(bars)
             PROVE  /\ \A i \in 1 .. Len(order) - 1 :
                         IsSuffixOf(WindowBars(bars, order[i]), WindowBars(bars, order[i + 1]))
                    /\ WindowBars(bars, Last(order)) = bars
  BY DEF WindowsSound
<1>1. /\ order \in SetToSeqs(Label)
      /\ \A i, j \in DOMAIN order :
           i < j => Len(WindowBars(bars, order[i])) <= Len(WindowBars(bars, order[j]))
  BY DEF CrucibleOrders
<1>2. /\ Len(order) \in Nat \ {0} /\ DOMAIN order = 1 .. Len(order)
      /\ \A k \in DOMAIN order : order[k] \in Label
      /\ \A label \in Label : \E k \in DOMAIN order : order[k] = label
  BY <1>1, OrderHasAll
<1>3. PICK n \in Nat \ {0} : n = Len(bars) /\ DOMAIN bars = 1 .. n
  BY DEF InOrder
<1>4. bars \in Seq(Bar)
  BY DEF InOrder
<1>5. ASSUME NEW k \in DOMAIN order
      PROVE  \E f \in 1 .. n + 1 :
               /\ WindowBars(bars, order[k]) = SubSeq(bars, f, n)
               /\ Len(WindowBars(bars, order[k])) = n - f + 1
               /\ \A i \in 1 .. n : bars[i].at >= EvalStart(bars, order[k]) - Warmup <=> i >= f
  <2>1. PICK f \in 1 .. Len(bars) + 1 :
          /\ WindowBars(bars, order[k]) = SubSeq(bars, f, Len(bars))
          /\ \A i \in DOMAIN bars : bars[i].at >= EvalStart(bars, order[k]) - Warmup <=> i >= f
    BY <1>2, WindowIsSuffix
  <2>2. Len(SubSeq(bars, f, Len(bars))) = Len(bars) - f + 1
    BY <1>4, Suffix
  <2>3. QED BY <1>3, <2>1, <2>2
<1>6. ASSUME NEW i \in 1 .. Len(order) - 1
      PROVE  IsSuffixOf(WindowBars(bars, order[i]), WindowBars(bars, order[i + 1]))
  <2>1. i \in DOMAIN order /\ i + 1 \in DOMAIN order /\ i < i + 1
    BY <1>2
  <2>2. PICK f \in 1 .. n + 1 : /\ WindowBars(bars, order[i]) = SubSeq(bars, f, n)
                                /\ Len(WindowBars(bars, order[i])) = n - f + 1
    BY <1>5, <2>1
  <2>3. PICK e \in 1 .. n + 1 : /\ WindowBars(bars, order[i + 1]) = SubSeq(bars, e, n)
                                /\ Len(WindowBars(bars, order[i + 1])) = n - e + 1
    BY <1>5, <2>1
  <2>4. n - f + 1 <= n - e + 1
    BY <1>1, <2>1, <2>2, <2>3
  <2>5. e \in 1 .. f
    BY <2>4
  <2>6. IsSuffixOf(SubSeq(bars, f, n), SubSeq(bars, e, n))
    BY <1>3, <1>4, <2>5, SuffixOfSuffix
  <2>7. QED BY <2>2, <2>3, <2>6
<1>7. WindowBars(bars, Last(order)) = bars
  <2>1. PICK label \in Label : EvalBars[label] = 0
    BY BenchmarkAssumption DEF Label
  <2>2. PICK k \in DOMAIN order : order[k] = label
    BY <1>2
  <2>3. WindowBars(bars, order[k]) = bars
    BY <2>1, <2>2, FullWindow
  <2>4. Len(order) \in DOMAIN order /\ (k = Len(order) \/ k < Len(order))
    BY <1>2
  <2>5. CASE k = Len(order)
    BY <2>3, <2>5 DEF Last
  <2>6. CASE k < Len(order)
    <3>1. PICK f \in 1 .. n + 1 : /\ WindowBars(bars, order[Len(order)]) = SubSeq(bars, f, n)
                                  /\ Len(WindowBars(bars, order[Len(order)])) = n - f + 1
      BY <1>5, <2>4
    <3>2. n <= n - f + 1
      BY <1>1, <1>3, <2>3, <2>4, <2>6, <3>1
    <3>3. f = 1
      BY <3>2
    <3>4. SubSeq(bars, 1, n) = bars
      BY <1>3, <1>4, Suffix
    <3>5. QED BY <3>1, <3>3, <3>4 DEF Last
  <2>7. QED BY <2>4, <2>5, <2>6
<1>8. QED BY <1>6, <1>7

-----------------------------------------------------------------------------
(* The passive benchmark                                                    *)

GhostState ==
  [shares : Nat, cash : Nat, injected : Nat, month : Int, navs : Seq(Nat), flows : Seq(Nat)]
GhostBase ==
  [shares |-> 0, cash |-> SeedCapital, injected |-> SeedCapital, month |-> -1,
   navs |-> << >>, flows |-> << >>]
GhostNext(s, bars, i) == IF bars[i].close <= 0 THEN s ELSE GhostBar(s, bars[i], i = 1)
GhostStep(bars) == [i \in 1 .. Len(bars) |-> [s \in GhostState |-> GhostNext(s, bars, i)]]

\* Dividing what is not negative.
LEMMA Quotient ==
  ASSUME NEW a \in Nat, NEW b \in Nat \ {0}
  PROVE  a \div b \in Nat
  OBVIOUS

LEMMA Product ==
  ASSUME NEW a \in Nat, NEW b \in Nat
  PROVE  a * b \in Nat
  OBVIOUS

\* What a bar with a price makes of the benchmark, and what the others leave as it is.
Invested(s, t, b, amount, flows) ==
  /\ t.shares = s.shares + (s.cash + amount) \div b.close
  /\ t.cash = 0 /\ t.injected = s.injected + amount /\ t.month = Month(b)
  /\ Len(t.flows) = Len(s.flows) + flows
Kept(s, t) ==
  /\ t.shares = s.shares /\ t.cash = s.cash /\ t.injected = s.injected
  /\ t.month = s.month /\ t.flows = s.flows

Takes(s, t, b, first) ==
  /\ Month(b) \in Int
  /\ Len(t.navs) = Len(s.navs) + 1
  /\ t.navs[Len(t.navs)] = t.shares * b.close + t.cash
  /\ first => Invested(s, t, b, 0, 0)
  /\ ~first /\ Month(b) > s.month => Invested(s, t, b, MonthlyInject, 1)
  /\ ~first /\ ~(Month(b) > s.month) => Kept(s, t)

LEMMA GhostBarFacts ==
  ASSUME NEW s \in GhostState, NEW b \in Bar, b.close > 0, NEW first \in BOOLEAN
  PROVE  GhostBar(s, b, first) \in GhostState /\ Takes(s, GhostBar(s, b, first), b, first)
<1>1. PICK t : t = GhostBar(s, b, first)
  OBVIOUS
<1>2. /\ s.shares \in Nat /\ s.cash \in Nat /\ s.injected \in Nat /\ s.month \in Int
      /\ s.navs \in Seq(Nat) /\ s.flows \in Seq(Nat) /\ b.at \in Nat /\ b.close \in Nat \ {0}
      /\ MonthlyInject \in Nat /\ MonthBars \in Nat \ {0}
  BY BenchmarkAssumption DEF GhostState, Bar
<1>3. Month(b) \in Int
  BY <1>2 DEF Month
<1>4. PICK inject : inject = IF ~first /\ NewMonth(s, b) THEN MonthlyInject ELSE 0
  OBVIOUS
<1>5. PICK shares :
        shares = s.shares + IF first \/ NewMonth(s, b) THEN (s.cash + inject) \div b.close ELSE 0
  OBVIOUS
<1>6. PICK left : left = IF first \/ NewMonth(s, b) THEN 0 ELSE s.cash
  OBVIOUS
<1>7. inject \in Nat /\ left \in Nat
  BY <1>2, <1>4, <1>6
<1>8. (s.cash + inject) \div b.close \in Nat
  <2>1. s.cash + inject \in Nat /\ b.close \in Nat \ {0}
    BY <1>2, <1>7
  <2>2. QED BY ONLY <2>1, Quotient
<1>9. shares \in Nat
  BY <1>2, <1>5, <1>8
<1>10. PICK nav : nav = shares * b.close + left
  OBVIOUS
<1>11. nav \in Nat
  <2>1. shares * b.close \in Nat
    BY <1>2, <1>9, Product
  <2>2. QED BY <1>7, <1>10, <2>1
<1>12. PICK month : month = IF first \/ NewMonth(s, b) THEN Month(b) ELSE s.month
  OBVIOUS
<1>13. PICK flows : flows = IF (first \/ NewMonth(s, b)) /\ ~first THEN Append(s.flows, b.at)
                            ELSE s.flows
  OBVIOUS
<1>14. t = [shares |-> shares, cash |-> left, injected |-> s.injected + inject,
            month |-> month, navs |-> Append(s.navs, nav), flows |-> flows]
  BY <1>4, <1>5, <1>6, <1>10, <1>12, <1>13, <1>1, Zenon DEF GhostBar
<1>15. /\ t.shares = shares /\ t.cash = left /\ t.injected = s.injected + inject
       /\ t.month = month /\ t.navs = Append(s.navs, nav) /\ t.flows = flows
  BY <1>14
<1>16. flows \in Seq(Nat) /\ month \in Int /\ Append(s.navs, nav) \in Seq(Nat)
  BY <1>2, <1>3, <1>11, <1>12, <1>13
<1>17. t \in GhostState
  BY <1>2, <1>7, <1>9, <1>14, <1>16 DEF GhostState
<1>18. Len(t.navs) = Len(s.navs) + 1 /\ t.navs[Len(t.navs)] = t.shares * b.close + t.cash
  <2>1. Len(Append(s.navs, nav)) = Len(s.navs) + 1 /\ Append(s.navs, nav)[Len(s.navs) + 1] = nav
    BY <1>2, <1>11
  <2>2. QED BY <1>10, <1>15, <2>1
<1>19. ASSUME first PROVE Invested(s, t, b, 0, 0)
  <2>1. inject = 0 /\ flows = s.flows /\ Len(s.flows) \in Nat
    BY <1>2, <1>4, <1>13, <1>19
  <2>2. shares = s.shares + (s.cash + inject) \div b.close /\ left = 0 /\ month = Month(b)
    BY <1>5, <1>6, <1>12, <1>19
  <2>3. QED BY <1>15, <2>1, <2>2 DEF Invested
<1>20. ASSUME ~first, Month(b) > s.month PROVE Invested(s, t, b, MonthlyInject, 1)
  <2>1. NewMonth(s, b)
    BY <1>20 DEF NewMonth
  <2>2. inject = MonthlyInject /\ flows = Append(s.flows, b.at)
    BY <1>4, <1>13, <1>20, <2>1
  <2>3. shares = s.shares + (s.cash + inject) \div b.close /\ left = 0 /\ month = Month(b)
    BY <1>5, <1>6, <1>12, <2>1
  <2>4. Len(flows) = Len(s.flows) + 1
    BY <1>2, <2>2
  <2>5. QED BY <1>15, <2>2, <2>3, <2>4 DEF Invested
<1>21. ASSUME ~first, ~(Month(b) > s.month) PROVE Kept(s, t)
  <2>1. ~first /\ ~NewMonth(s, b)
    BY <1>21 DEF NewMonth
  <2>2. QED BY <1>2, <1>4, <1>5, <1>6, <1>12, <1>13, <1>15, <2>1 DEF Kept
<1>22. t \in GhostState /\ Takes(s, t, b, first)
  BY <1>3, <1>17, <1>18, <1>19, <1>20, <1>21 DEF Takes
<1>23. QED BY <1>1, <1>22, Zenon

LEMMA GhostRun ==
  ASSUME NEW bars \in Seq(Bar)
  PROVE  \E K : /\ IsRun(K, Len(bars), GhostState, GhostBase, GhostStep(bars))
                /\ K[Len(bars)] = Ghost(bars)
<1>1. PICK n \in Nat : n = Len(bars) /\ DOMAIN bars = 1 .. n
  OBVIOUS
<1> DEFINE id == [i \in DOMAIN bars |-> i]
           Keeps(g) == g = [s \in SUBSET DOMAIN id |->
                              IF s = {} THEN GhostBase
                              ELSE LET x == Max(s) IN
                                   IF bars[id[x]].close <= 0 THEN g[s \ {x}]
                                   ELSE GhostBar(g[s \ {x}], bars[id[x]], id[x] = 1)]
           keeps == CHOOSE g : Keeps(g)
<1>2. PICK step : step = GhostStep(bars)
  OBVIOUS
<1>3. ASSUME NEW i \in 1 .. n
      PROVE  /\ step[i] \in [GhostState -> GhostState]
             /\ \A s \in GhostState : step[i][s] = GhostNext(s, bars, i)
  <2>1. step[i] = [s \in GhostState |-> GhostNext(s, bars, i)]
    BY <1>1, <1>2 DEF GhostStep
  <2>2. ASSUME NEW s \in GhostState PROVE GhostNext(s, bars, i) \in GhostState
    <3>1. bars[i] \in Bar
      BY <1>1
    <3>2. CASE bars[i].close <= 0
      BY <3>2 DEF GhostNext
    <3>3. CASE ~(bars[i].close <= 0)
      <4>1. bars[i].close > 0
        BY <3>1, <3>3 DEF Bar
      <4>2. CASE i = 1
        <5>1. GhostBar(s, bars[i], TRUE) \in GhostState
          BY <3>1, <4>1, GhostBarFacts
        <5>2. (i = 1) = TRUE
          BY <4>2
        <5>3. GhostNext(s, bars, i) = GhostBar(s, bars[i], TRUE)
          BY <3>3, <5>2, Zenon DEF GhostNext
        <5>4. QED BY <5>1, <5>3
      <4>3. CASE i # 1
        <5>1. GhostBar(s, bars[i], FALSE) \in GhostState
          BY <3>1, <4>1, GhostBarFacts
        <5>2. (i = 1) = FALSE
          BY <4>3
        <5>3. GhostNext(s, bars, i) = GhostBar(s, bars[i], FALSE)
          BY <3>3, <5>2, Zenon DEF GhostNext
        <5>4. QED BY <5>1, <5>3
      <4>4. QED BY <4>2, <4>3
    <3>4. QED BY <3>2, <3>3
  <2>3. QED BY <2>1, <2>2
<1>4. step \in [1 .. n -> [GhostState -> GhostState]]
  <2>1. step = [i \in 1 .. n |-> step[i]]
    BY <1>1, <1>2 DEF GhostStep
  <2>2. QED BY <1>3, <2>1
<1>5. \A s \in SUBSET (1 .. n) : s # {} => Max(s) \in 1 .. n
  BY MaxIn
<1>6. GhostBase \in GhostState
  BY BenchmarkAssumption DEF GhostBase, GhostState
<1>7. PICK g : IsFoldUp(g, n, GhostState, GhostBase, step)
  BY <1>4, <1>6, FoldUpExists
<1>8. \A g1, s : s \in SUBSET (1 .. n) /\ s # {} =>
        (IF bars[id[Max(s)]].close <= 0 THEN g1[s \ {Max(s)}]
         ELSE GhostBar(g1[s \ {Max(s)}], bars[id[Max(s)]], id[Max(s)] = 1))
        = GhostNext(g1[s \ {Max(s)}], bars, Max(s))
  <2> SUFFICES ASSUME NEW g1, NEW s, s \in SUBSET (1 .. n), s # {}
               PROVE  (IF bars[id[Max(s)]].close <= 0 THEN g1[s \ {Max(s)}]
                       ELSE GhostBar(g1[s \ {Max(s)}], bars[id[Max(s)]], id[Max(s)] = 1))
                      = GhostNext(g1[s \ {Max(s)}], bars, Max(s))
    OBVIOUS
  <2>1. id[Max(s)] = Max(s)
    BY <1>1, <1>5
  <2> HIDE DEF id
  <2>2. QED BY <2>1, Zenon DEF GhostNext
<1>9. Keeps(g)
  <2>1. ASSUME NEW s \in SUBSET (1 .. n), s # {}
        PROVE  g[s] = GhostNext(g[s \ {Max(s)}], bars, Max(s))
    <3>1. g[s \ {Max(s)}] \in GhostState
      BY <1>7 DEF IsFoldUp
    <3>2. g[s] = step[Max(s)][g[s \ {Max(s)}]]
      BY <1>7, <2>1 DEF IsFoldUp
    <3>3. QED BY <1>3, <1>5, <2>1, <3>1, <3>2
  <2>2. g[{}] = GhostBase
    BY <1>7 DEF IsFoldUp
  <2>3. g = [s \in SUBSET (1 .. n) |-> g[s]]
    BY <1>7 DEF IsFoldUp
  <2>4. DOMAIN id = 1 .. n
    BY <1>1
  <2>5. \A s \in SUBSET (1 .. n) :
          g[s] = IF s = {} THEN GhostBase
                 ELSE IF bars[id[Max(s)]].close <= 0 THEN g[s \ {Max(s)}]
                      ELSE GhostBar(g[s \ {Max(s)}], bars[id[Max(s)]], id[Max(s)] = 1)
    <3> HIDE DEF id
    <3>1. QED BY <1>8, <2>1, <2>2, Zenon
  <2> HIDE DEF id
  <2>6. QED BY <2>3, <2>4, <2>5, Zenon
<1>10. Keeps(keeps)
  <2> HIDE DEF Keeps
  <2>1. QED BY <1>9
<1>11. Ghost(bars) = keeps[1 .. n]
  BY <1>1 DEF Ghost, GhostBase, FoldLeftDomain, FoldLeft, MapThenFoldSet
<1> HIDE DEF keeps
<1>12. FoldsUp(keeps, n, GhostState, GhostBase, step)
  <2>1. DOMAIN id = 1 .. n
    BY <1>1
  <2> HIDE DEF id
  <2>2. keeps[{}] = GhostBase
    BY <1>10, <2>1
  <2>3. ASSUME NEW s \in SUBSET (1 .. n), s # {}, keeps[s \ {Max(s)}] \in GhostState
        PROVE  keeps[s] = step[Max(s)][keeps[s \ {Max(s)}]]
    <3>1. keeps[s] = IF bars[id[Max(s)]].close <= 0 THEN keeps[s \ {Max(s)}]
                     ELSE GhostBar(keeps[s \ {Max(s)}], bars[id[Max(s)]], id[Max(s)] = 1)
      BY <1>10, <2>1, <2>3, Zenon
    <3>2. keeps[s] = GhostNext(keeps[s \ {Max(s)}], bars, Max(s))
      BY <1>8, <2>3, <3>1, Zenon
    <3>3. QED BY <1>3, <1>5, <2>3, <3>2
  <2>4. QED BY <2>2, <2>3 DEF FoldsUp
<1>13. PICK K : IsRun(K, n, GhostState, GhostBase, step) /\ K[n] = keeps[1 .. n]
  BY <1>4, <1>6, <1>12, FoldRun
<1> HIDE DEF Keeps
<1>14. QED BY <1>1, <1>2, <1>11, <1>13

\* The bars with a price among the first m, and those at which the benchmark buys.
Priced(bars, m) == {i \in 1 .. m : bars[i].close > 0}
Buys(bars, m) ==
  {i \in Priced(bars, m) :
     \A j \in Priced(bars, m) : j < i => Month(bars[j]) < Month(bars[i])}
Bought(bars) ==
  [i \in Priced(bars, Len(bars)) |->
     (IF i = 1 THEN SeedCapital ELSE MonthlyInject) \div bars[i].close]

\* All bars with a price have the same one, of which seed and injection are multiples.
Still(bars) ==
  /\ SeedCapital % bars[1].close = 0 /\ MonthlyInject % bars[1].close = 0
  /\ \A i, j \in Priced(bars, Len(bars)) : bars[i].close = bars[j].close

\* What the benchmark has done after m bars.
GhostInv(s, bars, m) ==
  /\ s \in GhostState /\ s.cash = 0
  /\ s.shares = SumFunctionOnSet(Bought(bars), Buys(bars, m))
  /\ s.injected = SeedCapital + MonthlyInject * (Cardinality(Buys(bars, m)) - 1)
  /\ \A j \in Priced(bars, m) : Month(bars[j]) <= s.month
  /\ \E j \in Priced(bars, m) : Month(bars[j]) = s.month
  /\ Len(s.navs) > 0
  /\ s.navs[Len(s.navs)] = s.shares * bars[Max(Priced(bars, m))].close
  /\ Len(s.flows) = Cardinality(Buys(bars, m)) - 1
  /\ Still(bars) => s.shares * bars[1].close = s.injected

LEMMA PricedFacts ==
  ASSUME NEW bars \in Seq(Bar), NEW m \in 1 .. Len(bars), bars[1].close > 0
  PROVE  /\ Priced(bars, m) \in SUBSET (1 .. m) /\ Priced(bars, m) # {} /\ 1 \in Priced(bars, m)
         /\ Priced(bars, m) \subseteq Priced(bars, Len(bars))
         /\ Max(Priced(bars, m)) \in Priced(bars, m)
         /\ IsFiniteSet(Priced(bars, m)) /\ IsFiniteSet(Buys(bars, m))
         /\ Buys(bars, m) \subseteq Priced(bars, m) /\ Cardinality(Buys(bars, m)) \in Nat
         /\ NatOn(Bought(bars), Buys(bars, m))
<1>1. m \in Nat /\ Len(bars) \in Nat
  OBVIOUS
<1>2. Priced(bars, m) \in SUBSET (1 .. m) /\ 1 \in Priced(bars, m)
      /\ Priced(bars, m) \subseteq Priced(bars, Len(bars))
      /\ Buys(bars, m) \subseteq Priced(bars, m)
  BY DEF Priced, Buys
<1>3. Max(Priced(bars, m)) \in Priced(bars, m)
  BY <1>1, <1>2, MaxIn
<1>4. IsFiniteSet(1 .. m)
  BY <1>1, FS_Interval
<1>5. IsFiniteSet(Priced(bars, m))
  BY <1>2, <1>4, FS_Subset
<1>6. IsFiniteSet(Buys(bars, m)) /\ Cardinality(Buys(bars, m)) \in Nat
  BY <1>2, <1>5, FS_Subset, FS_CardinalityType
<1>7. ASSUME NEW i \in Buys(bars, m) PROVE Bought(bars)[i] \in Nat
  <2>1. i \in Priced(bars, Len(bars)) /\ i \in 1 .. Len(bars) /\ bars[i].close > 0
    BY <1>2 DEF Priced
  <2>2. bars[i] \in Bar
    BY <2>1
  <2>3. bars[i].close \in Nat \ {0}
    BY <2>1, <2>2 DEF Bar
  <2>4. PICK amount \in Nat : amount = IF i = 1 THEN SeedCapital ELSE MonthlyInject
    BY BenchmarkAssumption
  <2>5. amount \div bars[i].close \in Nat
    BY <2>3, Quotient
  <2>6. Bought(bars)[i] = amount \div bars[i].close
    BY <2>1, <2>4 DEF Bought
  <2>7. QED BY <2>5, <2>6
<1>8. QED BY <1>2, <1>3, <1>5, <1>6, <1>7 DEF NatOn

\* A bar without a price changes neither set.
LEMMA Unpriced ==
  ASSUME NEW bars \in Seq(Bar), NEW m \in Nat, ~(bars[m + 1].close > 0)
  PROVE  Priced(bars, m + 1) = Priced(bars, m) /\ Buys(bars, m + 1) = Buys(bars, m)
<1>1. Priced(bars, m + 1) = Priced(bars, m)
  BY DEF Priced
<1>2. QED BY <1>1 DEF Buys

\* A bar with a price comes on top of the others.
LEMMA NextPriced ==
  ASSUME NEW bars \in Seq(Bar), NEW m \in Nat, m < Len(bars), bars[m + 1].close > 0
  PROVE  /\ Priced(bars, m + 1) = Priced(bars, m) \cup {m + 1}
         /\ Max(Priced(bars, m + 1)) = m + 1
<1>1. Priced(bars, m + 1) = Priced(bars, m) \cup {m + 1}
  BY DEF Priced
<1>2. Priced(bars, m + 1) \in SUBSET (1 .. (m + 1)) /\ Priced(bars, m + 1) # {}
  BY <1>1 DEF Priced
<1>3. PICK s : s = Priced(bars, m + 1)
  OBVIOUS
<1>4. Max(s) \in s /\ \A x \in s : Max(s) >= x
  <2>1. m + 1 \in Nat
    OBVIOUS
  <2>2. QED BY <1>2, <1>3, <2>1, MaxIn
<1>5. m + 1 \in s /\ \A x \in s : x \in Nat /\ x <= m + 1
  BY <1>1, <1>2, <1>3
<1>6. QED BY <1>1, <1>3, <1>4, <1>5

\* It is a purchase if its month is later than that of every priced bar before it.
LEMMA NextBuys ==
  ASSUME NEW bars \in Seq(Bar), NEW m \in Nat, m < Len(bars), bars[m + 1].close > 0
  PROVE  Buys(bars, m + 1) =
           IF \A j \in Priced(bars, m) : Month(bars[j]) < Month(bars[m + 1])
             THEN Buys(bars, m) \cup {m + 1} ELSE Buys(bars, m)
<1>1. Priced(bars, m + 1) = Priced(bars, m) \cup {m + 1}
  BY NextPriced
<1>2. \A j \in Priced(bars, m) : j \in Nat /\ j < m + 1
  BY DEF Priced
<1>3. \A i \in Priced(bars, m) : i \in Buys(bars, m + 1) <=> i \in Buys(bars, m)
  BY <1>1, <1>2 DEF Buys
<1>4. m + 1 \in Buys(bars, m + 1) <=>
        \A j \in Priced(bars, m) : Month(bars[j]) < Month(bars[m + 1])
  BY <1>1, <1>2 DEF Buys
<1>5. Buys(bars, m) \subseteq Priced(bars, m)
      /\ Buys(bars, m + 1) \subseteq Priced(bars, m) \cup {m + 1}
      /\ m + 1 \notin Priced(bars, m)
  BY <1>1, <1>2 DEF Buys
<1>6. CASE \A j \in Priced(bars, m) : Month(bars[j]) < Month(bars[m + 1])
  <2>1. Buys(bars, m + 1) = Buys(bars, m) \cup {m + 1}
    BY <1>3, <1>4, <1>5, <1>6
  <2>2. QED BY <1>6, <2>1
<1>7. CASE ~(\A j \in Priced(bars, m) : Month(bars[j]) < Month(bars[m + 1]))
  <2>1. Buys(bars, m + 1) = Buys(bars, m)
    BY <1>3, <1>4, <1>5, <1>7
  <2>2. QED BY <1>7, <2>1
<1>8. QED BY <1>6, <1>7

\* Amounts that are whole shares are worth what they were.
LEMMA WholeShares ==
  ASSUME NEW a \in Nat, NEW p \in Nat \ {0}, a % p = 0
  PROVE  (a \div p) * p = a
  OBVIOUS

LEMMA SharesAdd ==
  ASSUME NEW a \in Nat, NEW b \in Nat, NEW p \in Nat
  PROVE  (a + b) * p = a * p + b * p
  OBVIOUS

\* The first bar takes the seed capital.
LEMMA GhostStart ==
  ASSUME NEW bars \in Seq(Bar), bars # <<>>, bars[1].close > 0
  PROVE  GhostInv(GhostNext(GhostBase, bars, 1), bars, 1)
<1>1. bars[1] \in Bar /\ 1 \in 1 .. Len(bars)
  OBVIOUS
<1>2. bars[1].close \in Nat \ {0}
  BY <1>1 DEF Bar
<1>3. GhostBase \in GhostState /\ GhostBase.shares = 0 /\ GhostBase.cash = SeedCapital
      /\ GhostBase.injected = SeedCapital /\ Len(GhostBase.navs) = 0 /\ Len(GhostBase.flows) = 0
  BY BenchmarkAssumption DEF GhostBase, GhostState
<1>4. PICK t : t = GhostNext(GhostBase, bars, 1)
  OBVIOUS
<1>5. t = GhostBar(GhostBase, bars[1], TRUE)
  <2>1. ~(bars[1].close <= 0)
    BY <1>2
  <2>2. (1 = 1) = TRUE
    OBVIOUS
  <2>3. QED BY <1>4, <2>1, <2>2, Zenon DEF GhostNext
<1>6. PICK q : q = SeedCapital \div bars[1].close
  OBVIOUS
<1>7. q \in Nat /\ SeedCapital \in Nat /\ MonthlyInject \in Nat
  <2>1. SeedCapital \in Nat /\ MonthlyInject \in Nat
    BY BenchmarkAssumption
  <2>2. QED BY <1>2, <1>6, <2>1, Quotient
<1>8. /\ t \in GhostState /\ Month(bars[1]) \in Int
      /\ Len(t.navs) = 1 /\ t.navs[Len(t.navs)] = t.shares * bars[1].close + t.cash
      /\ t.cash = 0 /\ t.injected = SeedCapital /\ t.month = Month(bars[1])
      /\ Len(t.flows) = 0
      /\ t.shares = 0 + (SeedCapital + 0) \div bars[1].close
  <2>1. t \in GhostState /\ Takes(GhostBase, t, bars[1], TRUE)
    BY <1>1, <1>3, <1>5, GhostBarFacts
  <2>2. /\ Month(bars[1]) \in Int /\ Len(t.navs) = Len(GhostBase.navs) + 1
        /\ t.navs[Len(t.navs)] = t.shares * bars[1].close + t.cash
        /\ Invested(GhostBase, t, bars[1], 0, 0)
    BY <2>1 DEF Takes
  <2>3. QED BY <1>3, <1>7, <2>1, <2>2 DEF Invested
<1>9. t.shares = q
  BY <1>6, <1>7, <1>8
<1>10. Priced(bars, 1) = {1} /\ Buys(bars, 1) = {1}
  <2>1. 1 .. 1 = {1}
    OBVIOUS
  <2>2. Priced(bars, 1) = {1}
    BY <2>1 DEF Priced
  <2>3. QED BY <2>2 DEF Buys
<1>11. Max(Priced(bars, 1)) = 1
  BY <1>1, <1>10, PricedFacts
<1>12. Cardinality({1}) = 1 /\ IsFiniteSet({1})
  BY FS_Singleton
<1>13. SumFunctionOnSet(Bought(bars), Buys(bars, 1)) = q
  <2>1. Bought(bars)[1] = q
    BY <1>1, <1>6 DEF Bought, Priced
  <2>2. NatOn(Bought(bars), {1}) /\ {1} \ {1} = {}
    BY <1>7, <2>1 DEF NatOn
  <2>3. SumFunctionOnSet(Bought(bars), {1}) = q + SumFunctionOnSet(Bought(bars), {})
    BY <1>12, <2>1, <2>2, SumAdd
  <2>4. SumFunctionOnSet(Bought(bars), {}) = 0
    BY SumEmpty
  <2>5. SumFunctionOnSet(Bought(bars), {1}) = q
    BY <1>7, <2>3, <2>4
  <2>6. QED BY <1>10, <2>5, Zenon
<1>14. Still(bars) => t.shares * bars[1].close = t.injected
  <2> SUFFICES ASSUME Still(bars) PROVE t.shares * bars[1].close = t.injected
    OBVIOUS
  <2>1. PICK p \in Nat \ {0} : p = bars[1].close
    BY <1>2
  <2>2. SeedCapital \in Nat /\ SeedCapital % p = 0
    BY <1>7, <2>1 DEF Still
  <2>3. (SeedCapital \div p) * p = SeedCapital
    BY ONLY <2>2, p \in Nat \ {0}, WholeShares
  <2>4. QED BY <1>6, <1>8, <1>9, <2>1, <2>3
<1>15. q * bars[1].close \in Nat
  BY <1>2, <1>7, Product
<1>16. t.navs[Len(t.navs)] = t.shares * bars[1].close
  BY <1>8, <1>9, <1>15
<1>17. t.injected = SeedCapital + MonthlyInject * (1 - 1)
  BY <1>7, <1>8
<1>18. Cardinality(Buys(bars, 1)) = 1 /\ Len(t.navs) > 0
  <2>1. Cardinality(Buys(bars, 1)) = 1
    BY <1>10, <1>12, Zenon
  <2>2. QED BY <1>8, <2>1
<1>19. /\ \A j \in Priced(bars, 1) : Month(bars[j]) <= t.month
       /\ \E j \in Priced(bars, 1) : Month(bars[j]) = t.month
  BY <1>8, <1>10
<1>20. Len(t.flows) = Cardinality(Buys(bars, 1)) - 1
  BY <1>8, <1>18
<1>21. GhostInv(t, bars, 1)
  BY <1>8, <1>9, <1>11, <1>13, <1>14, <1>16, <1>17, <1>18, <1>19, <1>20 DEF GhostInv
<1>22. QED BY <1>4, <1>21

\* Every bar keeps to it.
LEMMA GhostKeeps ==
  ASSUME NEW bars \in Seq(Bar), NEW m \in 1 .. Len(bars) - 1, bars[1].close > 0,
         NEW s, GhostInv(s, bars, m)
  PROVE  GhostInv(GhostNext(s, bars, m + 1), bars, m + 1)
<1>1. m \in Nat /\ m \in 1 .. Len(bars) /\ m + 1 \in 1 .. Len(bars) /\ m < Len(bars)
  OBVIOUS
<1>2. bars[m + 1] \in Bar /\ bars[1] \in Bar
  BY <1>1
<1>3. bars[m + 1].close \in Int /\ bars[1].close \in Nat \ {0}
  BY <1>2 DEF Bar
<1>4. PICK t : t = GhostNext(s, bars, m + 1)
  OBVIOUS
<1>5. CASE ~(bars[m + 1].close > 0)
  <2>1. t = s
    BY <1>3, <1>4, <1>5 DEF GhostNext
  <2>2. Priced(bars, m + 1) = Priced(bars, m) /\ Buys(bars, m + 1) = Buys(bars, m)
    BY <1>1, <1>5, Unpriced
  <2>3. QED BY <1>4, <2>1, <2>2 DEF GhostInv
<1>6. CASE bars[m + 1].close > 0
  <2>1. t = GhostBar(s, bars[m + 1], FALSE)
    <3>1. ~(bars[m + 1].close <= 0)
      BY <1>3, <1>6
    <3>2. (m + 1 = 1) = FALSE
      BY <1>1
    <3>3. QED BY <1>4, <3>1, <3>2, Zenon DEF GhostNext
  <2>2. PICK p \in Nat \ {0} : p = bars[m + 1].close
    BY <1>3, <1>6
  <2>3. /\ s \in GhostState /\ s.shares \in Nat /\ s.cash = 0 /\ s.injected \in Nat
        /\ s.month \in Int /\ Len(s.navs) \in Nat /\ Len(s.flows) \in Nat
    BY DEF GhostInv, GhostState
  <2>4. /\ t \in GhostState /\ Month(bars[m + 1]) \in Int
        /\ Len(t.navs) = Len(s.navs) + 1 /\ t.navs[Len(t.navs)] = t.shares * p + t.cash
        /\ Month(bars[m + 1]) > s.month =>
             /\ t.shares = s.shares + (s.cash + MonthlyInject) \div p
             /\ t.cash = 0 /\ t.injected = s.injected + MonthlyInject
             /\ t.month = Month(bars[m + 1]) /\ Len(t.flows) = Len(s.flows) + 1
        /\ ~(Month(bars[m + 1]) > s.month) =>
             /\ t.shares = s.shares /\ t.cash = s.cash /\ t.injected = s.injected
             /\ t.month = s.month /\ t.flows = s.flows
    <3>1. t \in GhostState /\ Takes(s, t, bars[m + 1], FALSE)
      BY <1>2, <1>6, <2>1, <2>3, GhostBarFacts
    <3>2. /\ Month(bars[m + 1]) \in Int
          /\ Len(t.navs) = Len(s.navs) + 1 /\ t.navs[Len(t.navs)] = t.shares * p + t.cash
          /\ Month(bars[m + 1]) > s.month => Invested(s, t, bars[m + 1], MonthlyInject, 1)
          /\ ~(Month(bars[m + 1]) > s.month) => Kept(s, t)
      BY <2>2, <3>1 DEF Takes
    <3>3. QED BY <2>2, <3>1, <3>2 DEF Invested, Kept
  <2>5. t.shares \in Nat /\ t.cash = 0
    BY <2>3, <2>4 DEF GhostState
  <2>6. Len(t.navs) > 0 /\ t.navs[Len(t.navs)] = t.shares * p
    <3>1. t.shares * p \in Nat
      BY <2>2, <2>5, Product
    <3>2. QED BY <2>3, <2>4, <2>5, <3>1
  <2>7. /\ Priced(bars, m + 1) = Priced(bars, m) \cup {m + 1}
        /\ Max(Priced(bars, m + 1)) = m + 1
    BY <1>1, <1>6, NextPriced
  <2>8. /\ Buys(bars, m) \subseteq Priced(bars, m) /\ IsFiniteSet(Buys(bars, m))
        /\ m + 1 \notin Buys(bars, m) /\ Cardinality(Buys(bars, m)) \in Nat
    <3>1. m + 1 \notin Priced(bars, m)
      BY <1>1 DEF Priced
    <3>2. QED BY <1>1, <3>1, PricedFacts
  <2>9. \A j \in Priced(bars, m) : Month(bars[j]) <= s.month /\ Month(bars[j]) \in Int
    <3>1. ASSUME NEW j \in Priced(bars, m) PROVE Month(bars[j]) \in Int
      <4>1. bars[j] \in Bar
        BY <1>1 DEF Priced
      <4>2. bars[j].at \in Nat /\ MonthBars \in Nat \ {0}
        BY <4>1, BenchmarkAssumption DEF Bar
      <4>3. QED BY <4>2 DEF Month
    <3>2. QED BY <3>1 DEF GhostInv
  <2>10. PICK last \in Priced(bars, m) : Month(bars[last]) = s.month
    BY DEF GhostInv
  <2>11. CASE Month(bars[m + 1]) > s.month
    <3>1. PICK q : q = MonthlyInject \div p
      OBVIOUS
    <3>2. MonthlyInject \in Nat /\ SeedCapital \in Nat
      BY BenchmarkAssumption
    <3>3. q \in Nat
      BY <2>2, <3>1, <3>2, Quotient
    <3>4. t.shares = s.shares + q
      BY <2>3, <2>4, <2>11, <3>1, <3>2
    <3>5. Buys(bars, m + 1) = Buys(bars, m) \cup {m + 1}
      <4>1. \A j \in Priced(bars, m) : Month(bars[j]) < Month(bars[m + 1])
        BY <2>3, <2>4, <2>9, <2>11
      <4>2. QED BY <1>1, <1>6, <4>1, NextBuys
    <3>6. Cardinality(Buys(bars, m + 1)) = Cardinality(Buys(bars, m)) + 1
      BY <2>8, <3>5, FS_AddElement
    <3>7. SumFunctionOnSet(Bought(bars), Buys(bars, m + 1)) = q + s.shares
      <4>1. Bought(bars)[m + 1] = q
        <5>1. m + 1 \in Priced(bars, Len(bars)) /\ m + 1 # 1
          BY <1>1, <1>6 DEF Priced
        <5>2. QED BY <2>2, <3>1, <5>1 DEF Bought
      <4>2. NatOn(Bought(bars), Buys(bars, m + 1)) /\ IsFiniteSet(Buys(bars, m + 1))
        BY <1>1, PricedFacts
      <4>3. m + 1 \in Buys(bars, m + 1) /\ Buys(bars, m + 1) \ {m + 1} = Buys(bars, m)
        BY <2>8, <3>5
      <4>4. SumFunctionOnSet(Bought(bars), Buys(bars, m + 1)) =
              q + SumFunctionOnSet(Bought(bars), Buys(bars, m))
        BY <4>1, <4>2, <4>3, SumAdd
      <4>5. QED BY <4>4 DEF GhostInv
    <3>8. t.shares = SumFunctionOnSet(Bought(bars), Buys(bars, m + 1))
      BY <2>3, <3>3, <3>4, <3>7
    <3>9. t.injected = SeedCapital + MonthlyInject * (Cardinality(Buys(bars, m + 1)) - 1)
      <4>1. PICK c \in Nat : c = Cardinality(Buys(bars, m))
        BY <2>8
      <4>2. s.injected = SeedCapital + MonthlyInject * (c - 1)
        BY <4>1 DEF GhostInv
      <4>3. t.injected = s.injected + MonthlyInject
        BY <2>4, <2>11
      <4>4. SeedCapital + MonthlyInject * (c - 1) + MonthlyInject =
              SeedCapital + MonthlyInject * ((c + 1) - 1)
        BY <3>2, <4>1
      <4>5. QED BY <3>6, <4>1, <4>2, <4>3, <4>4
    <3>10. Len(t.flows) = Cardinality(Buys(bars, m + 1)) - 1
      BY <2>3, <2>4, <2>8, <2>11, <3>6 DEF GhostInv
    <3>11. ASSUME Still(bars) PROVE t.shares * bars[1].close = t.injected
      <4>1. p = bars[1].close
        <5>1. 1 \in Priced(bars, Len(bars)) /\ m + 1 \in Priced(bars, Len(bars))
          BY <1>1, <1>6 DEF Priced
        <5>2. QED BY <2>2, <3>11, <5>1 DEF Still
      <4>2. q * p = MonthlyInject
        BY <2>2, <3>1, <3>2, <3>11, <4>1, WholeShares DEF Still
      <4>3. s.shares * p = s.injected
        BY <3>11, <4>1 DEF GhostInv
      <4>4. (s.shares + q) * p = s.shares * p + q * p
        <5>1. s.shares \in Nat /\ q \in Nat /\ p \in Nat
          BY <2>3, <3>3
        <5>2. QED BY ONLY <5>1, SharesAdd
      <4>5. QED BY <2>4, <2>11, <3>4, <4>1, <4>2, <4>3, <4>4
    <3>12. \A j \in Priced(bars, m + 1) : Month(bars[j]) <= t.month
      <4>1. ASSUME NEW j \in Priced(bars, m) PROVE Month(bars[j]) <= t.month
        BY <2>3, <2>4, <2>9, <2>11
      <4>2. Month(bars[m + 1]) <= t.month
        BY <2>4, <2>11
      <4>3. QED BY <2>7, <4>1, <4>2
    <3>13. \E j \in Priced(bars, m + 1) : Month(bars[j]) = t.month
      BY <2>4, <2>7, <2>11
    <3>14. QED BY <1>4, <2>2, <2>4, <2>5, <2>6, <2>7, <3>8, <3>9, <3>10, <3>11, <3>12, <3>13
               DEF GhostInv
  <2>12. CASE ~(Month(bars[m + 1]) > s.month)
    <3>1. t.shares = s.shares /\ t.injected = s.injected /\ t.month = s.month /\ t.flows = s.flows
      BY <2>4, <2>12
    <3>2. Buys(bars, m + 1) = Buys(bars, m)
      <4>1. ~(Month(bars[last]) < Month(bars[m + 1]))
        BY <2>3, <2>4, <2>10, <2>12
      <4>2. QED BY <1>1, <1>6, <2>10, <4>1, NextBuys
    <3>3. \A j \in Priced(bars, m + 1) : Month(bars[j]) <= t.month
      <4>1. ASSUME NEW j \in Priced(bars, m) PROVE Month(bars[j]) <= t.month
        BY <2>9, <3>1
      <4>2. Month(bars[m + 1]) <= t.month
        BY <2>3, <2>4, <2>12, <3>1
      <4>3. QED BY <2>7, <4>1, <4>2
    <3>4. \E j \in Priced(bars, m + 1) : Month(bars[j]) = t.month
      BY <2>7, <2>10, <3>1
    <3>5. QED BY <1>4, <2>2, <2>4, <2>5, <2>6, <2>7, <3>1, <3>2, <3>3, <3>4 DEF GhostInv
  <2>13. QED BY <2>11, <2>12
<1>7. QED BY <1>5, <1>6

\* The state of MaxDrawdownNAV between two values.
NavState == [peak : Nat, fall : [num : Nat, den : Nat \ {0}]]
NavBase(navs) == [peak |-> navs[1], fall |-> Fraction(0, 1)]
NavNext(s, nav) ==
  LET high == HigherPeak(s.peak, nav)
      fall == Fraction(high - nav, high)
  IN  [peak |-> high, fall |-> IF Below(s.fall, fall) THEN fall ELSE s.fall]
NavStep(navs) == [i \in 1 .. Len(navs) |-> [s \in NavState |-> NavNext(s, navs[i])]]

\* What a value makes of it, top the peak that it leaves.
Falls(s, nav, t, top) ==
  /\ t.peak = top
  /\ top \in Nat /\ top >= nav /\ top >= s.peak /\ top \in {s.peak, nav}
  /\ (top - nav) * s.fall.den > s.fall.num * top =>
       top # 0 /\ t.fall.num = top - nav /\ t.fall.den = top
  /\ ~((top - nav) * s.fall.den > s.fall.num * top) => t.fall = s.fall

LEMMA NavNextFacts ==
  ASSUME NEW s \in NavState, NEW nav \in Nat
  PROVE  NavNext(s, nav) \in NavState /\ Falls(s, nav, NavNext(s, nav), HigherPeak(s.peak, nav))
<1>1. PICK t : t = NavNext(s, nav)
  OBVIOUS
<1>2. PICK top : top = HigherPeak(s.peak, nav)
  OBVIOUS
<1>3. s.peak \in Nat /\ s.fall \in [num : Nat, den : Nat \ {0}]
      /\ s.fall.num \in Nat /\ s.fall.den \in Nat \ {0}
  BY DEF NavState
<1>4. top \in Nat /\ top >= nav /\ top >= s.peak /\ top \in {s.peak, nav}
  BY <1>3, <1>2 DEF HigherPeak
<1>5. PICK fall : fall = [num |-> top - nav, den |-> top]
  OBVIOUS
<1>6. t = [peak |-> top, fall |-> IF Below(s.fall, fall) THEN fall ELSE s.fall]
  BY <1>5, <1>2, <1>1, Zenon DEF NavNext, Fraction
<1>7. Below(s.fall, fall) <=> (top - nav) * s.fall.den > s.fall.num * top
  <2>1. fall.num = top - nav /\ fall.den = top
    BY <1>5
  <2>2. PICK a : a = s.fall.num * top
    OBVIOUS
  <2>3. PICK b : b = (top - nav) * s.fall.den
    OBVIOUS
  <2>4. a \in Int /\ b \in Int
    BY <1>3, <1>4, <2>2, <2>3
  <2>5. Below(s.fall, fall) <=> a < b
    BY <2>1, <2>2, <2>3, Zenon DEF Below
  <2>6. QED BY <2>2, <2>3, <2>4, <2>5
<1>8. CASE Below(s.fall, fall)
  <2>1. top # 0
    <3>1. CASE top = 0
      <4>1. nav = 0 /\ top - nav = 0
        BY <1>4, <3>1
      <4>2. (top - nav) * s.fall.den = 0 /\ s.fall.num * top = 0
        BY <1>3, <3>1, <4>1
      <4>3. QED BY <1>7, <1>8, <4>2
    <3>2. QED BY <3>1
  <2>2. t = [peak |-> top, fall |-> fall]
    BY <1>6, <1>8
  <2>3. fall \in [num : Nat, den : Nat \ {0}]
    BY <1>4, <1>5, <2>1
  <2>4. t \in NavState /\ t.peak = top /\ t.fall = fall
    BY <1>4, <2>2, <2>3 DEF NavState
  <2>5. t \in NavState /\ Falls(s, nav, t, top)
    BY <1>4, <1>5, <1>7, <1>8, <2>1, <2>4 DEF Falls
  <2>6. QED BY <2>5, <1>1, <1>2, Zenon
<1>9. CASE ~Below(s.fall, fall)
  <2>1. t = [peak |-> top, fall |-> s.fall]
    BY <1>6, <1>9
  <2>2. t \in NavState /\ t.peak = top /\ t.fall = s.fall
    BY <1>3, <1>4, <2>1 DEF NavState
  <2>3. t \in NavState /\ Falls(s, nav, t, top)
    BY <1>4, <1>7, <1>9, <2>2 DEF Falls
  <2>4. QED BY <2>3, <1>1, <1>2, Zenon
<1>10. QED BY <1>8, <1>9

LEMMA NavRun ==
  ASSUME NEW navs \in Seq(Nat), Len(navs) >= 2
  PROVE  \E K : /\ IsRun(K, Len(navs), NavState, NavBase(navs), NavStep(navs))
                /\ K[Len(navs)].fall = MaxDrawdown(navs)
<1>1. PICK n \in Nat : n = Len(navs) /\ DOMAIN navs = 1 .. n
  OBVIOUS
<1> DEFINE base == NavBase(navs)
           Keeps(g) == g = [s \in SUBSET DOMAIN navs |->
                              IF s = {} THEN base
                              ELSE LET x == Max(s) IN NavNext(g[s \ {x}], navs[x])]
           keeps == CHOOSE g : Keeps(g)
<1>2. PICK step : step = NavStep(navs)
  OBVIOUS
<1>3. ASSUME NEW i \in 1 .. n
      PROVE  /\ step[i] \in [NavState -> NavState]
             /\ \A s \in NavState : step[i][s] = NavNext(s, navs[i])
  <2>1. step[i] = [s \in NavState |-> NavNext(s, navs[i])]
    BY <1>1, <1>2 DEF NavStep
  <2>2. navs[i] \in Nat
    BY <1>1
  <2>3. \A s \in NavState : NavNext(s, navs[i]) \in NavState
    BY <2>2, NavNextFacts
  <2>4. QED BY <2>1, <2>3
<1>4. step \in [1 .. n -> [NavState -> NavState]]
  <2>1. step = [i \in 1 .. n |-> step[i]]
    BY <1>1, <1>2 DEF NavStep
  <2>2. QED BY <1>3, <2>1
<1>5. \A s \in SUBSET (1 .. n) : s # {} => Max(s) \in 1 .. n
  BY MaxIn
<1>6. base \in NavState
  <2>1. navs[1] \in Nat
    BY <1>1
  <2>2. QED BY <2>1 DEF NavBase, NavState, Fraction
<1> HIDE DEF base
<1>7. PICK g : IsFoldUp(g, n, NavState, base, step)
  BY <1>4, <1>6, FoldUpExists
<1>8. Keeps(g)
  <2>1. ASSUME NEW s \in SUBSET (1 .. n), s # {}
        PROVE  g[s] = NavNext(g[s \ {Max(s)}], navs[Max(s)])
    <3>1. g[s \ {Max(s)}] \in NavState
      BY <1>7 DEF IsFoldUp
    <3>2. g[s] = step[Max(s)][g[s \ {Max(s)}]]
      BY <1>7, <2>1 DEF IsFoldUp
    <3>3. QED BY <1>3, <1>5, <2>1, <3>1, <3>2
  <2>2. g[{}] = base
    BY <1>7 DEF IsFoldUp
  <2>3. g = [s \in SUBSET (1 .. n) |-> g[s]]
    BY <1>7 DEF IsFoldUp
  <2>4. \A s \in SUBSET (1 .. n) :
          g[s] = IF s = {} THEN base ELSE NavNext(g[s \ {Max(s)}], navs[Max(s)])
    BY <2>1, <2>2
  <2>5. QED BY <1>1, <2>3, <2>4, Zenon
<1>9. Keeps(keeps)
  <2> HIDE DEF Keeps
  <2>1. QED BY <1>8
<1>10. MaxDrawdown(navs) = keeps[1 .. n].fall
  BY <1>1 DEF MaxDrawdown, FoldLeft, MapThenFoldSet, NavNext, NavBase, base
<1> HIDE DEF keeps
<1>11. FoldsUp(keeps, n, NavState, base, step)
  <2>1. keeps[{}] = base
    BY <1>9
  <2>2. ASSUME NEW s \in SUBSET (1 .. n), s # {}, keeps[s \ {Max(s)}] \in NavState
        PROVE  keeps[s] = step[Max(s)][keeps[s \ {Max(s)}]]
    <3>1. keeps[s] = NavNext(keeps[s \ {Max(s)}], navs[Max(s)])
      BY <1>1, <1>9, <2>2
    <3>2. QED BY <1>3, <1>5, <2>2, <3>1
  <2>3. QED BY <2>1, <2>2 DEF FoldsUp
<1> HIDE DEF Keeps
<1>12. PICK K : IsRun(K, n, NavState, base, step) /\ K[n] = keeps[1 .. n]
  BY ONLY n \in Nat, <1>4, <1>6, <1>11, FoldRun
<1>13. QED BY <1>1, <1>2, <1>10, <1>12 DEF base

\* After m values, peak and fall are the highest of them and the deepest fall between two.
NavPeak(s, navs, m) ==
  /\ \A i \in 1 .. m : navs[i] <= s.peak
  /\ \E i \in 1 .. m : navs[i] = s.peak
NavFall(s, navs, m) ==
  /\ \A i, j \in 1 .. m :
       i <= j => (navs[i] - navs[j]) * s.fall.den <= s.fall.num * navs[i]
  /\ s.fall.num = 0 \/ \E i, j \in 1 .. m :
                         s.fall.num = navs[i] - navs[j] /\ s.fall.den = navs[i]

LEMMA NavStart ==
  ASSUME NEW navs \in Seq(Nat), Len(navs) > 0, NEW t, t = NavNext(NavBase(navs), navs[1])
  PROVE  t \in NavState /\ NavPeak(t, navs, 1) /\ NavFall(t, navs, 1)
<1>1. PICK nav \in Nat : nav = navs[1]
  OBVIOUS
<1>2. PICK s : s = NavBase(navs)
  OBVIOUS
<1>3. s \in NavState /\ s.peak = nav /\ s.fall.num = 0 /\ s.fall.den = 1
  BY <1>1, <1>2 DEF NavBase, NavState, Fraction
<1>4. PICK top : top = HigherPeak(s.peak, nav)
  OBVIOUS
<1>5. top = nav
  BY <1>1, <1>3, <1>4 DEF HigherPeak
<1>6. t \in NavState /\ t.peak = nav /\ t.fall = s.fall
  <2>1. t = NavNext(s, nav)
    BY <1>1, <1>2
  <2>2. t \in NavState /\ Falls(s, nav, t, top)
    BY <1>3, <1>4, <2>1, NavNextFacts
  <2>3. (top - nav) * s.fall.den = 0 /\ s.fall.num * top = 0
    BY <1>1, <1>3, <1>5
  <2>4. QED BY <1>5, <2>2, <2>3 DEF Falls
<1>7. \A i \in 1 .. 1 : i = 1
  OBVIOUS
<1>8. NavPeak(t, navs, 1)
  BY <1>1, <1>6, <1>7 DEF NavPeak
<1>9. (nav - nav) * 1 <= 0 * nav
  OBVIOUS
<1>10. NavFall(t, navs, 1)
  BY <1>1, <1>3, <1>6, <1>7, <1>9 DEF NavFall
<1>11. QED BY <1>6, <1>8, <1>10

LEMMA NavKeeps ==
  ASSUME NEW navs \in Seq(Nat), NEW m \in 1 .. Len(navs) - 1,
         NEW s \in NavState, NavPeak(s, navs, m), NavFall(s, navs, m),
         NEW t, t = NavNext(s, navs[m + 1])
  PROVE  t \in NavState /\ NavPeak(t, navs, m + 1) /\ NavFall(t, navs, m + 1)
<1>1. \A i \in 1 .. m + 1 : navs[i] \in Nat
  OBVIOUS
<1>2. PICK value \in Nat : value = navs[m + 1]
  BY <1>1
<1>3. PICK top : top = HigherPeak(s.peak, value)
  OBVIOUS
<1>4. PICK num \in Nat, den \in Nat \ {0} : num = s.fall.num /\ den = s.fall.den
  BY DEF NavState
<1>5. /\ t \in NavState /\ t.peak = top
      /\ top \in Nat /\ top >= value /\ top >= s.peak /\ top \in {s.peak, value}
      /\ (top - value) * den > num * top => top # 0 /\ t.fall.num = top - value /\ t.fall.den = top
      /\ ~((top - value) * den > num * top) => t.fall.num = num /\ t.fall.den = den
  <2>1. t = NavNext(s, value)
    BY <1>2
  <2>2. t \in NavState /\ Falls(s, value, t, top)
    BY <1>3, <2>1, NavNextFacts
  <2>3. QED BY <1>4, <2>2 DEF Falls
<1>6. s.peak \in Nat
  BY DEF NavState
<1>7. PICK at \in 1 .. m : navs[at] = s.peak
  BY DEF NavPeak
<1>8. \A i \in 1 .. m + 1 : navs[i] <= top
  <2>1. ASSUME NEW i \in 1 .. m PROVE navs[i] <= top
    <3>1. navs[i] <= s.peak /\ navs[i] \in Nat
      BY <1>1 DEF NavPeak
    <3>2. QED BY <1>5, <1>6, <3>1
  <2>2. QED BY <1>2, <1>5, <2>1
<1>9. \E i \in 1 .. m + 1 : navs[i] = top
  BY <1>2, <1>5, <1>7
<1>10. NavPeak(t, navs, m + 1)
  BY <1>5, <1>8, <1>9 DEF NavPeak
<1>11. \A i, j \in 1 .. m : i <= j => (navs[i] - navs[j]) * den <= num * navs[i]
  BY <1>4 DEF NavFall
<1>12. CASE (top - value) * den > num * top
  <2>1. top = s.peak
    <3>1. CASE top = value
      <4>1. (top - value) * den = 0 /\ num * top \in Nat
        BY <1>4, <1>5, <3>1
      <4>2. QED BY <1>12, <4>1
    <3>2. QED BY <1>5, <3>1
  <2>2. top - value \in Nat /\ top \in Nat \ {0}
    BY <1>5, <1>12
  <2>3. t.fall.num = top - value /\ t.fall.den = top
    BY <1>5, <1>12
  <2>4. ASSUME NEW i \in 1 .. m + 1, NEW j \in 1 .. m + 1, i <= j
        PROVE  (navs[i] - navs[j]) * top <= (top - value) * navs[i]
    <3>1. PICK from \in Nat, to \in Nat : from = navs[i] /\ to = navs[j]
      BY <1>1
    <3>2. CASE j <= m
      <4>1. i \in 1 .. m /\ j \in 1 .. m
        BY <2>4, <3>2
      <4>2. (from - to) * den <= num * from
        BY <1>11, <2>4, <3>1, <4>1
      <4>3. PICK fall \in Int, deeper \in Nat : fall = from - to /\ deeper = top - value
        BY <2>2
      <4>4. fall * den <= num * from /\ deeper * den > num * top
        BY <1>12, <4>2, <4>3
      <4>5. fall * top <= deeper * from
        <5>1. /\ fall \in Int /\ from \in Nat /\ num \in Nat /\ den \in Nat \ {0}
              /\ deeper \in Nat /\ top \in Nat \ {0}
          BY <2>2
        <5>2. QED BY ONLY <4>4, <5>1, DeeperCovers
      <4>6. QED BY <3>1, <4>3, <4>5
    <3>3. CASE j = m + 1
      <4>1. to = value /\ from <= top
        BY <1>2, <1>8, <3>1, <3>3
      <4>2. PICK deeper \in Nat : deeper = top - value
        BY <2>2
      <4>3. (top - value) * top <= deeper * top
        <5>1. deeper * top \in Nat
          BY <2>2, Product
        <5>2. QED BY <4>2, <5>1
      <4>4. (from - value) * top <= deeper * from
        <5>1. top \in Nat /\ from \in Nat /\ value \in Nat /\ deeper \in Nat /\ top \in Nat \ {0}
          BY <2>2
        <5>2. QED BY ONLY <4>1, <4>3, <5>1, PeakCovers
      <4>5. QED BY <3>1, <4>1, <4>2, <4>4
    <3>4. QED BY <3>2, <3>3
  <2>5. at \in 1 .. m + 1 /\ m + 1 \in 1 .. m + 1
        /\ t.fall.num = navs[at] - navs[m + 1] /\ t.fall.den = navs[at]
    BY <1>2, <1>7, <2>1, <2>3
  <2>6. NavFall(t, navs, m + 1)
    BY <2>3, <2>4, <2>5 DEF NavFall
  <2>7. QED BY <1>5, <1>10, <2>6
<1>13. CASE ~((top - value) * den > num * top)
  <2>1. t.fall.num = num /\ t.fall.den = den
    BY <1>5, <1>13
  <2>2. (top - value) * den <= num * top
    <3>1. PICK deeper \in Nat : deeper = top - value
      BY <1>5
    <3>2. deeper * den \in Nat /\ num * top \in Nat
      <4>1. deeper \in Nat /\ den \in Nat /\ num \in Nat /\ top \in Nat
        BY <1>5
      <4>2. QED BY ONLY <4>1, Product
    <3>3. ~(deeper * den > num * top)
      BY <1>13, <3>1
    <3>4. deeper * den <= num * top
      BY ONLY <3>2, <3>3
    <3>5. QED BY <3>1, <3>4
  <2>3. ASSUME NEW i \in 1 .. m + 1, NEW j \in 1 .. m + 1, i <= j
        PROVE  (navs[i] - navs[j]) * den <= num * navs[i]
    <3>1. PICK from \in Nat : from = navs[i]
      BY <1>1
    <3>2. CASE j <= m
      <4>1. i \in 1 .. m /\ j \in 1 .. m
        BY <2>3, <3>2
      <4>2. QED BY <1>11, <2>3, <4>1
    <3>3. CASE j = m + 1
      <4>1. from <= top
        BY <1>8, <3>1
      <4>2. (from - value) * den <= num * from
        <5>1. top \in Nat /\ from \in Nat /\ value \in Nat /\ num \in Nat /\ den \in Nat \ {0}
          BY <1>5
        <5>2. QED BY ONLY <2>2, <4>1, <5>1, PeakCovers
      <4>3. QED BY <1>2, <3>1, <3>3, <4>2
    <3>4. QED BY <3>2, <3>3
  <2>4. num = 0 \/ \E i, j \in 1 .. m + 1 : num = navs[i] - navs[j] /\ den = navs[i]
    <3>1. num = 0 \/ \E i, j \in 1 .. m : num = navs[i] - navs[j] /\ den = navs[i]
      BY <1>4 DEF NavFall
    <3>2. \A i \in 1 .. m : i \in 1 .. m + 1
      OBVIOUS
    <3>3. QED BY ONLY <3>1, <3>2
  <2>5. NavFall(t, navs, m + 1)
    BY <2>1, <2>3, <2>4 DEF NavFall
  <2>6. QED BY <1>5, <1>10, <2>5
<1>14. QED BY <1>12, <1>13

\* The drawdown of values is no smaller than any fall between two of them, and is one.
LEMMA NavSound ==
  ASSUME NEW navs \in Seq(Nat), Len(navs) > 0
  PROVE  LET Drop(i, j) == Fraction(navs[i] - navs[j], navs[i])
             drops == {Drop(i, j) : i \in DOMAIN navs, j \in DOMAIN navs} IN
         /\ \A i, j \in DOMAIN navs : i <= j => ~Below(MaxDrawdown(navs), Drop(i, j))
         /\ MaxDrawdown(navs) \in drops \/ MaxDrawdown(navs).num = 0
<1> DEFINE Drop(i, j) == Fraction(navs[i] - navs[j], navs[i])
           drops == {Drop(i, j) : i \in DOMAIN navs, j \in DOMAIN navs}
<1>1. PICK n \in Nat \ {0} : n = Len(navs) /\ DOMAIN navs = 1 .. n
  OBVIOUS
<1>2. \A i \in 1 .. n : navs[i] \in Nat
  BY <1>1
<1>3. CASE n = 1
  <2>1. MaxDrawdown(navs) = [num |-> 0, den |-> 1]
    <3>1. Len(navs) < 2
      BY <1>1, <1>3
    <3>2. MaxDrawdown(navs) = Fraction(0, 1)
      BY <3>1, Zenon DEF MaxDrawdown
    <3>3. QED BY <3>2 DEF Fraction
  <2>2. ASSUME NEW i \in DOMAIN navs, NEW j \in DOMAIN navs
        PROVE  ~Below(MaxDrawdown(navs), Drop(i, j))
    <3>1. i = 1 /\ j = 1
      BY <1>1, <1>3
    <3>2. Drop(i, j) = [num |-> 0, den |-> navs[1]]
      BY <1>2, <3>1 DEF Fraction
    <3>3. QED BY <1>2, <2>1, <3>2 DEF Below
  <2>3. QED BY <2>1, <2>2
<1>4. CASE n >= 2
  <2>1. PICK K : /\ IsRun(K, n, NavState, NavBase(navs), NavStep(navs))
                 /\ K[n].fall = MaxDrawdown(navs)
    BY <1>1, <1>4, NavRun
  <2>2. \A m \in 0 .. n - 1 : K[m] \in NavState /\ K[m + 1] = NavNext(K[m], navs[m + 1])
    <3> SUFFICES ASSUME NEW m \in 0 .. n - 1
                 PROVE  K[m] \in NavState /\ K[m + 1] = NavNext(K[m], navs[m + 1])
      OBVIOUS
    <3>1. K[m] \in NavState /\ K[m + 1] = NavStep(navs)[m + 1][K[m]]
      BY <2>1 DEF IsRun
    <3>2. m + 1 \in 1 .. Len(navs)
      BY <1>1
    <3>3. NavStep(navs)[m + 1] = [s \in NavState |-> NavNext(s, navs[m + 1])]
      BY <3>2 DEF NavStep
    <3>4. QED BY <3>1, <3>3
  <2> DEFINE G == {m \in Nat : m < n =>
                     K[m + 1] \in NavState /\ NavPeak(K[m + 1], navs, m + 1)
                     /\ NavFall(K[m + 1], navs, m + 1)}
  <2>3. 0 \in G
    <3>1. K[1] = NavNext(NavBase(navs), navs[1])
      BY <2>1, <2>2 DEF IsRun
    <3>2. K[1] \in NavState /\ NavPeak(K[1], navs, 1) /\ NavFall(K[1], navs, 1)
      BY <3>1, NavStart
    <3>3. QED BY <3>2
  <2>4. ASSUME NEW m \in Nat, m \in G PROVE m + 1 \in G
    <3>1. CASE m + 1 < n
      <4>1. PICK k \in 1 .. n - 1 : k = m + 1
        BY <3>1
      <4>2. K[k] \in NavState /\ NavPeak(K[k], navs, k) /\ NavFall(K[k], navs, k)
        BY <2>4, <4>1
      <4>3. K[k + 1] = NavNext(K[k], navs[k + 1])
        BY <2>2
      <4>4. /\ K[k + 1] \in NavState
            /\ NavPeak(K[k + 1], navs, k + 1) /\ NavFall(K[k + 1], navs, k + 1)
        BY <1>1, <4>2, <4>3, NavKeeps
      <4>5. QED BY <4>1, <4>4
    <3>2. CASE ~(m + 1 < n)
      BY <3>2
    <3>3. QED BY <3>1, <3>2
  <2>5. Nat \subseteq G
    <3> HIDE DEF G
    <3>1. QED BY <2>3, <2>4, NatSetInduction
  <2>6. K[n] \in NavState /\ NavFall(K[n], navs, n)
    <3>1. PICK k \in Nat : k + 1 = n
      OBVIOUS
    <3>2. k \in G
      BY <2>5
    <3>3. QED BY <3>1, <3>2
  <2>7. PICK fall : fall = MaxDrawdown(navs)
    OBVIOUS
  <2>8. fall \in [num : Nat, den : Nat \ {0}] /\ fall = K[n].fall
    BY <2>1, <2>6, <2>7 DEF NavState
  <2>9. ASSUME NEW i \in DOMAIN navs, NEW j \in DOMAIN navs, i <= j
        PROVE  ~Below(fall, Drop(i, j))
    <3>1. (navs[i] - navs[j]) * fall.den <= fall.num * navs[i]
      BY <1>1, <2>6, <2>8, <2>9 DEF NavFall
    <3>2. Drop(i, j).num = navs[i] - navs[j] /\ Drop(i, j).den = navs[i]
      BY DEF Fraction
    <3>3. PICK a : a = (navs[i] - navs[j]) * fall.den
      OBVIOUS
    <3>4. PICK b : b = fall.num * navs[i]
      OBVIOUS
    <3>5. a \in Int /\ b \in Int
      <4>1. navs[i] \in Nat /\ navs[j] \in Nat /\ fall.den \in Nat /\ fall.num \in Nat
        BY <1>1, <1>2, <2>8
      <4>2. PICK from \in Nat, to \in Nat, num \in Nat, den \in Nat :
              from = navs[i] /\ to = navs[j] /\ num = fall.num /\ den = fall.den
        BY <4>1
      <4>3. a = (from - to) * den /\ b = num * from
        BY <3>3, <3>4, <4>2
      <4>4. QED BY ONLY <4>3, from \in Nat, to \in Nat, num \in Nat, den \in Nat
    <3>6. a <= b
      BY <3>1, <3>3, <3>4
    <3>7. Below(fall, Drop(i, j)) <=> b < a
      <4> HIDE DEF Drop
      <4>1. QED BY <3>2, <3>3, <3>4, Zenon DEF Below
    <3>8. QED BY <3>5, <3>6, <3>7
  <2>10. fall \in drops \/ fall.num = 0
    <3>1. CASE fall.num # 0
      <4>1. PICK i \in 1 .. n, j \in 1 .. n : fall.num = navs[i] - navs[j] /\ fall.den = navs[i]
        BY <2>6, <2>8, <3>1 DEF NavFall
      <4>2. fall = [num |-> fall.num, den |-> fall.den]
        BY <2>8
      <4>3. fall = Drop(i, j)
        BY <4>1, <4>2, Zenon DEF Fraction
      <4>4. QED BY <1>1, <4>3
    <3>2. QED BY <3>1
  <2>11. QED BY <2>7, <2>9, <2>10
<1>5. QED BY <1>1, <1>3, <1>4

\* The benchmark over all bars.
LEMMA GhostHolds ==
  ASSUME NEW bars \in Seq(Bar), bars # <<>>, bars[1].close > 0
  PROVE  GhostInv(Ghost(bars), bars, Len(bars))
<1>1. PICK n \in Nat \ {0} : n = Len(bars)
  OBVIOUS
<1>2. PICK K : IsRun(K, n, GhostState, GhostBase, GhostStep(bars)) /\ K[n] = Ghost(bars)
  BY <1>1, GhostRun
<1>3. \A m \in 0 .. n - 1 : K[m] \in GhostState /\ K[m + 1] = GhostNext(K[m], bars, m + 1)
  <2> SUFFICES ASSUME NEW m \in 0 .. n - 1
               PROVE  K[m] \in GhostState /\ K[m + 1] = GhostNext(K[m], bars, m + 1)
    OBVIOUS
  <2>1. K[m] \in GhostState /\ K[m + 1] = GhostStep(bars)[m + 1][K[m]]
    BY <1>2 DEF IsRun
  <2>2. m + 1 \in 1 .. Len(bars)
    BY <1>1
  <2>3. GhostStep(bars)[m + 1] = [s \in GhostState |-> GhostNext(s, bars, m + 1)]
    BY <2>2 DEF GhostStep
  <2>4. QED BY <2>1, <2>3
<1> DEFINE G == {m \in Nat : m < n => GhostInv(K[m + 1], bars, m + 1)}
<1>4. 0 \in G
  <2>1. K[1] = GhostNext(GhostBase, bars, 1)
    BY <1>2, <1>3 DEF IsRun
  <2>2. GhostInv(K[1], bars, 1)
    BY <2>1, GhostStart
  <2>3. QED BY <2>2
<1>5. ASSUME NEW m \in Nat, m \in G PROVE m + 1 \in G
  <2>1. CASE m + 1 < n
    <3>1. PICK k \in 1 .. n - 1 : k = m + 1
      BY <2>1
    <3>2. GhostInv(K[k], bars, k)
      BY <1>5, <3>1
    <3>3. GhostInv(K[k + 1], bars, k + 1)
      BY <1>1, <1>3, <3>2, GhostKeeps
    <3>4. QED BY <3>1, <3>3
  <2>2. CASE ~(m + 1 < n)
    BY <2>2
  <2>3. QED BY <2>1, <2>2
<1>6. Nat \subseteq G
  <2> HIDE DEF G
  <2>1. QED BY <1>4, <1>5, NatSetInduction
<1>7. PICK k \in Nat : k + 1 = n
  OBVIOUS
<1>8. k \in G
  BY <1>6
<1>9. QED BY <1>1, <1>2, <1>7, <1>8

\* Without injections nothing is weighed.
LEMMA NothingWeighed ==
  ASSUME NEW bars PROVE Weighted(bars, <<>>) = 0
<1> DEFINE Keeps(g) == g = [s \in SUBSET DOMAIN <<>> |->
                              IF s = {} THEN 0
                              ELSE LET x == Max(s) IN
                                   g[s \ {x}] + MonthlyInject * (Last(bars).at - <<>>[x])]
           keeps == CHOOSE g : Keeps(g)
<1>1. DOMAIN <<>> = {}
  OBVIOUS
<1>2. Keeps([s \in SUBSET {} |-> 0])
  BY <1>1
<1>3. Keeps(keeps)
  <2> HIDE DEF Keeps
  <2>1. QED BY <1>2
<1>4. Weighted(bars, <<>>) = keeps[{}]
  BY <1>1 DEF Weighted, FoldLeft, MapThenFoldSet
<1> HIDE DEF keeps
<1>5. keeps[{}] = 0
  BY <1>1, <1>3
<1>6. QED BY <1>4, <1>5

\* Shares are whole.
Whole(bars) ==
  \A i \in DOMAIN bars : bars[i].close > 0 =>
    SeedCapital % bars[i].close = 0 /\ MonthlyInject % bars[i].close = 0

\* In a market that stands still the return is nothing.
LEMMA StillNoReturn ==
  ASSUME NEW bars, InOrder(bars), bars[1].close > 0, NEW end \in Int,
         NEW flows \in Seq(Nat),
         end = SeedCapital + MonthlyInject * Len(flows),
         Len(bars) = 1 => Len(flows) = 0
  PROVE  ROI(bars, end, flows).num = 0
<1>1. PICK k \in Nat : k = Len(flows)
  OBVIOUS
<1>2. SeedCapital \in Nat \ {0} /\ MonthlyInject \in Nat
  BY BenchmarkAssumption
<1>3. PICK n \in Nat \ {0} : n = Len(bars) /\ DOMAIN bars = 1 .. n
  BY DEF InOrder
<1>4. bars[1] \in Bar /\ bars[n] \in Bar
  BY <1>3 DEF InOrder
<1>5. bars[1].at \in Nat /\ bars[n].at \in Nat /\ Days(bars) = bars[n].at - bars[1].at
  BY <1>3, <1>4 DEF Bar, Days, Last
<1>6. CASE Days(bars) = 0
  <2>1. n = 1
    <3>1. CASE n > 1
      <4>1. bars[1].at < bars[n].at
        BY <1>3, <3>1 DEF InOrder
      <4>2. QED BY <1>5, <1>6, <4>1
    <3>2. QED BY <3>1
  <2>2. k = 0
    BY <1>1, <1>3, <2>1
  <2>3. end - SeedCapital = 0
    BY <1>1, <1>2, <2>2
  <2>4. ROI(bars, end, flows) = Fraction(end - SeedCapital, SeedCapital)
    BY <1>6, Zenon DEF ROI
  <2>5. QED BY <2>3, <2>4 DEF Fraction
<1>7. CASE Days(bars) # 0
  <2>1. PICK gain \in Int : gain = end - SeedCapital - Len(flows) * MonthlyInject
    <3>1. PICK injected \in Nat : injected = Len(flows) * MonthlyInject
      BY <1>1, <1>2, Product
    <3>2. QED BY <1>2, <3>1
  <2>2. gain = 0
    <3>1. MonthlyInject * k = k * MonthlyInject /\ MonthlyInject * k \in Nat
      BY <1>2
    <3>2. QED BY <1>1, <1>2, <2>1, <3>1
  <2>3. ROI(bars, end, flows) =
          Fraction((end - SeedCapital - Len(flows) * MonthlyInject) * Days(bars),
                   SeedCapital * Days(bars) + Weighted(bars, flows))
    BY <1>7, Zenon DEF ROI
  <2>4. ROI(bars, end, flows).num = gain * Days(bars)
    BY <2>1, <2>3 DEF Fraction
  <2>5. QED BY <1>5, <2>2, <2>4
<1>8. QED BY <1>6, <1>7

\* Without injections the return is that of the capital.
LEMMA PlainReturn ==
  ASSUME NEW bars, InOrder(bars), NEW end \in Int
  PROVE  Equal(ROI(bars, end, <<>>), Fraction(end - SeedCapital, SeedCapital))
<1>1. SeedCapital \in Nat \ {0} /\ MonthlyInject \in Nat
  BY BenchmarkAssumption
<1>2. PICK gain \in Int : gain = end - SeedCapital
  BY <1>1
<1>3. PICK f : f = Fraction(gain, SeedCapital)
  OBVIOUS
<1>4. f.num = gain /\ f.den = SeedCapital
  BY <1>3 DEF Fraction
<1>5. PICK roi : roi = ROI(bars, end, <<>>)
  OBVIOUS
<1>6. CASE Days(bars) = 0
  <2>1. roi = f
    BY <1>2, <1>3, <1>5, <1>6, Zenon DEF ROI
  <2>2. QED BY <1>2, <1>3, <1>5, <2>1, Zenon DEF Equal
<1>7. CASE Days(bars) # 0
  <2>1. PICK d \in Int : d = Days(bars)
    <3>1. PICK n \in Nat \ {0} : n = Len(bars) /\ DOMAIN bars = 1 .. n
      BY DEF InOrder
    <3>2. bars[1] \in Bar /\ bars[n] \in Bar
      BY <3>1 DEF InOrder
    <3>3. QED BY <3>1, <3>2 DEF Bar, Days, Last
  <2>2. roi = Fraction((end - SeedCapital - Len(<<>>) * MonthlyInject) * Days(bars),
                       SeedCapital * Days(bars) + Weighted(bars, <<>>))
    BY <1>5, <1>7, Zenon DEF ROI
  <2>3. end - SeedCapital - Len(<<>>) * MonthlyInject = gain
    BY <1>1, <1>2
  <2>4. roi.num = gain * d /\ roi.den = SeedCapital * d + 0
    BY <2>1, <2>2, <2>3, NothingWeighed DEF Fraction
  <2>5. (gain * d) * SeedCapital = gain * (SeedCapital * d + 0)
    BY ONLY gain \in Int, d \in Int, <1>1
  <2>6. roi.num * f.den = f.num * roi.den
    BY <1>4, <2>4, <2>5
  <2>7. QED BY <1>2, <1>3, <1>5, <2>6, Zenon DEF Equal
<1>8. QED BY <1>6, <1>7

\* A multiple is none the less.
LEMMA Multiple ==
  ASSUME NEW k \in Nat, NEW m \in Nat \ {0}
  PROVE  (m * k) % m = 0
  OBVIOUS

\* What whole division leaves.
LEMMA Division ==
  ASSUME NEW a \in Nat, NEW m \in Nat \ {0}
  PROVE  /\ a \div m \in Nat /\ a % m \in 0 .. m - 1
         /\ a = m * (a \div m) + (a % m)
  OBVIOUS

\* A larger factor adds at least the other one.
LEMMA NextMultiple ==
  ASSUME NEW j \in Nat, NEW k \in Nat, NEW m \in Nat, j < k
  PROVE  m * j + m <= m * k
<1>1. m * (k - j - 1) \in Nat
  BY k - j - 1 \in Nat, Product
<1>2. m * k = m * j + m + m * (k - j - 1)
  OBVIOUS
<1>3. m * j \in Nat /\ m * k \in Nat
  BY Product
<1>4. QED BY <1>1, <1>2, <1>3

\* The quotients by which the code tells months apart differ when a period has begun between.
LEMMA MonthsArePeriods ==
  ASSUME NEW a \in Bar, NEW b \in Bar
  PROVE  Month(a) < Month(b) <=> PeriodBegins(a.at, b.at)
<1>1. PICK m \in Nat \ {0} : m = MonthBars
  BY BenchmarkAssumption
<1>2. PICK s \in Nat, e \in Nat : s = a.at /\ e = b.at
  BY DEF Bar
<1>3. PICK j \in Nat, r \in 0 .. m - 1 : s = m * j + r /\ Month(a) = j
  BY <1>1, <1>2, Division DEF Month
<1>4. PICK k \in Nat, q \in 0 .. m - 1 : e = m * k + q /\ Month(b) = k
  BY <1>1, <1>2, Division DEF Month
<1>5. ASSUME j < k PROVE \E t \in s + 1 .. e : t % m = 0
  <2>1. PICK t \in Nat : t = m * k
    BY Product
  <2>2. m * j + m <= t /\ m * j \in Nat
    BY <1>5, <2>1, NextMultiple, Product
  <2>3. t \in s + 1 .. e
    BY <1>3, <1>4, <2>1, <2>2
  <2>4. t % m = 0
    BY <2>1, Multiple
  <2>5. QED BY <2>3, <2>4
<1>6. ASSUME NEW t \in s + 1 .. e, t % m = 0 PROVE j < k
  <2>1. PICK i \in Nat : t = m * i
    <3>1. t \in Nat
      BY <1>2
    <3>2. PICK i \in Nat, rest \in Nat : i = t \div m /\ rest = t % m /\ t = m * i + rest
      BY <3>1, Division
    <3>3. rest = 0 /\ m * i \in Nat
      BY <1>6, <3>2, Product
    <3>4. t = m * i
      BY <3>2, <3>3
    <3>5. QED BY <3>4
  <2>2. m * i \in Nat /\ m * j \in Nat /\ m * k \in Nat
    BY Product
  <2>3. ~(k < i)
    <3>1. ASSUME k < i PROVE FALSE
      <4>1. m * k + m <= m * i
        BY <3>1, NextMultiple
      <4>2. QED BY <1>4, <2>1, <2>2, <4>1
    <3>2. QED BY <3>1
  <2>4. ~(i < j) /\ i # j
    <3>1. ASSUME i < j PROVE FALSE
      <4>1. m * i + m <= m * j
        BY <3>1, NextMultiple
      <4>2. QED BY <1>3, <2>1, <2>2, <4>1
    <3>2. ASSUME i = j PROVE FALSE
      BY <1>3, <2>1, <2>2, <3>2
    <3>3. QED BY <3>1, <3>2
  <2>5. QED BY <2>3, <2>4
<1>7. QED BY <1>1, <1>2, <1>3, <1>4, <1>5, <1>6 DEF PeriodBegins

\* The passive benchmark (SimulateGhostDCA, ghost_dca.go:27) buys at the first price of every
\* 30 days, with the return and the drawdown of that, over every series of bars in the order
\* of their times of whose closes the amounts are multiples.
THEOREM Passive ==
  ASSUME NEW bars, InOrder(bars), Whole(bars)
  PROVE  GhostSound(bars)
<1> DEFINE g == Ghost(bars)
           priced == {i \in DOMAIN bars : bars[i].close > 0}
           buys == {i \in priced :
                      \A j \in priced : j < i => PeriodBegins(bars[j].at, bars[i].at)}
           bought == [i \in priced |->
                        (IF i = 1 THEN SeedCapital ELSE MonthlyInject) \div bars[i].close]
           end == Last(g.navs)
           roi == ROI(bars, end, g.flows)
<1>1. PICK n \in Nat \ {0} : n = Len(bars) /\ DOMAIN bars = 1 .. n
  BY DEF InOrder
<1>2. bars \in Seq(Bar) /\ bars # <<>>
  BY DEF InOrder
<1> SUFFICES ASSUME 1 \in priced PROVE GhostSound(bars)
  BY DEF GhostSound
<1>3. bars[1].close > 0
  OBVIOUS
<1>4. PICK s : s = g
  OBVIOUS
<1>5. priced = Priced(bars, n) /\ buys = Buys(bars, n) /\ bought = Bought(bars)
  <2>1. priced = Priced(bars, n)
    BY <1>1 DEF Priced
  <2>2. \A i, j \in priced :
          PeriodBegins(bars[j].at, bars[i].at) <=> Month(bars[j]) < Month(bars[i])
    <3> SUFFICES ASSUME NEW i \in priced, NEW j \in priced
                 PROVE  PeriodBegins(bars[j].at, bars[i].at) <=> Month(bars[j]) < Month(bars[i])
      OBVIOUS
    <3>1. bars[i] \in Bar /\ bars[j] \in Bar
      BY <1>1, <1>2
    <3>2. QED BY <3>1, MonthsArePeriods
  <2> HIDE DEF priced
  <2>3. buys = Buys(bars, n)
    BY <2>1, <2>2 DEF Buys
  <2>4. bought = Bought(bars)
    BY <1>1, <2>1 DEF Bought
  <2> HIDE DEF buys, bought
  <2>5. QED BY <2>1, <2>3, <2>4
<1>6. GhostInv(s, bars, n)
  BY <1>1, <1>2, <1>3, <1>4, GhostHolds
<1>7. s \in GhostState /\ s.navs \in Seq(Nat) /\ s.flows \in Seq(Nat) /\ s.shares \in Nat
      /\ s.injected \in Nat
  BY <1>6 DEF GhostInv, GhostState
<1>8. PICK c \in Nat : c = Cardinality(buys) /\ s.injected = SeedCapital + MonthlyInject * (c - 1)
                       /\ Len(s.flows) = c - 1
  <2>1. n \in 1 .. Len(bars)
    BY <1>1
  <2>2. Cardinality(Buys(bars, n)) \in Nat
    BY <1>2, <1>3, <2>1, PricedFacts
  <2> HIDE DEF buys
  <2>3. QED BY <1>5, <1>6, <2>2 DEF GhostInv
<1>9. end = s.navs[Len(s.navs)] /\ Len(s.navs) > 0 /\ end \in Nat
  <2>1. Len(s.navs) > 0
    BY <1>6 DEF GhostInv
  <2>2. QED BY <1>4, <1>7, <2>1 DEF Last
<1>10. s.injected = SeedCapital + MonthlyInject * (Cardinality(buys) - 1)
  <2> HIDE DEF buys
  <2>1. QED BY <1>8
<1>11. end = SumFunctionOnSet(bought, buys) * bars[Max(priced)].close
  <2> HIDE DEF buys, bought, priced, end
  <2>1. QED BY <1>5, <1>6, <1>9 DEF GhostInv
<1>12. Max(priced) \in priced
  <2>1. n \in 1 .. Len(bars)
    BY <1>1
  <2>2. Max(Priced(bars, n)) \in Priced(bars, n)
    BY <1>2, <1>3, <2>1, PricedFacts
  <2> HIDE DEF priced
  <2>3. QED BY <1>5, <2>2
<1>13. ASSUME \A i, j \in priced : bars[i].close = bars[j].close PROVE roi.num = 0
  <2>1. Still(bars)
    <3>1. 1 \in DOMAIN bars
      BY <1>1
    <3>2. SeedCapital % bars[1].close = 0 /\ MonthlyInject % bars[1].close = 0
      BY <1>3, <3>1 DEF Whole
    <3>3. \A i, j \in Priced(bars, n) : bars[i].close = bars[j].close
      <4> HIDE DEF priced
      <4>1. QED BY <1>5, <1>13
    <3>4. QED BY <1>1, <3>2, <3>3 DEF Still
  <2>2. s.shares * bars[1].close = s.injected
    BY <1>6, <2>1 DEF GhostInv
  <2>3. bars[Max(priced)].close = bars[1].close
    <3> HIDE DEF priced
    <3>1. QED BY <1>12, <1>13
  <2>4. end = s.injected
    <3> HIDE DEF priced, end
    <3>1. QED BY <1>5, <1>6, <1>9, <2>2, <2>3 DEF GhostInv
  <2>5. end = SeedCapital + MonthlyInject * Len(s.flows)
    BY <1>8, <2>4
  <2>6. ASSUME Len(bars) = 1 PROVE Len(s.flows) = 0
    <3>1. n = 1 /\ 1 .. 1 = {1}
      BY <1>1, <2>6
    <3>2. buys = {1}
      BY <1>1, <1>3, <3>1
    <3>3. Cardinality({1}) = 1
      BY FS_Singleton
    <3> HIDE DEF buys
    <3>4. QED BY <1>8, <3>2, <3>3
  <2> HIDE DEF end
  <2>7. ROI(bars, end, s.flows).num = 0
    BY <1>3, <1>7, <1>9, <2>5, <2>6, StillNoReturn
  <2>8. QED BY <1>4, <2>7
<1>14. ASSUME buys = {1} PROVE Equal(roi, Fraction(end - SeedCapital, SeedCapital))
  <2>1. Cardinality({1}) = 1
    BY FS_Singleton
  <2>2. Len(s.flows) = 0
    <3> HIDE DEF buys
    <3>1. QED BY <1>8, <1>14, <2>1
  <2>3. s.flows = <<>>
    BY <1>7, <2>2
  <2> HIDE DEF end
  <2>4. Equal(ROI(bars, end, <<>>), Fraction(end - SeedCapital, SeedCapital))
    BY <1>9, PlainReturn
  <2>5. QED BY <1>4, <2>3, <2>4
<1>15. LET Drop(i, j) == Fraction(s.navs[i] - s.navs[j], s.navs[i])
           drops == {Drop(i, j) : i \in DOMAIN s.navs, j \in DOMAIN s.navs} IN
       /\ \A i, j \in DOMAIN s.navs : i <= j => ~Below(MaxDrawdown(s.navs), Drop(i, j))
       /\ MaxDrawdown(s.navs) \in drops \/ MaxDrawdown(s.navs).num = 0
  BY <1>7, <1>9, NavSound
<1>16. s = Ghost(bars)
  BY <1>4
<1>17. QED BY <1>10, <1>11, <1>13, <1>14, <1>15, <1>16 DEF GhostSound

\* So what the run checks of the passive benchmark and the windows over short series
\* (ghost_dca.go:27, crucible.go:30) holds for every seed and injection that are multiples of
\* their closes, whatever the lengths of the 30 days in bars, of warm-up and of evaluations.
THEOREM Measured ==
  ASSUME \A c \in 1 .. 2 : SeedCapital % c = 0 /\ MonthlyInject % c = 0
  PROVE  Spec => []BenchmarkRight
<1>1. ASSUME NEW bars \in Series PROVE GhostSound(bars) /\ WindowsSound(bars)
  <2>1. PICK n \in 1 .. 5 : \E t \in Times(n), closes \in [1 .. n -> 0 .. 2] :
                              bars = [i \in 1 .. n |-> [at |-> t[i], close |-> closes[i]]]
    BY DEF Series
  <2>2. PICK t \in Times(n), closes \in [1 .. n -> 0 .. 2] :
               bars = [i \in 1 .. n |-> [at |-> t[i], close |-> closes[i]]]
    BY <2>1
  <2>3. /\ n \in Nat \ {0} /\ t \in [1 .. n -> 1 .. 5] /\ DOMAIN bars = 1 .. n
        /\ \A i, j \in 1 .. n : i < j => t[i] < t[j]
        /\ \A i \in 1 .. n : bars[i] = [at |-> t[i], close |-> closes[i]]
    BY <2>2 DEF Times
  <2>4. \A i \in 1 .. n : /\ bars[i] \in Bar /\ bars[i].at = t[i]
                          /\ bars[i].close \in 0 .. 2
    <3> SUFFICES ASSUME NEW i \in 1 .. n
                 PROVE  bars[i] \in Bar /\ bars[i].at = t[i] /\ bars[i].close \in 0 .. 2
      OBVIOUS
    <3>1. t[i] \in 1 .. 5 /\ closes[i] \in 0 .. 2
      BY <2>3
    <3>2. bars[i] = [at |-> t[i], close |-> closes[i]]
      BY <2>3
    <3>3. t[i] \in Nat /\ closes[i] \in Int
      BY <3>1
    <3>4. QED BY <3>1, <3>2, <3>3 DEF Bar
  <2>5. bars \in Seq(Bar) /\ bars # <<>>
    BY <2>2, <2>3, <2>4
  <2>6. InOrder(bars)
    BY <2>3, <2>4, <2>5 DEF InOrder
  <2>7. Whole(bars)
    <3>1. ASSUME NEW i \in DOMAIN bars, bars[i].close > 0
          PROVE  SeedCapital % bars[i].close = 0 /\ MonthlyInject % bars[i].close = 0
      <4>1. bars[i].close \in 1 .. 2
        BY <2>3, <2>4, <3>1
      <4>2. QED BY <4>1
    <3>2. QED BY <3>1 DEF Whole
  <2>8. QED BY <2>6, <2>7, Passive, Windows
<1>2. BenchmarkRight
  BY <1>1 DEF BenchmarkRight
<1>3. QED BY <1>2, PTL
=============================================================================
