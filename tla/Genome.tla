------------------------------- MODULE Genome -------------------------------
(***************************************************************************)
(* ClampChromosome (internal/quant/genome.go): every gene that the search  *)
(* makes or loads passes through it.  Of the fifteen fields these are the  *)
(* ones with structural constraints and the ones that GoldenCross reads;   *)
(* the others are only clipped.  Fractions are in 200ths.                  *)
(***************************************************************************)
EXTENDS Integers

ClipTo(v, lo, hi) == IF v < lo THEN lo ELSE IF v > hi THEN hi ELSE v

\* HardBounds.
Bounds ==
  [emaShort |-> <<5, 55>>, emaLong |-> <<20, 200>>, interval |-> <<7, 90>>,
   accelMultiplier |-> <<1, 5>>, softReleaseMonths |-> <<1, 24>>,
   maxSoftReleasePct |-> <<5, 50>>, deadHoldTarget |-> <<20, 180>>,
   microReserve |-> <<10, 100>>]

InBounds(c) == [f \in DOMAIN Bounds |-> ClipTo(c[f], Bounds[f][1], Bounds[f][2])]

\* The short average is shorter than the long one.
OrderEmas(c) ==
  IF c.emaShort < c.emaLong THEN c
  ELSE IF c.emaShort + 1 > 200 THEN [c EXCEPT !.emaShort = 199, !.emaLong = 200]
  ELSE [c EXCEPT !.emaLong = c.emaShort + 1]

\* Dead hold and reserve take at most 95 percent; each gives half of the excess.
LimitReserves(c) ==
  LET excess == c.deadHoldTarget + c.microReserve - 190
      Less(v, floor) == IF v - excess \div 2 < floor THEN floor ELSE v - excess \div 2
  IN  IF excess <= 0 THEN c
      ELSE [c EXCEPT !.microReserve = Less(@, 10), !.deadHoldTarget = Less(@, 20)]

ClampUnordered(c) == LimitReserves(InBounds(c))       \* mutant: the order is not repaired
ClampChromosome(c) == LimitReserves(OrderEmas(InBounds(c)))

\* Raw genes around every bound (even sums, as halves of the excess are exact in the code).
RawGenes ==
  [emaShort : {4, 5, 30, 55, 56}, emaLong : {19, 20, 30, 55, 201}, interval : {6, 7, 91},
   accelMultiplier : {1, 6}, softReleaseMonths : {0, 1}, maxSoftReleasePct : {50, 51},
   deadHoldTarget : {18, 20, 100, 150, 180, 182}, microReserve : {8, 10, 40, 100, 102}]

\* What the rest of the code relies on: bounds, order and room for spending all hold at
\* once, although repairing one may disturb another; and clamping again changes nothing.
ClampSound ==
  \A raw \in RawGenes :
    LET c == ClampChromosome(raw) IN
    /\ \A f \in DOMAIN Bounds : c[f] \in Bounds[f][1] .. Bounds[f][2]
    /\ c.emaShort < c.emaLong
    /\ c.deadHoldTarget + c.microReserve <= 190
    /\ ClampChromosome(c) = c

=============================================================================
