-------------------------------- MODULE Lots --------------------------------
(***************************************************************************)
(* The position lots of internal/quant/lot.go and the two releases that    *)
(* turn dead-hold lots into floating ones.  A lot is its type, amount, day *)
(* of creation and seal; the cost price is left out, for nothing reads it. *)
(*                                                                         *)
(* Both releases write through the slice they are given: they draw from    *)
(* its lots in place and then compact it with lots[:0].  So the result of  *)
(* a release has three parts: the slice returned, the amount, and what the *)
(* caller's own slice shows afterwards.                                    *)
(***************************************************************************)
EXTENDS Integers, SequencesExt

Lesser(a, b) == IF a <= b THEN a ELSE b
Greater(a, b) == IF a >= b THEN a ELSE b

Releasable(l) == l.type = "dead" /\ ~l.sealed
Where(lots, Test(_)) == {k \in DOMAIN lots : Test(lots[k])}
AmountOf(lots, S) == SumFunctionOnSet([k \in DOMAIN lots |-> lots[k].amount], S)
Total(lots) == AmountOf(lots, DOMAIN lots)
TotalDeadHold(lots) == AmountOf(lots, Where(lots, Releasable))
TotalFloatHold(lots) == AmountOf(lots, Where(lots, LAMBDA l : l.type = "float"))

\* The lots of S give, the first one first, until the amount is reached.
Draw(lots, S, amount) ==
  [k \in DOMAIN lots |->
     IF k \notin S THEN lots[k]
     ELSE LET remaining == Greater(0, amount - AmountOf(lots, {j \in S : j < k}))
          IN  [lots[k] EXCEPT !.amount = @ - Lesser(@, remaining)]]

\* The lots that still hold something, in their order.
Compact(lots) ==
  FoldLeft(LAMBDA kept, l : IF l.amount > 0 THEN Append(kept, l) ELSE kept, <<>>, lots)

\* Draw, drop the empty lots, append the floating lot made of what was drawn.  The caller
\* sees the compacted lots in front and what the compaction has not overwritten behind.
Release(lots, S, amount, day) ==
  LET drawn == Draw(lots, S, amount)
      result == Append(Compact(drawn),
                       [type |-> "float", amount |-> amount, at |-> day, sealed |-> FALSE])
  IN  [lots |-> result, amount |-> amount,
       seen |-> [k \in DOMAIN lots |-> IF k <= Len(result) THEN result[k] ELSE drawn[k]]]

NoRelease(lots) == [lots |-> lots, amount |-> 0, seen |-> lots]

Aged(lots, day, months) == Where(lots, LAMBDA l : Releasable(l) /\ l.at < day - 30 * months)

\* SoftRelease: of what exceeds the target, aged lots only, at most a fraction.  The
\* target is in 200ths of the equity, the fraction in percent; shares are whole.
SoftAmount(lots, day, price, equity, c) ==
  LET dead == TotalDeadHold(lots)
      excess == dead - (c.deadHoldTarget * equity) \div (200 * price)
  IN  Lesser(excess, Lesser(AmountOf(lots, Aged(lots, day, c.softReleaseMonths)),
                            (dead * c.maxSoftReleasePct) \div 100))

SoftRelease(lots, day, price, equity, c) ==
  LET amount == SoftAmount(lots, day, price, equity, c)
  IN  IF c.softReleaseMonths < 1 \/ equity <= 0 \/ amount <= 0 THEN NoRelease(lots)
      ELSE Release(lots, Aged(lots, day, c.softReleaseMonths), amount, day)

\* HardRelease: whatever is not sealed, up to what is needed; dated like the first lot.
HardSourceSealed(lots) == Where(lots, LAMBDA l : l.type = "dead")   \* mutant: sealed lots too
HardSource(lots) == Where(lots, Releasable)

HardRelease(lots, needed) ==
  LET amount == Lesser(needed, AmountOf(lots, HardSource(lots)))
  IN  IF amount <= 0 THEN NoRelease(lots)
      ELSE Release(lots, HardSource(lots), amount, lots[1].at)

-----------------------------------------------------------------------------
\* What a release promises: it moves its amount from the lots of S to a floating lot, in
\* full, and leaves every other lot as it is.
ReleaseSound(lots, S, r) ==
  LET others == [k \in DOMAIN lots |-> IF k \in S THEN [lots[k] EXCEPT !.amount = 0] ELSE lots[k]]
  IN  r.amount > 0 =>
        /\ Total(r.lots) = Total(lots)
        /\ TotalFloatHold(r.lots) = TotalFloatHold(lots) + r.amount
        /\ r.amount <= AmountOf(lots, S)
        /\ \A k \in DOMAIN others : others[k].amount > 0 =>
             \E j \in DOMAIN r.lots : r.lots[j] = others[k]

=============================================================================
