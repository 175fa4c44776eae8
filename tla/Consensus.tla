----------------------------- MODULE Consensus -----------------------------
(***************************************************************************)
(* internal/app/consensus.go: the arithmetic of the consensus price, as    *)
(* operators over the sequence of values collected from the providers.     *)
(* Prices are integers; a median is kept doubled, so that the mean of the  *)
(* two middle values of an even number of prices is exact.                 *)
(***************************************************************************)
EXTENDS Integers, Sequences, FiniteSets

\* sort.Slice by value: ascending, every value as often as before.
Count(s, v) == Cardinality({i \in DOMAIN s : s[i] = v})

IsSortOf(s, prices) ==
    /\ \A i, j \in DOMAIN s : i < j => s[i] <= s[j]
    /\ \A i \in DOMAIN prices : Count(s, prices[i]) = Count(prices, prices[i])

\* (Mutant: the prices are not sorted.)
SortPrices_Missing(prices) == prices

SortPrices(prices) ==
    CHOOSE s \in [DOMAIN prices -> {prices[i] : i \in DOMAIN prices}] : IsSortOf(s, prices)

\* median of a sorted sequence, times two (Go indexes from 0, TLA+ from 1).
Median2(sorted) ==
    LET n == Len(sorted)
    IN  CASE n = 0             -> 0
          [] n > 0 /\ n % 2 = 1 -> 2 * sorted[n \div 2 + 1]
          [] n > 0 /\ n % 2 = 0 -> sorted[n \div 2] + sorted[n \div 2 + 1]

Abs(x) == IF x < 0 THEN -x ELSE x

\* |value - median| / median * 100 > maxDeviation, without the division: with
\* a negative median the quotient is not positive and nothing deviates.
Deviates(value, median2, maxDeviation) ==
    median2 > 0 /\ Abs(2 * value - median2) * 100 > maxDeviation * median2

\* computeResult.  Confidence is valid / total.
ComputeResult(prices, maxDeviation) ==
    LET sorted  == SortPrices(prices)
        median2 == Median2(sorted)
        valid   == {i \in DOMAIN sorted : ~Deviates(sorted[i], median2, maxDeviation)}
    IN  [median2 |-> median2,
         total   |-> Len(prices),
         valid   |-> IF median2 = 0 THEN 0 ELSE Cardinality(valid)]

=============================================================================
