---------------------------- MODULE SavedPrices ----------------------------
(***************************************************************************)
(* The pure parts over every sequence of prices, in every order of         *)
(* arrival: the consensus of the values, the stores' answers when the      *)
(* prices are saved, and conversions between any two of them.              *)
(***************************************************************************)
EXTENDS Consensus, PriceStores, Conversion

CONSTANTS
    Samples,    \* the prices that arrive: records [value, at]
    MaxPrices,  \* bound: how many
    Deviation,  \* consensus.max_deviation
    Windows,    \* the windows <<from, to>> that candles are asked for
    Intervals,  \* the intervals of candles
    Amounts     \* the amounts converted

ASSUME SavedConstants ==
    /\ Samples \subseteq [value : Nat, at : Nat]
    /\ MaxPrices \in Nat /\ Deviation \in Nat
    /\ Windows \subseteq Nat \X Nat
    /\ Intervals \subseteq Nat \ {0}
    /\ Amounts \subseteq Nat

VARIABLE saved

SavedInit == saved = <<>>

\* A price arrives: Compute appends it to its answers, Save to the store.
AppendPrice(p) ==
    /\ Len(saved) < MaxPrices
    /\ saved' = Append(saved, p)

SavedNext == \E p \in Samples : AppendPrice(p)

SavedSpec == SavedInit /\ [][SavedNext]_saved

SavedTypeOK == saved \in Seq(Samples)

----------------------------------------------------------------------------
(* Consensus *)

Prices == [i \in DOMAIN saved |-> saved[i].value]

Combined == ComputeResult(Prices, Deviation)

\* Against the definition of a median: at least half of the prices are not
\* above it and at least half are not below it.
MedianSplits ==
    /\ 2 * Cardinality({i \in DOMAIN Prices : 2 * Prices[i] <= Combined.median2}) >= Len(Prices)
    /\ 2 * Cardinality({i \in DOMAIN Prices : 2 * Prices[i] >= Combined.median2}) >= Len(Prices)

\* One wrong provider among three or more cannot move the consensus price out
\* of the range of the others, whatever it answers.
OneLiarBounded ==
    Len(Prices) >= 3 =>
        \A liar \in DOMAIN Prices :
            LET honest == DOMAIN Prices \ {liar}
            IN  /\ \E i \in honest : 2 * Prices[i] <= Combined.median2
                /\ \E i \in honest : 2 * Prices[i] >= Combined.median2

----------------------------------------------------------------------------
(* Stores *)

\* The three stores draw the same candles when the window is made of whole
\* intervals.  (Otherwise postgres counts its intervals from the begin of the
\* window and leaves out what follows the last whole one: see the README.)  And
\* the memory store's latest price is one that the SQL stores could return, in
\* whatever order the prices were saved.
StoresAgree ==
    /\ saved # <<>> => GetLatest(saved) \in SQLLatest(saved)
    /\ \A w \in Windows, d \in Intervals :
         /\ ClickHouseOHLC(saved, w[1], w[2], d) = MemoryOHLC(saved, w[1], w[2], d)
         /\ w[1] % d = 0 /\ w[2] % d = 0
              => PostgresOHLC(saved, w[1], w[2], d) = MemoryOHLC(saved, w[1], w[2], d)

----------------------------------------------------------------------------
(* Conversion *)

\* A conversion with a price of zero is refused; any other is off by at most half
\* a unit of the rate for each of the amount.
ConvertAccurate ==
    \A i, j \in DOMAIN saved : \A amount \in Amounts :
        LET x == Prices[i]
            y == Prices[j]
            c == Convert(x, y, amount)
        IN  IF x = 0 \/ y = 0 THEN ~c.ok
            ELSE 2 * Abs(c.result * y - amount * x * Unit) <= amount * y
=============================================================================
