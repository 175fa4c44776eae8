--------------------------- MODULE TokenRegistry ---------------------------
(***************************************************************************)
(* internal/registry and PriceService.GetPriceByAddress: the registry of   *)
(* token contracts, the catalog that is loaded into it at the start and    *)
(* at every refresh, and the lookups that resolve an address or learn it.  *)
(* A lookup takes the registry's lock twice, with requests to providers    *)
(* between; a catalog is loaded in one critical section.  A catalog that   *)
(* cannot be fetched changes nothing.                                      *)
(***************************************************************************)
EXTENDS Integers, Sequences, FiniteSets

CONSTANTS
    Lookups,        \* requests for a price by address
    Chains,         \* names of chains
    Tokens,         \* contract addresses, in lower case
    Coins,          \* coin ids of the catalog
    AllowedChains,  \* registry.chains of the configuration
    TokenProviders, \* number of token price providers (coingecko, dexscreener)
    Catalogs,       \* what the catalog may look like when it is fetched
    MaxLoads,       \* bound: refreshes
    NoCoin

\* An address as callers and the catalog write it.
Address == [chain : Chains, token : Tokens \cup {""}, upper : BOOLEAN]

CoinEntry == [id : Coins, platform : Address]

ASSUME RegistryConstants ==
    /\ Catalogs \subseteq Seq(CoinEntry)
    /\ AllowedChains \subseteq Chains
    /\ TokenProviders \in Nat /\ MaxLoads \in Nat
    /\ NoCoin \notin Coins \cup Tokens /\ Coins \cap Tokens = {}
    /\ Chains # {} /\ Tokens # {}

VARIABLES
    byAddr,     \* key -> coin id
    byCoinID,   \* coin id -> how often each key is in the list for it
    loads,      \* history: the catalogs loaded
    lookup      \* lookup -> where it is, its address and coin, and its answer

registryVars == <<byAddr, byCoinID, loads, lookup>>

\* addrKey without the joining colon: the spelling is lower-cased away.
AddrKey(a) == <<a.chain, a.token>>

Keys == Chains \X Tokens

\* Both token providers call a coin by its address, in lower case.
CoinIDs == Coins \cup Tokens

RegistryTypeOK ==
    /\ byAddr \in [Keys -> CoinIDs \cup {NoCoin}]
    /\ byCoinID \in [CoinIDs -> [Keys -> Nat]]
    /\ loads \in Seq(Catalogs)
    /\ lookup \in [Lookups -> [step : {"start", "price", "ask", "learn", "done"},
                               key : Keys, coin : CoinIDs \cup {NoCoin},
                               provider : 1..(TokenProviders + 1),
                               status : {0, 200, 404, 500, 503}]]

----------------------------------------------------------------------------
(* The registry *)

\* Add.  (Mutant: it does not look whether the address is known.)
Registered_Never(k) == FALSE

Registered(k) == byAddr[k] # NoCoin

Add(k, coin) ==
    IF Registered(k) THEN UNCHANGED <<byAddr, byCoinID>>
    ELSE /\ byAddr' = [byAddr EXCEPT ![k] = coin]
         /\ byCoinID' = [byCoinID EXCEPT ![coin][k] = @ + 1]

\* Entries without an address, or on a chain that is not configured, are
\* passed over.
Usable(e) == e.platform.token # "" /\ e.platform.chain \in AllowedChains

\* The entries of a catalog that LoadCatalog takes for a key.
Taken(catalog, k) ==
    {j \in DOMAIN catalog : Usable(catalog[j]) /\ AddrKey(catalog[j].platform) = k}

\* The coin that the loop over them leaves for the key: the last one's.
\* (Mutant: a key that is known is left alone.)
CoinAfter_Keeps(catalog, k) ==
    LET at == Taken(catalog, k)
    IN  IF at = {} \/ byAddr[k] # NoCoin THEN byAddr[k]
        ELSE catalog[CHOOSE j \in at : \A n \in at : n <= j].id

CoinAfter(catalog, k) ==
    LET at == Taken(catalog, k)
    IN  IF at = {} THEN byAddr[k]
        ELSE catalog[CHOOSE j \in at : \A n \in at : n <= j].id

\* Those that append the key to the list of a coin.  The platforms of a coin are
\* a map, so that the order in a list is any.
ListedFor(catalog, coin, k) == {j \in Taken(catalog, k) : catalog[j].id = coin}

LoadCatalog(catalog) ==
    /\ Len(loads) < MaxLoads
    /\ loads' = Append(loads, catalog)
    /\ byAddr' = [k \in Keys |-> CoinAfter(catalog, k)]
    /\ byCoinID' = [c \in CoinIDs |-> [k \in Keys |->
                       byCoinID[c][k] + Cardinality(ListedFor(catalog, c, k))]]
    /\ UNCHANGED lookup

----------------------------------------------------------------------------
(* GetPriceByAddress *)

Goto(l, step) == lookup' = [lookup EXCEPT ![l].step = step]

Answer(l, status) == lookup' = [lookup EXCEPT ![l].step = "done", ![l].status = status]

\* Resolve, under the read lock.
Resolve(l, address) ==
    LET k == AddrKey(address)
    IN  /\ lookup[l].step = "start"
        /\ lookup' = [lookup EXCEPT ![l] =
                        [@ EXCEPT !.key = k, !.coin = byAddr[k],
                                  !.step = IF byAddr[k] # NoCoin THEN "price" ELSE "ask"]]
        /\ UNCHANGED <<byAddr, byCoinID, loads>>

\* GetPrice of the coin found: a price, or an error and what handlePriceError
\* makes of it.  No provider knows a coin by the id that was learned.
CoinPriced(l) ==
    /\ lookup[l].step = "price" /\ lookup[l].coin \in Coins
    /\ Answer(l, 200)
    /\ UNCHANGED <<byAddr, byCoinID, loads>>

ErrorStatuses == {404, 500, 503}

CoinFails(l, status) ==
    /\ lookup[l].step = "price"
    /\ Answer(l, status)
    /\ UNCHANGED <<byAddr, byCoinID, loads>>

\* The loop over token providers: one has a price, or the next is asked.
TokenPriced(l) ==
    /\ lookup[l].step = "ask" /\ lookup[l].provider <= TokenProviders
    /\ Goto(l, "learn")
    /\ UNCHANGED <<byAddr, byCoinID, loads>>

TokenFails(l) ==
    /\ lookup[l].step = "ask" /\ lookup[l].provider <= TokenProviders
    /\ lookup' = [lookup EXCEPT ![l].provider = @ + 1]
    /\ UNCHANGED <<byAddr, byCoinID, loads>>

TokenUnknown(l) ==
    /\ lookup[l].step = "ask" /\ lookup[l].provider > TokenProviders
    /\ Answer(l, 404)
    /\ UNCHANGED <<byAddr, byCoinID, loads>>

\* The registry learns the address, and the price is returned.
Learn(l) ==
    /\ lookup[l].step = "learn"
    /\ Add(lookup[l].key, lookup[l].key[2])
    /\ Answer(l, 200)
    /\ UNCHANGED loads

RegistryInit ==
    /\ byAddr = [k \in Keys |-> NoCoin]
    /\ byCoinID = [c \in CoinIDs |-> [k \in Keys |-> 0]]
    /\ loads = <<>>
    /\ lookup = [l \in Lookups |-> [step |-> "start", key |-> CHOOSE k \in Keys : TRUE,
                                     coin |-> NoCoin, provider |-> 1, status |-> 0]]

LookupStep(l) ==
    \/ CoinPriced(l)
    \/ \E status \in ErrorStatuses : CoinFails(l, status)
    \/ TokenPriced(l) \/ TokenFails(l) \/ TokenUnknown(l) \/ Learn(l)

RegistryNext ==
    \/ \E catalog \in Catalogs : LoadCatalog(catalog)
    \/ \E l \in Lookups : LookupStep(l) \/ \E a \in Address : a.token # "" /\ Resolve(l, a)

RegistrySpec == RegistryInit /\ [][RegistryNext]_registryVars

----------------------------------------------------------------------------
(* Properties *)

\* Entry j of load n names a key.
Names(n, j, k) == Usable(loads[n][j]) /\ AddrKey(loads[n][j].platform) = k

\* No later entry does.
NamesLast(n, j, k) ==
    /\ Names(n, j, k)
    /\ \A m \in n..Len(loads) : \A i \in DOMAIN loads[m] : m > n \/ i > j => ~Names(m, i, k)

\* The catalog has the last word on an address, whatever lookups learned before
\* it or are about to learn from answers that they got before it was loaded.
CatalogWins ==
    \A n \in DOMAIN loads : \A j \in DOMAIN loads[n] : \A k \in Keys :
        NamesLast(n, j, k) => byAddr[k] = loads[n][j].id

\* The entries loaded so far that list a key for a coin.
Listings(c, k) ==
    {e \in UNION {{n} \X DOMAIN loads[n] : n \in DOMAIN loads} :
        Names(e[1], e[2], k) /\ loads[e[1]][e[2]].id = c}

\* The lists grow with the refreshes, by every entry again, and not with the
\* requests: however many lookups learn one address at once, it is listed once.
GrowthBounded ==
    /\ \A c \in Coins, k \in Keys : byCoinID[c][k] = Cardinality(Listings(c, k))
    /\ \A t \in Tokens, k \in Keys : byCoinID[t][k] <= 1

----------------------------------------------------------------------------
(* The inductive invariant behind the properties *)

\* Only addresses that are registered have been learned.
ListsInv ==
    /\ \A c \in Coins, k \in Keys :
         IsFiniteSet(Listings(c, k)) /\ byCoinID[c][k] = Cardinality(Listings(c, k))
    /\ \A t \in Tokens, k \in Keys : byCoinID[t][k] <= (IF Registered(k) THEN 1 ELSE 0)

RegistryInv == RegistryTypeOK /\ CatalogWins /\ ListsInv
=============================================================================
