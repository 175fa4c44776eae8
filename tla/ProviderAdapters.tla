-------------------------- MODULE ProviderAdapters --------------------------
(***************************************************************************)
(* internal/adapter/provider/*: the forty adapters that turn GetPrice and  *)
(* GetPrices into HTTP requests.  They are written alike, and differ in    *)
(* how a coin is looked up, how many requests a call makes, which quote    *)
(* the request names, and what becomes of each kind of answer; those       *)
(* differences are a record per adapter, and the control flow they share   *)
(* is one set of actions.  Concurrent calls of one adapter share only its  *)
(* health: healthy, lastError and lastSuccessAt under the adapter's mutex. *)
(***************************************************************************)
EXTENDS Integers, Sequences, FiniteSets

CONSTANTS
    Calls,          \* bound: the calls made
    Lists           \* the lists of coins GetPrices is called with

\* A coin of the adapters' tables, the same in other letters, and one in no table.
CoinIDs == {"listed", "LISTED", "unlisted"}
Currencies == {"usd", "eur"}

ASSUME AdapterConstants == Lists \subseteq Seq(CoinIDs)

----------------------------------------------------------------------------
(* What can become of a request, and what the adapters make of it *)

\* NewRequest fails; no answer; 429; 401 or 403; 404; 5xx; another status (or an
\* error in a well-formed body); a body that is not the expected JSON.
Failures == {"unsent", "down", "throttled", "denied", "missing", "broken", "odd", "malformed"}

\* A body without the coin; with a price that is no number; zero; a price.
Answers == {"absent", "unparsable", "zero", "good"}

\* The switch on the status that most adapters have.
StatusSwitch ==
    [unsent |-> "request", down |-> "ErrProviderDown", throttled |-> "ErrRateLimited",
     denied |-> "ErrUnauthorized", missing |-> "unexpected", broken |-> "ErrProviderDown",
     odd |-> "unexpected", malformed |-> "decoding"]

Errors == {"request", "ErrProviderDown", "ErrRateLimited", "ErrUnauthorized", "unexpected",
           "decoding", "parsing", "ErrCoinNotFound"}

\* An adapter with a table of coins in lower case, one request per coin, and a
\* price that arrives as a string:
\*   by        the method with the requests; the other one calls it
\*   batch     one request for all coins
\*   table     "folded" (ToLower first), "exact", or "none": ids passed through
\*   quote     the quote currency that is requested, see Quote
\*   absent, unparsable, zero    "skip" the coin, "price", or the error returned
\*   tolerates errors that GetPrices passes over, going on with the next coin
\*   silent    errors returned without recordError
Strings(quote) ==
    [by |-> "GetPrices", batch |-> FALSE, table |-> "folded", quote |-> quote,
     status |-> StatusSwitch, absent |-> "skip", unparsable |-> "skip", zero |-> "price",
     tolerates |-> {}, silent |-> {"request"}]

\* A string that may not be zero either.
Positive(quote) == [Strings(quote) EXCEPT !.zero = "skip"]

\* A JSON number: anything else fails the decoding of the body.
Numbers(quote) == [Strings(quote) EXCEPT !.unparsable = "decoding"]

\* GetPrice makes the request, GetPrices calls it for each coin.
Looping(quote) ==
    [Strings(quote) EXCEPT !.by = "GetPrice", !.table = "exact",
                           !.absent = "ErrCoinNotFound", !.unparsable = "parsing"]

----------------------------------------------------------------------------
(* The adapters *)

alternativeme == [Numbers("usd") EXCEPT !.zero = "skip"]
bingx         == [Numbers("usdt") EXCEPT !.zero = "skip"]
bitfinex      == [Looping("usd") EXCEPT !.absent = "unexpected", !.unparsable = "decoding"]
bithumb       == Numbers("usdt")
bitstamp      == Strings("asked")
\* One ticker for bitcoin in all currencies.  It is read once; here it is read
\* for each coin asked, with the same results since any error ends the call.
blockchain    == [Numbers("asked") EXCEPT !.batch = TRUE, !.absent = "ErrCoinNotFound",
                                          !.zero = "ErrCoinNotFound"]
btse          == [Numbers("asked") EXCEPT !.zero = "skip"]
bybit         == Strings("usdt")
coinbase      == Positive("asked")
coincap       == [Looping("usd") EXCEPT !.table = "none",
                                        !.status.missing = "ErrCoinNotFound"]
\* A missing field decodes to zero, and zero is not looked at.
coincodex     == [Numbers("usd") EXCEPT !.table = "exact", !.absent = "price"]
coingecko     == [Strings("asked") EXCEPT !.batch = TRUE, !.table = "none",
                                          !.unparsable = "parsing"]
coinlore      == Looping("usd")
coinmarketcap == [Numbers("asked") EXCEPT !.batch = TRUE, !.table = "none"]
coinpaprika   == [Looping("asked") EXCEPT
                    !.table = "none", !.unparsable = "decoding", !.tolerates = Errors,
                    !.status = [StatusSwitch EXCEPT !.missing = "ErrCoinNotFound",
                                                    !.denied = "unexpected"]]
coinranking   == [Looping("usd") EXCEPT !.status.missing = "ErrCoinNotFound"]
cryptocompare == [Numbers("asked") EXCEPT
                    !.table = "none", !.absent = "ErrCoinNotFound",
                    !.status.denied = "unexpected", !.silent = {"request", "ErrCoinNotFound"},
                    !.tolerates = Errors \ {"ErrRateLimited", "ErrProviderDown",
                                            "ErrUnauthorized"}]
cryptodotcom  == Positive("asked")
cryptorank    == [Numbers("usd") EXCEPT !.zero = "skip"]
dexscreener   == Strings("usd")
dia           == [Numbers("usd") EXCEPT !.table = "exact", !.absent = "price"]
dydx          == Strings("usd")
freecryptoapi == [Numbers("usd") EXCEPT !.table = "exact"]
gateio        == Strings("usdt")
gemini        == Positive("asked")
htx           == [Numbers("usdt") EXCEPT !.zero = "skip"]
kraken        == Looping("usd")
kucoin        == Looping("asked")
lbank         == Positive("usdt")
livecoinwatch == [Numbers("usd") EXCEPT !.table = "exact", !.absent = "price"]
messari       == [Numbers("usd") EXCEPT !.table = "none", !.absent = "price"]
mexc          == Positive("usdt")
okx           == Strings("usdt")
phemex        == [Numbers("usdt only") EXCEPT !.zero = "skip"]
poloniex      == Positive("usdt")
twelvedata    == [Strings("asked") EXCEPT !.table = "exact", !.absent = "parsing",
                                          !.unparsable = "parsing"]
upbit         == [Numbers("usdt or krw") EXCEPT !.zero = "skip"]
wazirx        == Positive("usdt")
woox          == Numbers("usdt only")
xtcom         == Positive("usdt")

\* createProvider: the adapter of a name in the configuration.
Provider ==
    [alternativeme |-> alternativeme, bingx |-> bingx, bitfinex |-> bitfinex,
     bithumb |-> bithumb, bitstamp |-> bitstamp, blockchain |-> blockchain, btse |-> btse,
     bybit |-> bybit, coinbase |-> coinbase, coincap |-> coincap, coincodex |-> coincodex,
     coingecko |-> coingecko, coinlore |-> coinlore, coinmarketcap |-> coinmarketcap,
     coinpaprika |-> coinpaprika, coinranking |-> coinranking, cryptocompare |-> cryptocompare,
     cryptodotcom |-> cryptodotcom, cryptorank |-> cryptorank, dexscreener |-> dexscreener,
     dia |-> dia, dydx |-> dydx, freecryptoapi |-> freecryptoapi, gateio |-> gateio,
     gemini |-> gemini, htx |-> htx, kraken |-> kraken, kucoin |-> kucoin, lbank |-> lbank,
     livecoinwatch |-> livecoinwatch, messari |-> messari, mexc |-> mexc, okx |-> okx,
     phemex |-> phemex, poloniex |-> poloniex, twelvedata |-> twelvedata, upbit |-> upbit,
     wazirx |-> wazirx, woox |-> woox, xtcom |-> xtcom]

Names == DOMAIN Provider

----------------------------------------------------------------------------

VARIABLES
    name,       \* which adapter this is
    health,     \* healthy, lastError, and whether lastSuccessAt is set
    pc,         \* call -> "idle", "coin", "read" or "done"
    op,         \* call -> the method called
    asked,      \* call -> coinIDs
    currency,   \* call -> currency
    i,          \* call -> the coin it is at
    prices,     \* call -> the prices collected, at the end those returned
    err,        \* call -> the error returned
    sent,       \* call -> HTTP requests made
    throttled   \* history: calls that were answered 429

vars == <<name, health, pc, op, asked, currency, i, prices, err, sent, throttled>>

callVars == <<name, op, asked, currency>>

Price == [coin : CoinIDs, currency : Currencies, quote : {"usd", "usdt", "eur", "krw"}]

TypeOK ==
    /\ name \in Names
    /\ health \in [healthy : BOOLEAN, lastError : Errors \cup {"none"}, succeeded : BOOLEAN]
    /\ pc \in [Calls -> {"idle", "coin", "read", "done"}]
    /\ op \in [Calls -> {"GetPrice", "GetPrices"}]
    /\ asked \in [Calls -> Seq(CoinIDs)]
    /\ currency \in [Calls -> Currencies]
    /\ i \in [Calls -> Nat \ {0}]
    /\ prices \in [Calls -> Seq(Price)]
    /\ err \in [Calls -> Errors \cup {"none"}]
    /\ sent \in [Calls -> Nat]
    /\ throttled \subseteq Calls

A == Provider[name]

\* The lookup in the table.
Known(coin) ==
    \/ A.table = "none"
    \/ coin = "listed"
    \/ coin = "LISTED" /\ A.table = "folded"

\* The quote of the request: most exchanges have no market in dollars.
\* (Mutant: the cases of upbit's switch are swapped.)
Quote_Swapped(cur) ==
    CASE A.quote = "usd"         -> "usd"
      [] A.quote = "usdt only"   -> "usdt"
      [] A.quote = "usdt or krw" -> IF cur = "usd" THEN "krw" ELSE "usdt"
      [] A.quote = "usdt"        -> IF cur = "usd" THEN "usdt" ELSE cur
      [] A.quote = "asked"       -> cur

Quote(cur) ==
    CASE A.quote = "usd"         -> "usd"
      [] A.quote = "usdt only"   -> "usdt"
      [] A.quote = "usdt or krw" -> IF cur = "usd" THEN "usdt" ELSE "krw"
      [] A.quote = "usdt"        -> IF cur = "usd" THEN "usdt" ELSE cur
      [] A.quote = "asked"       -> cur

RecordSuccess == health' = [healthy |-> TRUE, lastError |-> "none", succeeded |-> TRUE]

\* (Mutant: the flag is forgotten.)
RecordError_NoFlag(e) == health' = [health EXCEPT !.lastError = e]

RecordError(e) == health' = [health EXCEPT !.healthy = FALSE, !.lastError = e]

----------------------------------------------------------------------------

\* A call begins.
Call(c, method, coins, cur) ==
    /\ pc[c] = "idle"
    /\ pc' = [pc EXCEPT ![c] = "coin"]
    /\ op' = [op EXCEPT ![c] = method]
    /\ asked' = [asked EXCEPT ![c] = coins]
    /\ currency' = [currency EXCEPT ![c] = cur]
    /\ UNCHANGED <<name, health, i, prices, err, sent, throttled>>

GetPrice(c) == \E coin \in CoinIDs, cur \in Currencies : Call(c, "GetPrice", <<coin>>, cur)

GetPrices(c) == \E coins \in Lists, cur \in Currencies : Call(c, "GetPrices", coins, cur)

More(c) == i[c] <= Len(asked[c])

\* The next turn of the loop over coins.
Advance(c) ==
    /\ i' = [i EXCEPT ![c] = @ + 1]
    /\ pc' = [pc EXCEPT ![c] = IF A.batch THEN "read" ELSE "coin"]

\* return nil, e.  (Mutant: what was collected so far is returned with it.)
ReturnError_Partial(c, e) ==
    /\ pc' = [pc EXCEPT ![c] = "done"]
    /\ err' = [err EXCEPT ![c] = e]
    /\ UNCHANGED <<i, prices>>

ReturnError(c, e) ==
    /\ pc' = [pc EXCEPT ![c] = "done"]
    /\ err' = [err EXCEPT ![c] = e]
    /\ prices' = [prices EXCEPT ![c] = <<>>]
    /\ UNCHANGED i

\* Errors a GetPrices passes over.  (Mutant: all of them.)
Tolerates_All(c, e) == op[c] = "GetPrices"

Tolerates(c, e) == e \in A.tolerates /\ (A.by = "GetPrice" => op[c] = "GetPrices")

\* One coin, or the request for all, ends in an error.
Error(c, e) ==
    /\ IF e \in A.silent THEN UNCHANGED health ELSE RecordError(e)
    /\ IF Tolerates(c, e)
       THEN Advance(c) /\ UNCHANGED <<prices, err>>
       ELSE ReturnError(c, e)

\* A batch with a table leaves out unknown coins, and fails before any request
\* when none is left.
NoCoinValid(c) ==
    /\ pc[c] = "coin"
    /\ A.batch /\ A.table # "none"
    /\ \A k \in DOMAIN asked[c] : ~Known(asked[c][k])
    /\ Error(c, "ErrCoinNotFound")
    /\ UNCHANGED <<callVars, sent, throttled>>

\* A coin that is not in the table: passed over, or ErrCoinNotFound.
UnknownCoin(c) ==
    /\ pc[c] = IF A.batch THEN "read" ELSE "coin"
    /\ More(c)
    /\ ~Known(asked[c][i[c]])
    /\ IF A.by = "GetPrice"
       THEN Error(c, "ErrCoinNotFound")
       ELSE Advance(c) /\ UNCHANGED <<health, prices, err>>
    /\ UNCHANGED <<callVars, sent, throttled>>

\* It is time for a request.  (Mutant: the table is not consulted.)
MaySend_Unchecked(c) ==
    /\ pc[c] = "coin"
    /\ IF A.batch THEN TRUE ELSE More(c)

MaySend(c) ==
    /\ pc[c] = "coin"
    /\ IF A.batch THEN A.table = "none" \/ \E k \in DOMAIN asked[c] : Known(asked[c][k])
                  ELSE More(c) /\ Known(asked[c][i[c]])

RequestFails(c, failure) ==
    /\ MaySend(c)
    /\ sent' = [sent EXCEPT ![c] = IF failure = "unsent" THEN @ ELSE @ + 1]
    /\ throttled' = IF failure = "throttled" THEN throttled \cup {c} ELSE throttled
    /\ Error(c, A.status[failure])
    /\ UNCHANGED callVars

RequestAnswered(c) ==
    /\ MaySend(c)
    /\ sent' = [sent EXCEPT ![c] = @ + 1]
    /\ pc' = [pc EXCEPT ![c] = "read"]
    /\ UNCHANGED <<callVars, health, i, prices, err, throttled>>

\* What an answer leads to.
Verdict(answer) == IF answer = "good" THEN "price" ELSE A[answer]

\* (Mutant: the price is labelled with the first coin asked.)
NewPrice_First(c) ==
    [coin |-> asked[c][1], currency |-> currency[c], quote |-> Quote(currency[c])]

NewPrice(c) ==
    [coin |-> asked[c][i[c]], currency |-> currency[c], quote |-> Quote(currency[c])]

ReadPrice(c, answer) ==
    /\ pc[c] = "read" /\ More(c) /\ Known(asked[c][i[c]])
    /\ Verdict(answer) = "price"
    /\ prices' = [prices EXCEPT ![c] = Append(@, NewPrice(c))]
    /\ IF A.by = "GetPrice" THEN RecordSuccess ELSE UNCHANGED health
    /\ Advance(c)
    /\ UNCHANGED <<callVars, err, sent, throttled>>

ReadSkip(c, answer) ==
    /\ pc[c] = "read" /\ More(c) /\ Known(asked[c][i[c]])
    /\ Verdict(answer) = "skip"
    /\ Advance(c)
    /\ UNCHANGED <<callVars, health, prices, err, sent, throttled>>

ReadError(c, answer) ==
    /\ pc[c] = "read" /\ More(c) /\ Known(asked[c][i[c]])
    /\ Verdict(answer) \in Errors
    /\ Error(c, Verdict(answer))
    /\ UNCHANGED <<callVars, sent, throttled>>

AtEnd(c) == pc[c] = (IF A.batch THEN "read" ELSE "coin") /\ ~More(c)

\* The end of the loop: no price for any of the coins asked ...
NoneFound(c) ==
    /\ AtEnd(c)
    /\ prices[c] = <<>> /\ asked[c] # <<>>
    /\ IF A.by = "GetPrice" \/ "ErrCoinNotFound" \in A.silent
       THEN UNCHANGED health ELSE RecordError("ErrCoinNotFound")
    /\ ReturnError(c, "ErrCoinNotFound")
    /\ UNCHANGED <<callVars, sent, throttled>>

\* ... or some.
Return(c) ==
    /\ AtEnd(c)
    /\ prices[c] # <<>> \/ asked[c] = <<>>
    /\ IF A.by = "GetPrices" THEN RecordSuccess ELSE UNCHANGED health
    /\ pc' = [pc EXCEPT ![c] = "done"]
    /\ UNCHANGED <<callVars, i, prices, err, sent, throttled>>

Init ==
    /\ name \in Names
    /\ health = [healthy |-> TRUE, lastError |-> "none", succeeded |-> FALSE]
    /\ pc = [c \in Calls |-> "idle"]
    /\ op = [c \in Calls |-> "GetPrice"]
    /\ asked = [c \in Calls |-> <<>>]
    /\ currency = [c \in Calls |-> "usd"]
    /\ i = [c \in Calls |-> 1]
    /\ prices = [c \in Calls |-> <<>>]
    /\ err = [c \in Calls |-> "none"]
    /\ sent = [c \in Calls |-> 0]
    /\ throttled = {}

Proceed(c) ==
    \/ NoCoinValid(c) \/ UnknownCoin(c)
    \/ \E failure \in Failures : RequestFails(c, failure)
    \/ RequestAnswered(c)
    \/ \E answer \in Answers : ReadPrice(c, answer) \/ ReadSkip(c, answer) \/ ReadError(c, answer)
    \/ NoneFound(c) \/ Return(c)

Next == \E c \in Calls : GetPrice(c) \/ GetPrices(c) \/ Proceed(c)

Spec == Init /\ [][Next]_vars

----------------------------------------------------------------------------
(* Properties *)

Done(c) == pc[c] = "done"

\* The prices returned are of coins asked, in the order asked, none of them
\* twice for one mention, and never next to an error: GetPrice, which takes the
\* first of them, gets the price of its coin or an error.
AnswersAsked ==
    \A c \in Calls : Done(c) =>
        IF err[c] # "none" THEN prices[c] = <<>>
        ELSE /\ asked[c] # <<>> => prices[c] # <<>>
             /\ \E at \in [DOMAIN prices[c] -> DOMAIN asked[c]] :
                  /\ \A j, k \in DOMAIN at : j < k => at[j] < at[k]
                  /\ \A j \in DOMAIN at : prices[c][j].coin = asked[c][at[j]]

\* Whatever market an adapter asks for, a price that is labelled usd is one in
\* dollars or in the dollar's stablecoin.  (In other currencies many are not:
\* see the README.)
DollarsAreDollars ==
    \A c \in Calls : \A j \in DOMAIN prices[c] :
        prices[c][j].currency = "usd" => prices[c][j].quote \in {"usd", "usdt"}

\* A GetPrice makes at most one request, so that the one token the router takes
\* for it is enough; a batch makes one for all, and a coin that the adapter does
\* not know costs none.
RequestsPaidFor ==
    \A c \in Calls :
        sent[c] <= IF A.batch THEN 1
                   ELSE Cardinality({k \in DOMAIN asked[c] : Known(asked[c][k])})

\* A 429 reaches the caller as ErrRateLimited, however many coins were asked and
\* whichever was being asked for.  (coinpaprika's GetPrices passes over it.)
ThrottlingSurfaces ==
    \A c \in throttled :
        Done(c) /\ ~(name = "coinpaprika" /\ op[c] = "GetPrices") => err[c] = "ErrRateLimited"

\* Between calls the health tells what they came to, in whatever order their
\* records were made: healthy if all succeeded, unhealthy if all failed at the
\* provider.  (coinpaprika's GetPrices may succeed and leave the error of its
\* last coin, or fail with none; cryptocompare does not record that it found
\* nothing.)
HealthTellsOutcome ==
    LET ended == {c \in Calls : Done(c)}
    IN  /\ name # "coinpaprika"
        /\ \A c \in Calls \ ended : pc[c] = "idle"
        /\ ended # {}
        => /\ (\A c \in ended : err[c] = "none") => health.healthy
           /\ (\A c \in ended : err[c] \notin A.silent \cup {"none"}) => ~health.healthy

----------------------------------------------------------------------------
(* The inductive invariant behind the properties *)

Active(c) == pc[c] \in {"coin", "read"}

\* A call's errors end it, and a call that has ended stays as it is.
CallInv ==
    \A c \in Calls :
        /\ pc[c] = "idle" => i[c] = 1
        /\ pc[c] = "idle" => prices[c] = <<>>
        /\ pc[c] # "done" => err[c] = "none"
        /\ err[c] # "none" => prices[c] = <<>>
        /\ pc[c] = "done" /\ err[c] = "none" /\ asked[c] # <<>> => prices[c] # <<>>
        /\ pc[c] = "read" /\ ~A.batch => More(c) /\ Known(asked[c][i[c]])

\* What has been collected is from the coins before the one the call is at.
Collects(c) ==
    \E at \in [DOMAIN prices[c] -> DOMAIN asked[c]] :
        /\ \A j, k \in DOMAIN at : j < k => at[j] < at[k]
        /\ \A j \in DOMAIN at : at[j] < i[c] /\ prices[c][j].coin = asked[c][at[j]]

CollectInv == \A c \in Calls : Collects(c)

\* The coins that a call has had requests for.
Paid(c) == {k \in DOMAIN asked[c] :
              Known(asked[c][k]) /\ (k < i[c] \/ (k = i[c] /\ pc[c] \in {"read", "done"}))}

SentInv ==
    \A c \in Calls :
        /\ pc[c] = "idle" => sent[c] = 0
        /\ A.batch => sent[c] <= (IF pc[c] = "coin" THEN 0 ELSE 1)
        /\ ~A.batch => sent[c] <= Cardinality(Paid(c))

\* A 429 ends the call at once.
ThrottleInv ==
    \A c \in throttled :
        \/ Done(c) /\ err[c] = "ErrRateLimited"
        \/ pc[c] # "idle" /\ name = "coinpaprika" /\ op[c] = "GetPrices"

\* An adapter whose GetPrice makes the requests has a price for every coin so far.
LoopInv ==
    A.by = "GetPrice" /\ name # "coinpaprika" =>
        \A c \in Calls : ~(Done(c) /\ err[c] # "none") => Len(prices[c]) = i[c] - 1

\* There is a call that accounts for the health.
HealthInv ==
    name # "coinpaprika" =>
        /\ \/ health.healthy
           \/ \E c \in Calls : \/ Done(c) /\ err[c] # "none"
                               \/ Active(c) /\ A.tolerates # {}
        /\ \/ ~health.healthy
           \/ \A c \in Calls : pc[c] = "idle"
           \/ \E c \in Calls : Active(c) \/ (Done(c) /\ err[c] \in A.silent \cup {"none"})

AdapterInv ==
    /\ TypeOK
    /\ CallInv /\ CollectInv /\ SentInv /\ ThrottleInv /\ LoopInv /\ HealthInv
    /\ DollarsAreDollars
=============================================================================
