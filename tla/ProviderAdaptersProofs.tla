----------------------- MODULE ProviderAdaptersProofs -----------------------
(***************************************************************************)
(* The adapters, for any number of concurrent calls and any lists of       *)
(* coins: what a call returns, what it costs, and what it leaves as the    *)
(* adapter's health.                                                       *)
(***************************************************************************)
EXTENDS ProviderAdapters, FiniteSetTheorems, TLAPS

----------------------------------------------------------------------------
(* What the adapters have in common *)

Verdicts == Errors \cup {"skip", "price"}

Adapter ==
    [by : {"GetPrice", "GetPrices"}, batch : BOOLEAN, table : {"folded", "exact", "none"},
     quote : {"usd", "usdt", "usdt only", "usdt or krw", "asked"},
     status : [unsent : Errors, down : Errors, throttled : {"ErrRateLimited"}, denied : Errors,
               missing : Errors, broken : Errors, odd : Errors, malformed : Errors],
     absent : Verdicts, unparsable : Verdicts, zero : Verdicts,
     tolerates : SUBSET Errors, silent : SUBSET Errors]

\* All adapters but coinpaprika: no call goes on after a 429, errors are passed over
\* only where GetPrices makes the requests, and where GetPrice does no coin is skipped.
Regular(a) ==
    /\ a \in Adapter
    /\ "ErrRateLimited" \notin a.tolerates
    /\ a.by = "GetPrice" => /\ a.tolerates = {}
                            /\ a.absent # "skip" /\ a.unparsable # "skip" /\ a.zero # "skip"

\* An adapter that reads one more status as a missing coin is as regular as before.
LEMMA MissingCoinRegular ==
    ASSUME NEW a, Regular(a)
    PROVE  Regular([a EXCEPT !.status.missing = "ErrCoinNotFound"])
<1> DEFINE s == [a.status EXCEPT !.missing = "ErrCoinNotFound"]
           b == [a EXCEPT !.status = s]
<1>1. a \in Adapter
  BY DEF Regular
<1>2. s \in [unsent : Errors, down : Errors, throttled : {"ErrRateLimited"}, denied : Errors,
             missing : Errors, broken : Errors, odd : Errors, malformed : Errors]
  BY <1>1 DEF Adapter, Errors
<1>3. [a EXCEPT !.status.missing = "ErrCoinNotFound"] = b
  BY <1>1 DEF Adapter
<1> HIDE DEF s
<1>4. b \in Adapter
  BY <1>1, <1>2 DEF Adapter
<1>5. /\ b.tolerates = a.tolerates /\ b.by = a.by /\ b.absent = a.absent
      /\ b.unparsable = a.unparsable /\ b.zero = a.zero
  BY <1>1 DEF Adapter
<1> HIDE DEF b
<1>6. QED BY <1>3, <1>4, <1>5 DEF Regular

\* Each of them, by the shape it is written from.
LEMMA RegularAdapters ==
    /\ Regular(alternativeme) /\ Regular(bingx) /\ Regular(bitfinex) /\ Regular(bithumb)
    /\ Regular(bitstamp) /\ Regular(blockchain) /\ Regular(btse) /\ Regular(bybit)
    /\ Regular(coinbase) /\ Regular(coincap) /\ Regular(coincodex) /\ Regular(coingecko)
    /\ Regular(coinlore) /\ Regular(coinmarketcap) /\ Regular(coinranking) /\ Regular(cryptocompare)
    /\ Regular(cryptodotcom) /\ Regular(cryptorank) /\ Regular(dexscreener) /\ Regular(dia)
    /\ Regular(dydx) /\ Regular(freecryptoapi) /\ Regular(gateio) /\ Regular(gemini)
    /\ Regular(htx) /\ Regular(kraken) /\ Regular(kucoin) /\ Regular(lbank)
    /\ Regular(livecoinwatch) /\ Regular(messari) /\ Regular(mexc) /\ Regular(okx)
    /\ Regular(phemex) /\ Regular(poloniex) /\ Regular(twelvedata) /\ Regular(upbit)
    /\ Regular(wazirx) /\ Regular(woox) /\ Regular(xtcom)
<1> USE DEF Regular, Adapter, Verdicts, Errors, StatusSwitch, Strings
<1>1. Regular(bitstamp) /\ Regular(bybit) /\ Regular(coingecko) /\ Regular(dexscreener)
  BY DEF bitstamp, bybit, coingecko, dexscreener
<1>2. Regular(dydx) /\ Regular(gateio) /\ Regular(okx) /\ Regular(twelvedata)
  BY DEF dydx, gateio, okx, twelvedata
<1>3. Regular(coinbase) /\ Regular(cryptodotcom) /\ Regular(gemini) /\ Regular(lbank)
  BY DEF Positive, coinbase, cryptodotcom, gemini, lbank
<1>4. Regular(mexc) /\ Regular(poloniex) /\ Regular(wazirx) /\ Regular(xtcom)
  BY DEF Positive, mexc, poloniex, wazirx, xtcom
<1>5. Regular(alternativeme) /\ Regular(bingx) /\ Regular(bithumb) /\ Regular(blockchain)
  BY DEF Numbers, alternativeme, bingx, bithumb, blockchain
<1>6. Regular(btse) /\ Regular(coincodex) /\ Regular(coinmarketcap) /\ Regular(cryptorank)
  BY DEF Numbers, btse, coincodex, coinmarketcap, cryptorank
<1>7. Regular(dia) /\ Regular(freecryptoapi) /\ Regular(htx) /\ Regular(livecoinwatch)
  BY DEF Numbers, dia, freecryptoapi, htx, livecoinwatch
<1>8. Regular(messari) /\ Regular(phemex) /\ Regular(upbit) /\ Regular(woox)
  BY DEF Numbers, messari, phemex, upbit, woox
<1>9. Regular(bitfinex) /\ Regular(coincap)
  <2>1. Regular(bitfinex)
    BY DEF Looping, bitfinex
  <2>2. Regular([Looping("usd") EXCEPT !.table = "none"])
    BY DEF Looping
  <2>3. coincap = [[Looping("usd") EXCEPT !.table = "none"]
                     EXCEPT !.status.missing = "ErrCoinNotFound"]
    BY DEF Looping, coincap
  <2> HIDE DEF Regular, Adapter, Verdicts, Errors, StatusSwitch, Strings
  <2>4. Regular(coincap)
    BY <2>2, <2>3, MissingCoinRegular
  <2>5. QED BY <2>1, <2>4
<1>10. Regular(coinlore) /\ Regular(coinranking)
  <2>1. Regular(coinlore)
    BY DEF Looping, coinlore
  <2>2. Regular(Looping("usd"))
    BY DEF Looping
  <2> HIDE DEF Regular, Adapter, Verdicts, Errors, StatusSwitch, Strings
  <2>3. Regular(coinranking)
    BY <2>2, MissingCoinRegular DEF coinranking
  <2>4. QED BY <2>1, <2>3
<1>11. Regular(kraken) /\ Regular(kucoin)
  <2>1. Regular(kraken)
    BY DEF Looping, kraken
  <2>2. Regular(kucoin)
    BY DEF Looping, kucoin
  <2>3. QED BY <2>1, <2>2
<1>12. Regular(cryptocompare)
  <2> DEFINE passed == Errors \ {"ErrRateLimited", "ErrProviderDown", "ErrUnauthorized"}
             denied == [StatusSwitch EXCEPT !.denied = "unexpected"]
             base == Numbers("asked")
  <2>1. /\ passed \in SUBSET Errors /\ "ErrRateLimited" \notin passed
        /\ {"request", "ErrCoinNotFound"} \in SUBSET Errors
        /\ "ErrCoinNotFound" \in Verdicts /\ "unexpected" \in Errors
    OBVIOUS
  <2>2. base \in Adapter /\ base.status = StatusSwitch /\ base.by = "GetPrices"
    BY DEF Numbers
  <2>3. cryptocompare =
          [base EXCEPT
             !.table = "none", !.absent = "ErrCoinNotFound", !.status.denied = "unexpected",
             !.silent = {"request", "ErrCoinNotFound"}, !.tolerates = passed]
    BY Zenon DEF cryptocompare
  <2> HIDE DEF passed, base, Errors, StatusSwitch, Strings, Verdicts
  <2>4. denied \in [unsent : Errors, down : Errors, throttled : {"ErrRateLimited"},
                     denied : Errors, missing : Errors, broken : Errors, odd : Errors,
                     malformed : Errors]
    BY <2>1, <2>2
  <2>5. cryptocompare =
          [base EXCEPT
             !.table = "none", !.absent = "ErrCoinNotFound", !.status = denied,
             !.silent = {"request", "ErrCoinNotFound"}, !.tolerates = passed]
    BY <2>2, <2>3
  <2> HIDE DEF denied
  <2>6. cryptocompare \in Adapter
    BY <2>1, <2>2, <2>4, <2>5
  <2>7. cryptocompare.tolerates = passed /\ cryptocompare.by = "GetPrices"
    BY <2>2, <2>5
  <2>8. QED BY <2>1, <2>6, <2>7
<1> HIDE DEF Regular
<1>13. QED
  BY <1>1, <1>2, <1>3, <1>4, <1>5, <1>6, <1>7, <1>8, <1>9, <1>10, <1>11, <1>12

\* coinpaprika's GetPrices passes over every error of its GetPrice.
LEMMA Coinpaprika == coinpaprika \in Adapter /\ coinpaprika.by = "GetPrice"
  BY DEF Adapter, Verdicts, Errors, StatusSwitch, Strings, Looping, coinpaprika

\* The adapter of a name is one of them.
LEMMA EveryAdapter ==
    ASSUME NEW n \in Names
    PROVE  /\ Provider[n] \in Adapter
           /\ n = "coinpaprika" => Provider[n].by = "GetPrice"
           /\ n # "coinpaprika" => Regular(Provider[n])
<1>1. CASE n = "coinpaprika"
  <2>1. Provider[n] = coinpaprika
    BY <1>1 DEF Provider
  <2>2. QED BY <1>1, <2>1, Coinpaprika
<1>2. CASE n # "coinpaprika"
  <2>1. Regular(Provider[n])
    BY <1>2, RegularAdapters DEF Provider, Names
  <2>2. QED BY <1>2, <2>1 DEF Regular
<1>3. QED BY <1>1, <1>2

\* The adapter at hand.
LEMMA AdapterAtHand ==
    ASSUME name \in Names
    PROVE  /\ A \in Adapter
           /\ name = "coinpaprika" => A.by = "GetPrice"
           /\ name # "coinpaprika" => Regular(A)
  BY EveryAdapter DEF A

\* The error that a failed request is turned into.
LEMMA StatusError ==
    ASSUME name \in Names, NEW failure \in Failures
    PROVE  /\ A.status[failure] \in Errors
           /\ failure = "throttled" => A.status[failure] = "ErrRateLimited"
<1>1. A.status \in [unsent : Errors, down : Errors, throttled : {"ErrRateLimited"},
                    denied : Errors, missing : Errors, broken : Errors, odd : Errors,
                    malformed : Errors]
  BY AdapterAtHand DEF Adapter
<1>2. "ErrRateLimited" \in Errors
  BY DEF Errors
<1>3. QED BY <1>1, <1>2 DEF Failures

\* Dollars are asked for in dollars or the stablecoin.
LEMMA QuoteOfDollars ==
    ASSUME name \in Names, NEW cur \in Currencies
    PROVE  /\ Quote(cur) \in {"usd", "usdt", "eur", "krw"}
           /\ cur = "usd" => Quote(cur) \in {"usd", "usdt"}
<1>1. A.quote \in {"usd", "usdt", "usdt only", "usdt or krw", "asked"}
  BY AdapterAtHand DEF Adapter
<1>2. QED BY <1>1 DEF Quote, Currencies

----------------------------------------------------------------------------
(* What a step of a call may do *)

\* A call is made, and the arguments are the caller's.
Begins(c) ==
    /\ pc[c] = "idle" /\ pc' = [pc EXCEPT ![c] = "coin"]
    /\ op' \in [Calls -> {"GetPrice", "GetPrices"}] /\ asked' \in [Calls -> Seq(CoinIDs)]
    /\ currency' \in [Calls -> Currencies]
    /\ \A d \in Calls \ {c} : op'[d] = op[d] /\ asked'[d] = asked[d] /\ currency'[d] = currency[d]
    /\ UNCHANGED <<name, health, i, prices, err, sent, throttled>>

LEMMA CallBegins ==
    ASSUME TypeOK, NEW c \in Calls, GetPrice(c) \/ GetPrices(c)
    PROVE  Begins(c)
<1>1. PICK method \in {"GetPrice", "GetPrices"}, coins \in Seq(CoinIDs), cur \in Currencies :
        Call(c, method, coins, cur)
  <2>1. CASE GetPrice(c)
    <3>1. PICK coin \in CoinIDs, cur \in Currencies : Call(c, "GetPrice", <<coin>>, cur)
      BY <2>1 DEF GetPrice
    <3>2. <<coin>> \in Seq(CoinIDs)
      OBVIOUS
    <3>3. QED BY <3>1, <3>2
  <2>2. CASE GetPrices(c)
    BY <2>2, AdapterConstants DEF GetPrices
  <2>3. QED BY <2>1, <2>2
<1>2. QED BY <1>1 DEF Call, Begins, TypeOK

\* The forms of a step of a call that is under way, apart from health and costs.
Advances(c) ==
    /\ Advance(c) /\ UNCHANGED err
    /\ \/ UNCHANGED prices
       \/ /\ More(c) /\ Known(asked[c][i[c]])
          /\ prices' = [prices EXCEPT ![c] = Append(@, NewPrice(c))]

LEMMA ProceedForms ==
    ASSUME TypeOK, NEW c \in Calls, Proceed(c)
    PROVE  /\ UNCHANGED callVars /\ Active(c)
           /\ \/ Advances(c)
              \/ \E e \in Errors : ReturnError(c, e)
              \/ RequestAnswered(c)
              \/ Return(c)
<1>0. name \in Names
  BY DEF TypeOK
<1> USE DEF Active, Advances
<1>1. ASSUME NEW e \in Errors, Error(c, e)
      PROVE  Advances(c) \/ ReturnError(c, e)
  BY <1>1 DEF Error
<1>2. "ErrCoinNotFound" \in Errors
  BY DEF Errors
<1>3. CASE NoCoinValid(c)
  BY <1>1, <1>2, <1>3 DEF NoCoinValid
<1>4. CASE UnknownCoin(c)
  <2>1. pc[c] \in {"coin", "read"} /\ UNCHANGED callVars
    BY <1>4 DEF UnknownCoin
  <2>2. Error(c, "ErrCoinNotFound") \/ Advances(c)
    BY <1>4 DEF UnknownCoin
  <2>3. QED BY <1>1, <1>2, <2>1, <2>2
<1>5. ASSUME NEW failure \in Failures, RequestFails(c, failure)
      PROVE  /\ UNCHANGED callVars /\ pc[c] = "coin"
             /\ Advances(c) \/ \E e \in Errors : ReturnError(c, e)
  <2>1. Error(c, A.status[failure]) /\ UNCHANGED callVars /\ pc[c] = "coin"
    BY <1>5 DEF RequestFails, MaySend
  <2>2. QED BY <1>0, <1>1, <2>1, StatusError
<1>6. CASE RequestAnswered(c)
  BY <1>6 DEF RequestAnswered, MaySend
<1>7. ASSUME NEW answer \in Answers, ReadPrice(c, answer) \/ ReadSkip(c, answer)
      PROVE  UNCHANGED callVars /\ pc[c] = "read" /\ Advances(c)
  BY <1>7 DEF ReadPrice, ReadSkip
<1>8. ASSUME NEW answer \in Answers, ReadError(c, answer)
      PROVE  /\ UNCHANGED callVars /\ pc[c] = "read"
             /\ Advances(c) \/ \E e \in Errors : ReturnError(c, e)
  BY <1>1, <1>8 DEF ReadError
<1>9. CASE NoneFound(c)
  BY <1>2, <1>9 DEF NoneFound, AtEnd
<1>10. CASE Return(c)
  BY <1>10 DEF Return, AtEnd
<1>11. QED BY <1>3, <1>4, <1>5, <1>6, <1>7, <1>8, <1>9, <1>10 DEF Proceed

----------------------------------------------------------------------------
(* Types *)

LEMMA HealthType ==
    ASSUME TypeOK, NEW c \in Calls, Proceed(c)
    PROVE  health' \in [healthy : BOOLEAN, lastError : Errors \cup {"none"}, succeeded : BOOLEAN]
<1>0. /\ health \in [healthy : BOOLEAN, lastError : Errors \cup {"none"}, succeeded : BOOLEAN]
      /\ name \in Names
  BY DEF TypeOK
<1> USE DEF RecordSuccess, RecordError
<1>a. ASSUME RecordSuccess
      PROVE  health' \in [healthy : BOOLEAN, lastError : Errors \cup {"none"}, succeeded : BOOLEAN]
  BY <1>a
<1> HIDE DEF RecordSuccess
<1>1. ASSUME NEW e \in Errors, Error(c, e)
      PROVE  health' \in [healthy : BOOLEAN, lastError : Errors \cup {"none"}, succeeded : BOOLEAN]
  BY <1>0, <1>1 DEF Error
<1>2. "ErrCoinNotFound" \in Errors
  BY DEF Errors
<1>3. CASE NoCoinValid(c) \/ UnknownCoin(c) \/ NoneFound(c)
  BY <1>0, <1>1, <1>2, <1>3 DEF NoCoinValid, UnknownCoin, NoneFound
<1>4. CASE RequestAnswered(c) \/ Return(c)
  <2>1. health' = health \/ RecordSuccess
    BY <1>4 DEF RequestAnswered, Return
  <2>2. QED BY <1>0, <1>a, <2>1
<1>5. ASSUME NEW failure \in Failures, RequestFails(c, failure) PROVE \E e \in Errors : Error(c, e)
  BY <1>0, <1>5, StatusError DEF RequestFails
<1>6. ASSUME NEW answer \in Answers, ReadPrice(c, answer) \/ ReadSkip(c, answer)
      PROVE  health' \in [healthy : BOOLEAN, lastError : Errors \cup {"none"}, succeeded : BOOLEAN]
  <2>1. health' = health \/ RecordSuccess
    BY <1>6 DEF ReadPrice, ReadSkip
  <2>2. QED BY <1>0, <1>a, <2>1
<1>7. ASSUME NEW answer \in Answers, ReadError(c, answer) PROVE \E e \in Errors : Error(c, e)
  BY <1>7 DEF ReadError
<1>8. QED BY <1>1, <1>3, <1>4, <1>5, <1>6, <1>7 DEF Proceed

\* Requests, and the calls that were throttled.
LEMMA SentForms ==
    ASSUME TypeOK, NEW c \in Calls, Proceed(c)
    PROVE  /\ \/ sent' = sent
              \/ MaySend(c) /\ sent' = [sent EXCEPT ![c] = @ + 1]
           /\ \/ throttled' = throttled
              \/ RequestFails(c, "throttled") /\ throttled' = throttled \cup {c}
<1>1. ASSUME NEW failure \in Failures, RequestFails(c, failure)
      PROVE  /\ \/ sent' = sent
                \/ MaySend(c) /\ sent' = [sent EXCEPT ![c] = @ + 1]
             /\ \/ throttled' = throttled
                \/ RequestFails(c, "throttled") /\ throttled' = throttled \cup {c}
  <2>1. CASE failure = "unsent"
    <3>1. sent' = [sent EXCEPT ![c] = sent[c]] /\ throttled' = throttled
      BY <1>1, <2>1 DEF RequestFails
    <3>2. QED BY <3>1 DEF TypeOK
  <2>2. CASE failure # "unsent"
    BY <1>1, <2>2 DEF RequestFails
  <2>3. QED BY <2>1, <2>2
<1>2. CASE RequestAnswered(c)
  BY <1>2 DEF RequestAnswered
<1>3. CASE NoCoinValid(c) \/ UnknownCoin(c) \/ NoneFound(c) \/ Return(c)
  BY <1>3 DEF NoCoinValid, UnknownCoin, NoneFound, Return
<1>4. ASSUME NEW answer \in Answers,
             ReadPrice(c, answer) \/ ReadSkip(c, answer) \/ ReadError(c, answer)
      PROVE  UNCHANGED <<sent, throttled>>
  BY <1>4 DEF ReadPrice, ReadSkip, ReadError
<1>5. QED BY <1>1, <1>2, <1>3, <1>4 DEF Proceed

LEMMA PriceType ==
    ASSUME TypeOK, NEW c \in Calls, More(c)
    PROVE  NewPrice(c) \in Price
<1>1. i[c] \in DOMAIN asked[c] /\ asked[c] \in Seq(CoinIDs)
  BY DEF TypeOK, More
<1>2. asked[c][i[c]] \in CoinIDs
  BY <1>1
<1>3. currency[c] \in Currencies /\ Quote(currency[c]) \in {"usd", "usdt", "eur", "krw"}
  BY QuoteOfDollars DEF TypeOK
<1>4. QED BY <1>2, <1>3 DEF NewPrice, Price

LEMMA TypeStep == TypeOK /\ [Next]_vars => TypeOK'
<1> SUFFICES ASSUME TypeOK, [Next]_vars PROVE TypeOK'
  OBVIOUS
<1>1. ASSUME NEW c \in Calls, GetPrice(c) \/ GetPrices(c) PROVE TypeOK'
  <2>1. Begins(c)
    BY <1>1, CallBegins
  <2>2. QED BY <2>1 DEF Begins, TypeOK
<1>2. ASSUME NEW c \in Calls, Proceed(c) PROVE TypeOK'
  <2>1. /\ health' \in [healthy : BOOLEAN, lastError : Errors \cup {"none"}, succeeded : BOOLEAN]
        /\ UNCHANGED <<name, op, asked, currency>>
    BY <1>2, HealthType, ProceedForms DEF callVars
  <2>2. sent' \in [Calls -> Nat] /\ throttled' \subseteq Calls
    <3>1. sent \in [Calls -> Nat] /\ throttled \subseteq Calls
      BY DEF TypeOK
    <3>2. sent' = sent \/ sent' = [sent EXCEPT ![c] = @ + 1]
      BY <1>2, SentForms
    <3>3. throttled' = throttled \/ throttled' = throttled \cup {c}
      BY <1>2, SentForms
    <3>4. QED BY <3>1, <3>2, <3>3
  <2>3. /\ pc' \in [Calls -> {"idle", "coin", "read", "done"}]
        /\ i' \in [Calls -> Nat \ {0}]
        /\ err' \in [Calls -> Errors \cup {"none"}]
    <3>1. /\ pc \in [Calls -> {"idle", "coin", "read", "done"}] /\ i \in [Calls -> Nat \ {0}]
          /\ err \in [Calls -> Errors \cup {"none"}]
      BY DEF TypeOK
    <3>2. CASE Advances(c)
      BY <3>1, <3>2 DEF Advances, Advance
    <3>3. CASE RequestAnswered(c) \/ Return(c)
      BY <3>1, <3>3 DEF RequestAnswered, Return
    <3>4. ASSUME NEW e \in Errors, ReturnError(c, e)
          PROVE  /\ pc' \in [Calls -> {"idle", "coin", "read", "done"}]
                 /\ i' \in [Calls -> Nat \ {0}]
                 /\ err' \in [Calls -> Errors \cup {"none"}]
      BY <3>1, <3>4 DEF ReturnError
    <3>5. QED BY <1>2, <3>2, <3>3, <3>4, ProceedForms
  <2>4. prices' \in [Calls -> Seq(Price)]
    <3>1. prices \in [Calls -> Seq(Price)]
      BY DEF TypeOK
    <3>2. CASE Advances(c)
      <4>1. More(c) => Append(prices[c], NewPrice(c)) \in Seq(Price)
        BY <3>1, PriceType
      <4>2. QED BY <3>1, <3>2, <4>1 DEF Advances
    <3>3. CASE ~Advances(c)
      <4>1. prices' = prices \/ prices' = [prices EXCEPT ![c] = <<>>]
        BY <1>2, <3>3, ProceedForms DEF ReturnError, RequestAnswered, Return
      <4>2. <<>> \in Seq(Price)
        OBVIOUS
      <4>3. QED BY <3>1, <4>1, <4>2
    <3>4. QED BY <3>2, <3>3
  <2>5. QED BY <2>1, <2>2, <2>3, <2>4 DEF TypeOK
<1>3. CASE UNCHANGED vars
  BY <1>3 DEF vars, TypeOK
<1>4. QED BY <1>1, <1>2, <1>3 DEF Next

----------------------------------------------------------------------------
(* One call *)

\* A step of one call leaves the others alone, and the adapter is the same.
LEMMA OtherCalls ==
    ASSUME TypeOK, NEW c \in Calls, GetPrice(c) \/ GetPrices(c) \/ Proceed(c), NEW d \in Calls, d # c
    PROVE  /\ pc'[d] = pc[d] /\ op'[d] = op[d] /\ asked'[d] = asked[d]
           /\ currency'[d] = currency[d] /\ i'[d] = i[d] /\ prices'[d] = prices[d]
           /\ err'[d] = err[d] /\ sent'[d] = sent[d] /\ (d \in throttled' <=> d \in throttled)
<1>1. CASE GetPrice(c) \/ GetPrices(c)
  BY <1>1, CallBegins DEF Begins, TypeOK
<1>2. CASE Proceed(c)
  <2>1. sent'[d] = sent[d] /\ (d \in throttled' <=> d \in throttled)
    BY <1>2, SentForms DEF TypeOK
  <2>2. op'[d] = op[d] /\ asked'[d] = asked[d] /\ currency'[d] = currency[d]
    BY <1>2, ProceedForms DEF callVars
  <2>3. pc'[d] = pc[d] /\ i'[d] = i[d] /\ prices'[d] = prices[d] /\ err'[d] = err[d]
    <3>1. CASE Advances(c)
      BY <3>1 DEF Advances, Advance, TypeOK
    <3>2. CASE (\E e \in Errors : ReturnError(c, e)) \/ RequestAnswered(c) \/ Return(c)
      BY <3>2 DEF ReturnError, RequestAnswered, Return, TypeOK
    <3>3. QED BY <1>2, <3>1, <3>2, ProceedForms
  <2>4. QED BY <2>1, <2>2, <2>3
<1>3. QED BY <1>1, <1>2

\* What Advances and the other forms do to the entries of the call itself.
LEMMA OwnEntries ==
    ASSUME TypeOK, NEW c \in Calls
    PROVE  /\ Advances(c) =>
                /\ i'[c] = i[c] + 1 /\ pc'[c] = (IF A.batch THEN "read" ELSE "coin")
                /\ err'[c] = err[c]
                /\ \/ prices'[c] = prices[c]
                   \/ More(c) /\ Known(asked[c][i[c]]) /\ prices'[c] = Append(prices[c], NewPrice(c))
           /\ \A e : ReturnError(c, e) =>
                i'[c] = i[c] /\ pc'[c] = "done" /\ err'[c] = e /\ prices'[c] = <<>>
           /\ RequestAnswered(c) =>
                i'[c] = i[c] /\ pc'[c] = "read" /\ err'[c] = err[c] /\ prices'[c] = prices[c]
           /\ Return(c) =>
                i'[c] = i[c] /\ pc'[c] = "done" /\ err'[c] = err[c] /\ prices'[c] = prices[c]
<1>0. /\ DOMAIN i = Calls /\ DOMAIN pc = Calls /\ DOMAIN err = Calls /\ DOMAIN prices = Calls
  BY DEF TypeOK
<1>1. ASSUME Advances(c)
      PROVE  /\ i'[c] = i[c] + 1 /\ pc'[c] = (IF A.batch THEN "read" ELSE "coin")
             /\ err'[c] = err[c]
             /\ \/ prices'[c] = prices[c]
                \/ More(c) /\ Known(asked[c][i[c]]) /\ prices'[c] = Append(prices[c], NewPrice(c))
  BY <1>0, <1>1 DEF Advances, Advance
<1>2. ASSUME NEW e, ReturnError(c, e)
      PROVE  i'[c] = i[c] /\ pc'[c] = "done" /\ err'[c] = e /\ prices'[c] = <<>>
  BY <1>0, <1>2 DEF ReturnError
<1>3. ASSUME RequestAnswered(c)
      PROVE  i'[c] = i[c] /\ pc'[c] = "read" /\ err'[c] = err[c] /\ prices'[c] = prices[c]
  BY <1>0, <1>3 DEF RequestAnswered
<1>4. ASSUME Return(c)
      PROVE  i'[c] = i[c] /\ pc'[c] = "done" /\ err'[c] = err[c] /\ prices'[c] = prices[c]
  BY <1>0, <1>4 DEF Return
<1>5. QED BY <1>1, <1>2, <1>3, <1>4

LEMMA SameAdapter ==
    ASSUME TypeOK, NEW c \in Calls, GetPrice(c) \/ GetPrices(c) \/ Proceed(c)
    PROVE  name' = name /\ A' = A
<1>1. name' = name
  BY CallBegins, ProceedForms DEF Begins, callVars
<1>2. QED BY <1>1 DEF A

\* The part of CallInv that is one call's.
CallInvOf(c) ==
    /\ pc[c] = "idle" => i[c] = 1
    /\ pc[c] = "idle" => prices[c] = <<>>
    /\ pc[c] # "done" => err[c] = "none"
    /\ err[c] # "none" => prices[c] = <<>>
    /\ pc[c] = "done" /\ err[c] = "none" /\ asked[c] # <<>> => prices[c] # <<>>
    /\ pc[c] = "read" /\ ~A.batch => More(c) /\ Known(asked[c][i[c]])

LEMMA CallStep ==
    ASSUME TypeOK, CallInv, NEW c \in Calls, GetPrice(c) \/ GetPrices(c) \/ Proceed(c)
    PROVE  CallInv'
<1> SUFFICES ASSUME NEW d \in Calls PROVE CallInvOf(d)'
  BY DEF CallInv, CallInvOf
<1>1. CallInvOf(c) /\ CallInvOf(d)
  BY DEF CallInv, CallInvOf
<1>2. name' = name /\ A' = A
  BY SameAdapter
<1>3. CASE d # c
  BY <1>1, <1>2, <1>3, OtherCalls DEF CallInvOf, More, Known
<1>4. CASE d = c /\ (GetPrice(c) \/ GetPrices(c))
  BY <1>1, <1>4, CallBegins DEF Begins, CallInvOf, TypeOK
<1>5. CASE d = c /\ Proceed(c)
  <2>1. Active(c) /\ UNCHANGED asked
    BY <1>5, ProceedForms DEF callVars
  <2>2. CASE Advances(c)
    <3>1. /\ pc'[c] \in {"coin", "read"} /\ (pc'[c] = "read" => A.batch)
          /\ err'[c] = "none"
      BY <1>1, <2>1, <2>2, OwnEntries DEF Active, CallInvOf
    <3>2. QED BY <1>2, <1>5, <3>1 DEF CallInvOf
  <2>3. ASSUME NEW e \in Errors, ReturnError(c, e) PROVE CallInvOf(c)'
    <3>1. e # "none"
      BY DEF Errors
    <3>2. QED BY <2>3, <3>1, OwnEntries DEF CallInvOf
  <2>4. CASE RequestAnswered(c)
    BY <1>1, <1>2, <2>1, <2>4 DEF RequestAnswered, MaySend, Active, CallInvOf, TypeOK, More, Known
  <2>5. CASE Return(c)
    <3>1. /\ pc'[c] = "done" /\ err'[c] = err[c] /\ prices'[c] = prices[c] /\ err[c] = "none"
          /\ prices[c] # <<>> \/ asked[c] = <<>>
      BY <1>1, <2>1, <2>5, OwnEntries DEF Return, Active, CallInvOf
    <3>2. QED BY <1>5, <2>1, <3>1 DEF CallInvOf
  <2>6. QED BY <1>5, <2>2, <2>3, <2>4, <2>5, ProceedForms
<1>6. QED BY <1>3, <1>4, <1>5

\* A price more is of a later coin.
LEMMA CollectStep ==
    ASSUME TypeOK, CallInv, CollectInv, NEW c \in Calls,
           GetPrice(c) \/ GetPrices(c) \/ Proceed(c)
    PROVE  CollectInv'
<1> SUFFICES ASSUME NEW d \in Calls PROVE Collects(d)'
  BY DEF CollectInv
<1>1. /\ Collects(c) /\ Collects(d) /\ prices[c] \in Seq(Price) /\ asked[c] \in Seq(CoinIDs)
      /\ i[c] \in Nat \ {0}
  BY DEF CollectInv, TypeOK
<1>2. CASE d # c
  BY <1>1, <1>2, OtherCalls DEF Collects
<1>3. ASSUME prices'[c] = <<>> PROVE Collects(c)'
  <2>1. DOMAIN prices'[c] = {}
    BY <1>3
  <2> DEFINE none == [j \in {} |-> 1]
  <2>2. none \in [DOMAIN prices'[c] -> DOMAIN asked'[c]] /\ DOMAIN none = {}
    BY <2>1
  <2>3. QED BY <2>2 DEF Collects
<1>4. CASE GetPrice(c) \/ GetPrices(c)
  BY <1>3, <1>4, <1>2, CallBegins DEF Begins, CallInv
<1>5. CASE Proceed(c)
  <2>1. UNCHANGED asked
    BY <1>5, ProceedForms DEF callVars
  <2>2. PICK at \in [DOMAIN prices[c] -> DOMAIN asked[c]] :
          /\ \A j, k \in DOMAIN at : j < k => at[j] < at[k]
          /\ \A j \in DOMAIN at : at[j] < i[c] /\ prices[c][j].coin = asked[c][at[j]]
    BY <1>1 DEF Collects
  <2>3. ASSUME prices'[c] = prices[c], i'[c] \in {i[c], i[c] + 1} PROVE Collects(c)'
    BY <1>1, <2>1, <2>2, <2>3 DEF Collects
  <2>4. ASSUME More(c), prices'[c] = Append(prices[c], NewPrice(c)), i'[c] = i[c] + 1
        PROVE  Collects(c)'
    <3> DEFINE n == Len(prices[c])
               at2 == [j \in 1..(n + 1) |-> IF j <= n THEN at[j] ELSE i[c]]
    <3>1. /\ n \in Nat /\ DOMAIN prices[c] = 1..n /\ DOMAIN prices'[c] = 1..(n + 1)
          /\ prices'[c][n + 1] = NewPrice(c) /\ \A j \in 1..n : prices'[c][j] = prices[c][j]
          /\ i[c] \in DOMAIN asked[c] /\ DOMAIN asked[c] \subseteq Nat
      BY <1>1, <2>4 DEF More
    <3> HIDE DEF n
    <3>2. at2 \in [DOMAIN prices'[c] -> DOMAIN asked'[c]]
      BY <2>1, <2>2, <3>1
    <3>3. \A j, k \in DOMAIN at2 : j < k => at2[j] < at2[k]
      BY <2>2, <3>1
    <3>4. \A j \in DOMAIN at2 : at2[j] < i'[c]
      BY <1>1, <2>2, <2>4, <3>1
    <3>5. \A j \in DOMAIN at2 : prices'[c][j].coin = asked'[c][at2[j]]
      <4>1. ASSUME NEW j \in 1..n PROVE prices'[c][j].coin = asked'[c][at2[j]]
        <5>1. at2[j] = at[j] /\ j \in DOMAIN at /\ prices'[c][j] = prices[c][j]
          BY <3>1
        <5>2. prices[c][j].coin = asked[c][at[j]]
          BY <2>2, <5>1
        <5>3. QED BY <2>1, <5>1, <5>2
      <4>2. prices'[c][n + 1].coin = asked'[c][at2[n + 1]]
        <5>1. at2[n + 1] = i[c] /\ prices'[c][n + 1].coin = asked[c][i[c]]
          BY <3>1 DEF NewPrice
        <5>2. QED BY <2>1, <5>1
      <4>3. \A j \in DOMAIN at2 : j \in 1..n \/ j = n + 1
        BY <3>1
      <4>4. QED BY <4>1, <4>2, <4>3
    <3> HIDE DEF at2
    <3>6. QED BY <3>2, <3>3, <3>4, <3>5 DEF Collects
  <2>5. ASSUME Advances(c) PROVE Collects(c)'
    BY <2>3, <2>4, <2>5, OwnEntries
  <2>6. ASSUME (\E e \in Errors : ReturnError(c, e)) \/ RequestAnswered(c) \/ Return(c)
        PROVE  Collects(c)'
    BY <1>3, <2>3, <2>6, OwnEntries
  <2>7. QED BY <1>2, <1>5, <2>5, <2>6, ProceedForms
<1>6. QED BY <1>4, <1>5

----------------------------------------------------------------------------
(* Requests and throttling *)

\* Sets of places in a list of coins.
LEMMA PlacesFinite ==
    ASSUME NEW s \in Seq(CoinIDs), NEW S \in SUBSET DOMAIN s
    PROVE  IsFiniteSet(S) /\ Cardinality(S) \in Nat
<1>1. IsFiniteSet(1..Len(s)) /\ DOMAIN s = 1..Len(s)
  BY FS_Interval
<1>2. IsFiniteSet(S)
  BY <1>1, FS_Subset
<1>3. QED BY <1>2, FS_CardinalityType

SentInvOf(c) ==
    /\ pc[c] = "idle" => sent[c] = 0
    /\ A.batch => sent[c] <= (IF pc[c] = "coin" THEN 0 ELSE 1)
    /\ ~A.batch => sent[c] <= Cardinality(Paid(c))

\* A step of a call under way, as far as requests go: a request is made for a coin
\* that none was made for.
LEMMA ProceedPays ==
    ASSUME TypeOK, NEW c \in Calls, Proceed(c), A' = A
    PROVE  /\ asked'[c] = asked[c] /\ pc'[c] # "idle"
           /\ A.batch => pc'[c] # "coin"
           /\ Paid(c) \subseteq Paid(c)'
           /\ MaySend(c) /\ ~A.batch => i[c] \in Paid(c)' \ Paid(c)
<1>1. /\ asked'[c] = asked[c] /\ asked[c] \in Seq(CoinIDs) /\ i[c] \in Nat
      /\ pc[c] \in {"coin", "read"}
  BY ProceedForms DEF callVars, TypeOK, Active
<1>2. /\ i'[c] = i[c] + 1 \/ (i'[c] = i[c] /\ pc'[c] \in {"read", "done"})
      /\ pc'[c] # "idle"
      /\ A.batch => pc'[c] # "coin"
  <2>1. CASE Advances(c)
    BY <2>1, OwnEntries
  <2>2. CASE (\E e \in Errors : ReturnError(c, e)) \/ RequestAnswered(c) \/ Return(c)
    BY <2>2, OwnEntries
  <2>3. QED BY <2>1, <2>2, ProceedForms
<1>3. DOMAIN asked[c] \subseteq Nat
  BY <1>1
<1>4. \A k \in DOMAIN asked[c] :
        /\ k < i[c] \/ (k = i[c] /\ pc[c] \in {"read", "done"})
             => k < i'[c] \/ (k = i'[c] /\ pc'[c] \in {"read", "done"})
        /\ k = i[c] => k < i'[c] \/ (k = i'[c] /\ pc'[c] \in {"read", "done"})
  BY <1>1, <1>2, <1>3
<1>5. Paid(c) \subseteq Paid(c)'
  BY <1>1, <1>4 DEF Paid, Known
<1>6. ASSUME MaySend(c), ~A.batch PROVE i[c] \in Paid(c)' \ Paid(c)
  <2>1. pc[c] = "coin" /\ i[c] \in DOMAIN asked[c] /\ Known(asked[c][i[c]])
    BY <1>1, <1>6 DEF MaySend, More, TypeOK
  <2>2. i[c] \notin Paid(c)
    BY <1>1, <2>1 DEF Paid
  <2>3. i[c] \in Paid(c)'
    BY <1>1, <1>4, <2>1 DEF Paid, Known
  <2>4. QED BY <2>2, <2>3
<1>7. QED BY <1>1, <1>2, <1>5, <1>6

LEMMA SentStep ==
    ASSUME TypeOK, TypeOK', SentInv, NEW c \in Calls, GetPrice(c) \/ GetPrices(c) \/ Proceed(c)
    PROVE  SentInv'
<1> SUFFICES ASSUME NEW d \in Calls PROVE SentInvOf(d)'
  BY DEF SentInv, SentInvOf
<1>1. SentInvOf(c) /\ SentInvOf(d) /\ sent[c] \in Nat /\ i[c] \in Nat
  BY DEF SentInv, SentInvOf, TypeOK
<1>2. A' = A
  BY SameAdapter
<1>3. CASE d # c
  <2>1. pc'[d] = pc[d] /\ sent'[d] = sent[d] /\ asked'[d] = asked[d] /\ i'[d] = i[d]
    BY <1>3, OtherCalls
  <2>2. Paid(d)' = Paid(d)
    BY <1>2, <2>1 DEF Paid, Known
  <2>3. QED BY <1>1, <1>2, <2>1, <2>2 DEF SentInvOf
<1>4. /\ Paid(c)' \in SUBSET DOMAIN asked'[c] /\ asked'[c] \in Seq(CoinIDs)
      /\ Paid(c) \in SUBSET DOMAIN asked[c] /\ asked[c] \in Seq(CoinIDs)
  BY DEF Paid, TypeOK
<1>5. /\ IsFiniteSet(Paid(c)') /\ Cardinality(Paid(c)') \in Nat
      /\ IsFiniteSet(Paid(c)) /\ Cardinality(Paid(c)) \in Nat
  BY <1>4, PlacesFinite
<1>6. CASE d = c /\ (GetPrice(c) \/ GetPrices(c))
  <2>1. pc'[c] = "coin" /\ sent'[c] = 0
    BY <1>1, <1>6, CallBegins DEF Begins, SentInvOf, TypeOK
  <2>2. QED BY <1>5, <1>6, <2>1 DEF SentInvOf
<1>7. CASE d = c /\ Proceed(c)
  <2>1. /\ pc'[c] # "idle" /\ (A.batch => pc'[c] # "coin")
        /\ Paid(c) \subseteq Paid(c)'
        /\ MaySend(c) /\ ~A.batch => i[c] \in Paid(c)' \ Paid(c)
    BY <1>2, <1>7, ProceedPays
  <2>2. \/ sent'[c] = sent[c]
        \/ MaySend(c) /\ sent'[c] = sent[c] + 1
    <3>1. sent' = sent \/ (MaySend(c) /\ sent' = [sent EXCEPT ![c] = @ + 1])
      BY <1>7, SentForms
    <3>2. sent \in [Calls -> Nat]
      BY DEF TypeOK
    <3>3. QED BY <3>1, <3>2
  <2>3. CASE A.batch
    <3>1. sent[c] <= 1 /\ (pc[c] = "coin" => sent[c] <= 0)
      BY <1>1, <2>3 DEF SentInvOf
    <3>2. sent'[c] <= 1
      BY <1>1, <2>2, <3>1 DEF MaySend
    <3>3. QED BY <1>2, <1>7, <2>1, <2>3, <3>2 DEF SentInvOf
  <2>4. CASE ~A.batch /\ sent'[c] = sent[c]
    <3>1. Cardinality(Paid(c)) <= Cardinality(Paid(c)')
      BY <1>5, <2>1, FS_Subset
    <3>2. QED BY <1>1, <1>2, <1>5, <1>7, <2>1, <2>4, <3>1 DEF SentInvOf
  <2>5. CASE ~A.batch /\ MaySend(c) /\ sent'[c] = sent[c] + 1
    <3>1. Cardinality(Paid(c) \cup {i[c]}) = Cardinality(Paid(c)) + 1
      BY <1>5, <2>1, <2>5, FS_AddElement
    <3>2. Cardinality(Paid(c) \cup {i[c]}) <= Cardinality(Paid(c)')
      BY <1>5, <2>1, <2>5, FS_Subset
    <3>3. QED BY <1>1, <1>2, <1>5, <1>7, <2>1, <2>5, <3>1, <3>2 DEF SentInvOf
  <2>6. QED BY <2>2, <2>3, <2>4, <2>5
<1>8. QED BY <1>3, <1>6, <1>7

\* A 429 becomes ErrRateLimited, which ends every call but coinpaprika's GetPrices.
LEMMA ThrottleStep ==
    ASSUME TypeOK, ThrottleInv, NEW c \in Calls, GetPrice(c) \/ GetPrices(c) \/ Proceed(c)
    PROVE  ThrottleInv'
<1> USE DEF ThrottleInv, Done
<1>1. name' = name /\ name \in Names
  BY SameAdapter DEF TypeOK
<1>2. \A d \in throttled' \ {c} : \/ pc'[d] = "done" /\ err'[d] = "ErrRateLimited"
                                  \/ pc'[d] # "idle" /\ name' = "coinpaprika" /\ op'[d] = "GetPrices"
  <2>1. throttled' \subseteq throttled \cup {c} /\ throttled \subseteq Calls
    BY CallBegins, SentForms DEF Begins, TypeOK
  <2>2. QED BY <1>1, <2>1, OtherCalls
<1>3. ASSUME c \in throttled'
      PROVE  \/ pc'[c] = "done" /\ err'[c] = "ErrRateLimited"
             \/ pc'[c] # "idle" /\ name' = "coinpaprika" /\ op'[c] = "GetPrices"
  <2>1. CASE GetPrice(c) \/ GetPrices(c)
    <3>1. c \in throttled /\ pc[c] = "idle"
      BY <1>3, <2>1, CallBegins DEF Begins
    <3>2. QED BY <3>1
  <2>2. CASE Proceed(c) /\ c \in throttled
    <3>1. pc[c] # "done" /\ UNCHANGED op
      BY <2>2, ProceedForms DEF Active, callVars
    <3>2. pc'[c] # "idle"
      BY <2>2, ProceedForms, OwnEntries
    <3>3. QED BY <1>1, <2>2, <3>1, <3>2
  <2>3. CASE Proceed(c) /\ RequestFails(c, "throttled")
    <3>1. Error(c, "ErrRateLimited") /\ UNCHANGED op
      BY <1>1, <2>3, StatusError DEF RequestFails, Failures, callVars
    <3>2. CASE Tolerates(c, "ErrRateLimited")
      <4>1. name = "coinpaprika" /\ op[c] = "GetPrices"
        BY <1>1, <3>2, AdapterAtHand DEF Tolerates, Regular
      <4>2. pc'[c] # "idle"
        BY <2>3, ProceedForms, OwnEntries
      <4>3. QED BY <1>1, <3>1, <4>1, <4>2
    <3>3. CASE ~Tolerates(c, "ErrRateLimited")
      BY <3>1, <3>3, OwnEntries DEF Error
    <3>4. QED BY <3>2, <3>3
  <2>4. QED BY <1>3, <2>1, <2>2, <2>3, SentForms
<1>4. QED BY <1>2, <1>3

----------------------------------------------------------------------------
(* Health *)

\* Where GetPrice makes the requests, a coin is passed only with a price for it.
LEMMA LoopForms ==
    ASSUME TypeOK, name # "coinpaprika", A.by = "GetPrice", NEW c \in Calls, Proceed(c)
    PROVE  \/ Advance(c) /\ More(c) /\ prices' = [prices EXCEPT ![c] = Append(@, NewPrice(c))]
              /\ UNCHANGED err
           \/ \E e \in Errors : ReturnError(c, e)
           \/ RequestAnswered(c)
           \/ Return(c)
<1>0. name \in Names
  BY DEF TypeOK
<1>1. /\ A.tolerates = {}
      /\ A.absent # "skip" /\ A.unparsable # "skip" /\ A.zero # "skip"
  BY <1>0, AdapterAtHand DEF Regular
<1>2. ASSUME NEW e \in Errors, Error(c, e) PROVE ReturnError(c, e)
  BY <1>1, <1>2 DEF Error, Tolerates
<1>3. "ErrCoinNotFound" \in Errors
  BY DEF Errors
<1>4. CASE NoCoinValid(c) \/ UnknownCoin(c) \/ NoneFound(c)
  BY <1>2, <1>3, <1>4 DEF NoCoinValid, UnknownCoin, NoneFound
<1>5. ASSUME NEW failure \in Failures, RequestFails(c, failure)
      PROVE  \E e \in Errors : ReturnError(c, e)
  BY <1>0, <1>2, <1>5, StatusError DEF RequestFails
<1>6. ASSUME NEW answer \in Answers, ReadPrice(c, answer)
      PROVE  Advance(c) /\ More(c) /\ prices' = [prices EXCEPT ![c] = Append(@, NewPrice(c))]
             /\ UNCHANGED err
  BY <1>6 DEF ReadPrice
<1>7. ASSUME NEW answer \in Answers PROVE ~ReadSkip(c, answer)
  <2>1. A[answer] # "skip" \/ answer = "good"
    BY <1>1 DEF Answers
  <2>2. QED BY <2>1 DEF ReadSkip, Verdict
<1>8. ASSUME NEW answer \in Answers, ReadError(c, answer)
      PROVE  \E e \in Errors : ReturnError(c, e)
  BY <1>2, <1>8 DEF ReadError
<1>9. QED BY <1>4, <1>5, <1>6, <1>7, <1>8 DEF Proceed

LEMMA LoopStep ==
    ASSUME TypeOK, CallInv, LoopInv, NEW c \in Calls, GetPrice(c) \/ GetPrices(c) \/ Proceed(c)
    PROVE  LoopInv'
<1>1. name' = name /\ A' = A
  BY SameAdapter
<1> SUFFICES ASSUME A.by = "GetPrice", name # "coinpaprika", NEW d \in Calls,
                    ~(pc'[d] = "done" /\ err'[d] # "none")
             PROVE  Len(prices'[d]) = i'[d] - 1
  BY <1>1 DEF LoopInv, Done
<1>2. /\ ~(pc[d] = "done" /\ err[d] # "none") => Len(prices[d]) = i[d] - 1
      /\ i[d] \in Nat /\ prices[d] \in Seq(Price)
  BY DEF LoopInv, Done, TypeOK
<1>3. CASE d # c
  BY <1>2, <1>3, OtherCalls
<1>4. CASE d = c /\ (GetPrice(c) \/ GetPrices(c))
  BY <1>2, <1>4, CallBegins DEF Begins
<1>5. CASE d = c /\ Proceed(c)
  <2>1. Len(prices[c]) = i[c] - 1
    BY <1>2, <1>5, ProceedForms DEF Active
  <2>2. ASSUME Advance(c), prices' = [prices EXCEPT ![c] = Append(@, NewPrice(c))]
        PROVE  Len(prices'[c]) = i'[c] - 1
    <3>1. prices'[c] = Append(prices[c], NewPrice(c)) /\ i'[c] = i[c] + 1
      BY <2>2 DEF Advance, TypeOK
    <3>2. Len(Append(prices[c], NewPrice(c))) = Len(prices[c]) + 1
      BY <1>2, <1>5
    <3>3. QED BY <1>2, <1>5, <2>1, <3>1, <3>2
  <2>3. ASSUME NEW e \in Errors, ReturnError(c, e) PROVE FALSE
    <3>1. e # "none"
      BY DEF Errors
    <3>2. QED BY <1>5, <2>3, <3>1, OwnEntries
  <2>4. CASE RequestAnswered(c) \/ Return(c)
    BY <1>5, <2>1, <2>4, OwnEntries
  <2>5. QED BY <1>5, <2>2, <2>3, <2>4, LoopForms
<1>6. QED BY <1>3, <1>4, <1>5

\* A step of a call and the health: it goes on, and an error it recorded was one
\* that it passed over; or it fails, and has recorded that or kept silent; or it
\* returns prices.
LEMMA HealthForms ==
    ASSUME TypeOK, CallInv, LoopInv, name # "coinpaprika", NEW c \in Calls, Proceed(c)
    PROVE  \/ /\ Active(c)'
              /\ health' = health \/ health'.healthy \/ A.tolerates # {}
           \/ \E e \in Errors : ReturnError(c, e) /\ (e \in A.silent \/ ~health'.healthy)
           \/ Return(c)
<1>0. /\ name \in Names
      /\ health \in [healthy : BOOLEAN, lastError : Errors \cup {"none"}, succeeded : BOOLEAN]
  BY DEF TypeOK
<1>a. Advance(c) => Active(c)'
  BY DEF Advance, Active, TypeOK
<1>1. ASSUME NEW e PROVE RecordError(e) => ~health'.healthy
  BY <1>0 DEF RecordError
<1>2. RecordSuccess => health'.healthy
  BY DEF RecordSuccess
<1>3. ASSUME NEW e \in Errors, Error(c, e)
      PROVE  \/ Active(c)' /\ A.tolerates # {}
             \/ ReturnError(c, e) /\ (e \in A.silent \/ ~health'.healthy)
  BY <1>a, <1>1, <1>3, Zenon DEF Error, Tolerates
<1>4. "ErrCoinNotFound" \in Errors
  BY DEF Errors
<1>5. CASE NoCoinValid(c)
  BY <1>3, <1>4, <1>5 DEF NoCoinValid
<1>6. CASE UnknownCoin(c)
  <2>1. Error(c, "ErrCoinNotFound") \/ (Advance(c) /\ health' = health)
    BY <1>6 DEF UnknownCoin
  <2>2. QED BY <1>a, <1>3, <1>4, <2>1
<1>7. ASSUME NEW failure \in Failures, RequestFails(c, failure)
      PROVE  \E e \in Errors : Error(c, e)
  BY <1>0, <1>7, StatusError DEF RequestFails
<1>8. CASE RequestAnswered(c)
  BY <1>8 DEF RequestAnswered, Active, TypeOK
<1>9. ASSUME NEW answer \in Answers, ReadPrice(c, answer) \/ ReadSkip(c, answer)
      PROVE  Advance(c) /\ (health' = health \/ health'.healthy)
  BY <1>2, <1>9, Zenon DEF ReadPrice, ReadSkip
<1>10. ASSUME NEW answer \in Answers, ReadError(c, answer)
       PROVE  \E e \in Errors : Error(c, e)
  BY <1>10 DEF ReadError
<1>11. CASE NoneFound(c)
  <2>1. A.by # "GetPrice"
    <3> SUFFICES ASSUME A.by = "GetPrice" PROVE FALSE
      OBVIOUS
    <3>1. ~(pc[c] = "done" /\ err[c] # "none")
      BY <1>11 DEF NoneFound, AtEnd
    <3>2. Len(prices[c]) = i[c] - 1
      BY <3>1 DEF LoopInv, Done
    <3>3. prices[c] = <<>> /\ asked[c] # <<>> /\ ~(i[c] <= Len(asked[c]))
      BY <1>11 DEF NoneFound, AtEnd, More
    <3>4. asked[c] \in Seq(CoinIDs) /\ i[c] \in Nat
      BY DEF TypeOK
    <3>5. Len(asked[c]) >= 1
      BY <3>3, <3>4
    <3>6. Len(prices[c]) = 0
      BY <3>3
    <3>7. QED BY <3>2, <3>3, <3>4, <3>5, <3>6
  <2>2. /\ ReturnError(c, "ErrCoinNotFound")
        /\ "ErrCoinNotFound" \in A.silent \/ RecordError("ErrCoinNotFound")
    BY <1>11, <2>1 DEF NoneFound
  <2>3. QED BY <1>1, <1>4, <2>2
<1>12. QED
  BY <1>a, <1>3, <1>5, <1>6, <1>7, <1>8, <1>9, <1>10, <1>11 DEF Proceed

LEMMA HealthStep ==
    ASSUME TypeOK, CallInv, LoopInv, HealthInv, NEW c \in Calls,
           GetPrice(c) \/ GetPrices(c) \/ Proceed(c)
    PROVE  HealthInv'
<1>1. name' = name /\ A' = A /\ name \in Names
  BY SameAdapter DEF TypeOK
<1> SUFFICES ASSUME name # "coinpaprika"
             PROVE  /\ \/ health'.healthy
                       \/ \E d \in Calls : \/ Done(d)' /\ err'[d] # "none"
                                           \/ Active(d)' /\ A.tolerates # {}
                    /\ \/ ~health'.healthy
                       \/ \E d \in Calls : \/ Active(d)'
                                           \/ Done(d)' /\ err'[d] \in A.silent \cup {"none"}
  BY <1>1 DEF HealthInv
<1>2. ASSUME NEW d \in Calls, d # c
      PROVE  (Done(d)' <=> Done(d)) /\ (Active(d)' <=> Active(d)) /\ err'[d] = err[d]
  BY <1>2, OtherCalls DEF Done, Active
<1>3. \/ health.healthy
      \/ \E d \in Calls : \/ Done(d) /\ err[d] # "none"
                          \/ Active(d) /\ A.tolerates # {}
  BY DEF HealthInv
<1>4. CASE GetPrice(c) \/ GetPrices(c)
  <2>1. Active(c)' /\ ~Active(c) /\ ~Done(c) /\ health' = health
    BY <1>4, CallBegins DEF Begins, Active, Done, TypeOK
  <2>2. QED BY <1>2, <1>3, <2>1
<1>5. ASSUME Proceed(c), Active(c)', health' = health \/ health'.healthy \/ A.tolerates # {}
      PROVE  /\ \/ health'.healthy
                \/ \E d \in Calls : \/ Done(d)' /\ err'[d] # "none"
                                    \/ Active(d)' /\ A.tolerates # {}
             /\ \E d \in Calls : Active(d)'
  <2>1. Active(c) /\ ~Done(c)
    BY <1>5, ProceedForms DEF Active, Done
  <2>2. QED BY <1>2, <1>3, <1>5, <2>1
<1>6. ASSUME NEW e \in Errors, ReturnError(c, e), e \in A.silent \/ ~health'.healthy
      PROVE  /\ \E d \in Calls : Done(d)' /\ err'[d] # "none"
             /\ \/ ~health'.healthy
                \/ \E d \in Calls : Done(d)' /\ err'[d] \in A.silent \cup {"none"}
  <2>1. e # "none"
    BY DEF Errors
  <2>2. Done(c)' /\ err'[c] = e
    BY <1>6, OwnEntries DEF Done
  <2>3. QED BY <1>6, <2>1, <2>2
<1>7. ASSUME Proceed(c), Return(c)
      PROVE  /\ \/ health'.healthy
                \/ \E d \in Calls : Done(d)' /\ err'[d] # "none"
             /\ \E d \in Calls : Done(d)' /\ err'[d] \in A.silent \cup {"none"}
  <2>1. Active(c) /\ ~Done(c) /\ err[c] = "none"
    BY <1>7, ProceedForms DEF Active, Done, CallInv
  <2>2. Done(c)' /\ err'[c] = "none"
    BY <1>7, <2>1, OwnEntries DEF Done
  <2>3. CASE A.by = "GetPrices"
    BY <1>7, <2>2, <2>3 DEF Return, RecordSuccess
  <2>4. CASE A.by = "GetPrice"
    <3>1. A.tolerates = {}
      BY <1>1, <2>4, AdapterAtHand DEF Regular
    <3>2. health' = health
      BY <1>7, <2>4 DEF Return
    <3>3. QED BY <1>2, <1>3, <2>1, <2>2, <3>1, <3>2
  <2>5. A.by \in {"GetPrice", "GetPrices"}
    BY <1>1, AdapterAtHand DEF Adapter
  <2>6. QED BY <2>3, <2>4, <2>5
<1>8. CASE Proceed(c)
  BY <1>5, <1>6, <1>7, <1>8, HealthForms
<1>9. QED BY <1>4, <1>8

LEMMA DollarsStep ==
    ASSUME TypeOK, DollarsAreDollars, NEW c \in Calls, GetPrice(c) \/ GetPrices(c) \/ Proceed(c)
    PROVE  DollarsAreDollars'
<1> SUFFICES ASSUME NEW d \in Calls, NEW j \in DOMAIN prices'[d], prices'[d][j].currency = "usd"
             PROVE  prices'[d][j].quote \in {"usd", "usdt"}
  BY DEF DollarsAreDollars
<1>1. prices[c] \in Seq(Price) /\ name \in Names /\ currency[c] \in Currencies
  BY DEF TypeOK
<1>2. ASSUME prices'[d] = prices[d] PROVE prices'[d][j].quote \in {"usd", "usdt"}
  BY <1>2 DEF DollarsAreDollars
<1>3. ASSUME prices'[c] = Append(prices[c], NewPrice(c)), d = c
      PROVE  prices'[d][j].quote \in {"usd", "usdt"}
  <2>1. CASE j \in DOMAIN prices[c]
    <3>1. prices'[c][j] = prices[c][j]
      BY <1>1, <1>3, <2>1
    <3>2. QED BY <1>3, <2>1, <3>1 DEF DollarsAreDollars
  <2>2. CASE j \notin DOMAIN prices[c]
    <3>1. prices'[c][j] = NewPrice(c)
      BY <1>1, <1>3, <2>2
    <3>2. QED BY <1>1, <1>3, <3>1, QuoteOfDollars DEF NewPrice
  <2>3. QED BY <2>1, <2>2
<1>4. ASSUME d = c, prices'[c] = <<>> PROVE FALSE
  BY <1>4
<1>5. CASE d # c
  BY <1>2, <1>5, OtherCalls
<1>6. CASE d = c /\ (GetPrice(c) \/ GetPrices(c))
  BY <1>2, <1>6, CallBegins DEF Begins
<1>7. CASE d = c /\ Proceed(c)
  <2>1. CASE Advances(c)
    BY <1>2, <1>3, <1>7, <2>1, OwnEntries
  <2>2. CASE (\E e \in Errors : ReturnError(c, e)) \/ RequestAnswered(c) \/ Return(c)
    BY <1>2, <1>4, <1>7, <2>2, OwnEntries
  <2>3. QED BY <1>7, <2>1, <2>2, ProceedForms
<1>8. QED BY <1>5, <1>6, <1>7

----------------------------------------------------------------------------
(* The invariant *)

LEMMA AdapterInitially == Init => AdapterInv
<1> SUFFICES ASSUME Init PROVE AdapterInv
  OBVIOUS
<1>1. TypeOK
  <2>1. <<>> \in Seq(CoinIDs) /\ <<>> \in Seq(Price)
    OBVIOUS
  <2>2. /\ name \in Names
        /\ health \in [healthy : BOOLEAN, lastError : Errors \cup {"none"}, succeeded : BOOLEAN]
    BY DEF Init
  <2>3. /\ pc \in [Calls -> {"idle", "coin", "read", "done"}]
        /\ op \in [Calls -> {"GetPrice", "GetPrices"}]
        /\ asked \in [Calls -> Seq(CoinIDs)] /\ currency \in [Calls -> Currencies]
        /\ i \in [Calls -> Nat \ {0}] /\ prices \in [Calls -> Seq(Price)]
    BY <2>1 DEF Init, Currencies
  <2>4. /\ err \in [Calls -> Errors \cup {"none"}]
        /\ sent \in [Calls -> Nat] /\ throttled \subseteq Calls
    BY DEF Init
  <2>5. QED BY <2>2, <2>3, <2>4 DEF TypeOK
<1>2. CallInv
  BY DEF Init, CallInv
<1>3. CollectInv
  <2> SUFFICES ASSUME NEW c \in Calls PROVE Collects(c)
    BY DEF CollectInv
  <2> DEFINE none == [j \in {} |-> 1]
  <2>1. DOMAIN prices[c] = {}
    BY DEF Init
  <2>2. none \in [DOMAIN prices[c] -> DOMAIN asked[c]] /\ DOMAIN none = {}
    BY <2>1
  <2>3. QED BY <2>2 DEF Collects
<1>4. SentInv
  <2> SUFFICES ASSUME NEW c \in Calls PROVE SentInvOf(c)
    BY DEF SentInv, SentInvOf
  <2>1. Paid(c) \in SUBSET DOMAIN asked[c] /\ asked[c] \in Seq(CoinIDs)
    BY <1>1 DEF Paid, TypeOK
  <2>2. Cardinality(Paid(c)) \in Nat
    BY <2>1, PlacesFinite
  <2>3. sent[c] = 0 /\ pc[c] = "idle"
    BY DEF Init
  <2>4. QED BY <2>2, <2>3 DEF SentInvOf
<1>5. ThrottleInv
  BY DEF Init, ThrottleInv
<1>6. LoopInv
  BY DEF Init, LoopInv
<1>7. HealthInv
  BY DEF Init, HealthInv
<1>8. DollarsAreDollars
  BY DEF Init, DollarsAreDollars
<1>9. QED BY <1>1, <1>2, <1>3, <1>4, <1>5, <1>6, <1>7, <1>8 DEF AdapterInv

LEMMA AdapterStep == AdapterInv /\ [Next]_vars => AdapterInv'
<1> SUFFICES ASSUME AdapterInv, [Next]_vars PROVE AdapterInv'
  OBVIOUS
<1>1. /\ TypeOK /\ CallInv /\ CollectInv /\ SentInv /\ ThrottleInv /\ LoopInv /\ HealthInv
      /\ DollarsAreDollars
  BY DEF AdapterInv
<1>2. TypeOK'
  BY <1>1, TypeStep
<1>3. ASSUME NEW c \in Calls, GetPrice(c) \/ GetPrices(c) \/ Proceed(c) PROVE AdapterInv'
  <2>1. CallInv' /\ CollectInv'
    BY <1>1, <1>3, CallStep, CollectStep
  <2>2. SentInv' /\ ThrottleInv'
    BY <1>1, <1>2, <1>3, SentStep, ThrottleStep
  <2>3. LoopInv' /\ HealthInv' /\ DollarsAreDollars'
    BY <1>1, <1>3, LoopStep, HealthStep, DollarsStep
  <2>4. QED BY <1>2, <2>1, <2>2, <2>3 DEF AdapterInv
<1>4. CASE UNCHANGED vars
  <2> USE <1>1, <1>4 DEF vars
  <2>1. A' = A
    BY DEF A
  <2>2. CallInv'
    BY <2>1 DEF CallInv, More, Known
  <2>3. CollectInv'
    BY DEF CollectInv, Collects
  <2>4. SentInv'
    <3>1. \A c \in Calls : Paid(c)' = Paid(c)
      BY <2>1 DEF Paid, Known
    <3>2. QED BY <2>1, <3>1 DEF SentInv
  <2>5. ThrottleInv' /\ DollarsAreDollars'
    BY DEF ThrottleInv, Done, DollarsAreDollars
  <2>6. LoopInv' /\ HealthInv'
    BY <2>1 DEF LoopInv, HealthInv, Done, Active
  <2>7. QED BY <1>2, <2>2, <2>3, <2>4, <2>5, <2>6 DEF AdapterInv
<1>5. QED BY <1>3, <1>4 DEF Next

----------------------------------------------------------------------------
(* The theorems *)

\* Every reachable state satisfies the inductive invariant: what a call has collected,
\* spent and recorded is accounted for at every point of its loop over coins.
THEOREM AdapterInvariant == Spec => []AdapterInv
  BY AdapterInitially, AdapterStep, PTL DEF Spec

\* Whatever list of coins a call is made with, and whatever each request comes to, the
\* prices returned are of coins asked for, in that order, each mention used once; and
\* there are none with an error, as GetPrice's use of the first of them relies on.
THEOREM PricesAreOfCoinsAsked == Spec => []AnswersAsked
<1>1. AdapterInv => AnswersAsked
  <2> SUFFICES ASSUME AdapterInv, NEW c \in Calls, Done(c)
               PROVE  IF err[c] # "none" THEN prices[c] = <<>>
                      ELSE /\ asked[c] # <<>> => prices[c] # <<>>
                           /\ \E at \in [DOMAIN prices[c] -> DOMAIN asked[c]] :
                                /\ \A j, k \in DOMAIN at : j < k => at[j] < at[k]
                                /\ \A j \in DOMAIN at : prices[c][j].coin = asked[c][at[j]]
    BY DEF AnswersAsked
  <2>1. CallInv /\ Collects(c)
    BY DEF AdapterInv, CollectInv
  <2>2. \E at \in [DOMAIN prices[c] -> DOMAIN asked[c]] :
          /\ \A j, k \in DOMAIN at : j < k => at[j] < at[k]
          /\ \A j \in DOMAIN at : prices[c][j].coin = asked[c][at[j]]
    BY <2>1, Zenon DEF Collects
  <2>3. /\ err[c] # "none" => prices[c] = <<>>
        /\ err[c] = "none" /\ asked[c] # <<>> => prices[c] # <<>>
    BY <2>1 DEF CallInv, Done
  <2>4. QED BY <2>2, <2>3
<1>2. QED BY <1>1, AdapterInvariant, PTL

\* For each of the forty adapters' choices of a market, a price labelled usd was quoted
\* in dollars or in their stablecoin.
THEOREM UsdMeansDollars == Spec => []DollarsAreDollars
<1>1. AdapterInv => DollarsAreDollars
  BY DEF AdapterInv
<1>2. QED BY <1>1, AdapterInvariant, PTL

\* No call makes more requests than coins the adapter knows, and a batch at most one:
\* what the router's token for a call stands for.
THEOREM NoRequestUnpaid == Spec => []RequestsPaidFor
<1>1. AdapterInv => RequestsPaidFor
  <2> SUFFICES ASSUME AdapterInv, NEW c \in Calls
               PROVE  sent[c] <= IF A.batch THEN 1
                                 ELSE Cardinality({k \in DOMAIN asked[c] : Known(asked[c][k])})
    BY DEF RequestsPaidFor
  <2> DEFINE K == {k \in DOMAIN asked[c] : Known(asked[c][k])}
  <2>1. SentInvOf(c) /\ sent[c] \in Nat /\ asked[c] \in Seq(CoinIDs)
    BY DEF AdapterInv, SentInv, SentInvOf, TypeOK
  <2>2. Paid(c) \subseteq K /\ K \in SUBSET DOMAIN asked[c]
    BY DEF Paid
  <2>3. IsFiniteSet(K) /\ Cardinality(K) \in Nat /\ Cardinality(Paid(c)) \in Nat
    BY <2>1, <2>2, PlacesFinite
  <2>4. Cardinality(Paid(c)) <= Cardinality(K)
    BY <2>2, <2>3, FS_Subset
  <2> HIDE DEF K
  <2>5. CASE A.batch
    BY <2>1, <2>5 DEF SentInvOf
  <2>6. CASE ~A.batch
    <3>1. sent[c] <= Cardinality(K)
      BY <2>1, <2>3, <2>4, <2>6 DEF SentInvOf
    <3>2. QED BY <2>6, <3>1 DEF K
  <2>7. QED BY <2>5, <2>6
<1>2. QED BY <1>1, AdapterInvariant, PTL

\* A 429 is the error its call returns, whichever coin of the list met it, so that the
\* router learns of the limit; but for coinpaprika's GetPrices.
THEOREM ThrottledCallsSaySo == Spec => []ThrottlingSurfaces
<1>1. AdapterInv => ThrottlingSurfaces
  BY DEF AdapterInv, ThrottleInv, ThrottlingSurfaces
<1>2. QED BY <1>1, AdapterInvariant, PTL

\* However the calls' records of success and failure interleave, between calls an
\* adapter whose calls all succeeded is healthy, and one whose calls all failed is not.
THEOREM HealthIsEarned == Spec => []HealthTellsOutcome
<1>1. AdapterInv => HealthTellsOutcome
  <2> SUFFICES ASSUME HealthInv, name # "coinpaprika",
                      \A c \in Calls : ~Done(c) => pc[c] = "idle",
                      NEW e \in Calls, Done(e)
               PROVE  /\ (\A c \in Calls : Done(c) => err[c] = "none") => health.healthy
                      /\ (\A c \in Calls : Done(c) => err[c] \notin A.silent \cup {"none"})
                           => ~health.healthy
    BY DEF AdapterInv, HealthTellsOutcome
  <2>1. \A c \in Calls : ~Active(c)
    BY DEF Active, Done
  <2>2. pc[e] # "idle"
    BY DEF Done
  <2>3. /\ \/ health.healthy
           \/ \E c \in Calls : Done(c) /\ err[c] # "none"
        /\ \/ ~health.healthy
           \/ \E c \in Calls : Done(c) /\ err[c] \in A.silent \cup {"none"}
    BY <2>1, <2>2, Zenon DEF HealthInv
  <2>4. QED BY <2>3, Zenon
<1>2. QED BY <1>1, AdapterInvariant, PTL
=============================================================================
