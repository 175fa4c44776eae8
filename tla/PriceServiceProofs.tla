------------------------- MODULE PriceServiceProofs -------------------------
(***************************************************************************)
(* GetPrice for any number of requests and providers, any cache, breaker   *)
(* and rate limit: what it returns, and what it leaves behind.  Then the   *)
(* pure parts it calls (consensus, conversion, the stores' queries) for    *)
(* any sequence of prices.  Induction over sequences is by the least       *)
(* counterexample: LeastNumber.                                            *)
(***************************************************************************)
EXTENDS PriceService, SavedPrices, FiniteSetTheorems, WellFoundedInduction, TLAPS

\* The steps of a request up to its result: nothing shared but the router changes.
Searches(r) ==
    \/ CacheMiss(r) \/ Poll(r) \/ PollEnd(r) \/ Disagree(r)
    \/ \E p \in Providers : PolledFails(r, p) \/ PolledReturns(r, p)
    \/ Select(r) \/ GiveUp(r) \/ NoneHealthy(r) \/ RetriesUsed(r)
    \/ CallFails(r) \/ CallReturns(r) \/ Accept(r) \/ Reject(r)

\* The steps beside the requests.
Beside ==
    \/ \E batch \in SUBSET pending \ {{}} : Flush(batch)
    \/ \E p \in saving : AsyncSave(p)
    \/ \E p \in notifying : Notify(p)
    \/ StreamCache \/ StreamStore
    \/ Tick

LEMMA StepCases ==
    ASSUME [Next]_vars
    PROVE  \/ \E r \in Requests : Searches(r) \/ CacheHit(r) \/ Agree(r) \/ PutInCache(r)
                                  \/ SaveAndReturn(r) \/ Fallback(r)
           \/ Beside \/ UNCHANGED vars
  BY DEF Next, GetPrice, Polled, Searches, Beside

----------------------------------------------------------------------------
(* Locals of the requests *)

\* A request that searches changes its own locals only, and neither returns nor
\* touches what is stored.
LEMMA SearchFrame ==
    ASSUME RequestTypes, NEW r \in Requests, Searches(r)
    PROVE  /\ UNCHANGED <<cache, store, pending, storeFailed, saving, notifying, streamSave, source>>
           /\ \A q \in Requests \ {r} : /\ phase'[q] = phase[q] /\ price'[q] = price[q]
                                        /\ tried'[q] = tried[q] /\ attempt'[q] = attempt[q]
                                        /\ lastErr'[q] = lastErr[q]
           /\ \/ phase'[r] = phase[r] /\ price'[r] = price[r]
              \/ phase[r] \notin {"set", "save", "done"} /\ phase'[r] \notin {"save", "done"}
<1> USE DEF RequestTypes, Goto, storeVars, asyncVars, streamVars, retryVars
<1>1. CASE CacheMiss(r)
  BY <1>1 DEF CacheMiss
<1>2. CASE Poll(r) \/ PollEnd(r)
  BY <1>2 DEF Poll, PollEnd
<1>3. CASE Disagree(r) \/ RetriesUsed(r) \/ Accept(r)
  BY <1>3 DEF Disagree, RetriesUsed, Accept
<1>4. ASSUME NEW p \in Providers, PolledFails(r, p) \/ PolledReturns(r, p)
      PROVE  UNCHANGED <<cache, storeVars, asyncVars, streamVars, source, phase, price, retryVars>>
  BY <1>4 DEF PolledFails, PolledReturns
<1>5. CASE Select(r) \/ GiveUp(r) \/ NoneHealthy(r)
  BY <1>5 DEF Select, GiveUp, NoneHealthy, Fail
<1>6. CASE CallFails(r) \/ CallReturns(r) \/ Reject(r)
  BY <1>6 DEF CallFails, CallReturns, Reject, Fail
<1>7. QED BY <1>1, <1>2, <1>3, <1>4, <1>5, <1>6 DEF Searches

\* The steps that are not a request's leave the locals of requests alone.
LEMMA BesideFrame ==
    ASSUME Beside \/ UNCHANGED vars
    PROVE  UNCHANGED <<phase, tried, attempt, lastErr, price, source>>
  BY DEF Beside, Flush, AsyncSave, Notify, StreamCache, StreamStore, Tick, retryVars, vars

LEMMA RequestTypesStep == RequestTypes /\ [Next]_vars => RequestTypes'
<1> SUFFICES ASSUME RequestTypes, [Next]_vars PROVE RequestTypes'
  OBVIOUS
<1> USE DEF RequestTypes, Goto, Finish, retryVars
<1>1. ASSUME NEW r \in Requests, CacheMiss(r) \/ Disagree(r) \/ RetriesUsed(r) \/ Accept(r)
      PROVE  RequestTypes'
  BY <1>1 DEF CacheMiss, Disagree, RetriesUsed, Accept
<1>2. ASSUME NEW r \in Requests, Poll(r) \/ PollEnd(r) PROVE RequestTypes'
  BY <1>2 DEF Poll, PollEnd
<1>3. ASSUME NEW r \in Requests, NEW p \in Providers, PolledFails(r, p) \/ PolledReturns(r, p)
      PROVE  RequestTypes'
  BY <1>3 DEF PolledFails, PolledReturns
<1>4. ASSUME NEW r \in Requests, Select(r) PROVE RequestTypes'
  BY <1>4, ServiceConstants DEF Select
<1>5. ASSUME NEW r \in Requests, GiveUp(r) \/ NoneHealthy(r) PROVE RequestTypes'
  BY <1>5 DEF GiveUp, NoneHealthy, Fail
<1>6. ASSUME NEW r \in Requests, CallFails(r) \/ CallReturns(r) \/ Reject(r) PROVE RequestTypes'
  BY <1>6 DEF CallFails, CallReturns, Reject, Fail
<1>7. ASSUME NEW r \in Requests, CacheHit(r) \/ Agree(r) \/ PutInCache(r) \/ SaveAndReturn(r)
                                 \/ Fallback(r)
      PROVE  RequestTypes'
  BY <1>7 DEF CacheHit, Agree, PutInCache, SaveAndReturn, Fallback
<1>8. QED BY <1>1, <1>2, <1>3, <1>4, <1>5, <1>6, <1>7, StepCases, BesideFrame DEF Searches

----------------------------------------------------------------------------
(* The retry loop *)

\* A step of one request keeps RetryInv for the others; this is it for itself.
RetryInvOf(r) ==
    /\ phase[r] \in {"new", "poll", "collect"} => attempt[r] = 0
    /\ phase[r] = "new" => tried[r] = {}
    /\ phase[r] # "poll" => IsFiniteSet(tried[r]) /\ Cardinality(tried[r]) = attempt[r]
    /\ phase[r] = "select" /\ lastErr[r] = "none" => attempt[r] = 0
    /\ phase[r] = "fallback" => lastErr[r] # "none"

\* A provider the loop has not tried makes one more.
LEMMA SelectCounts ==
    ASSUME RequestTypes, NEW r \in Requests, RetryInvOf(r), Select(r)
    PROVE  RetryInvOf(r)'
<1>1. PICK p \in Providers \ tried[r] :
        tried' = [tried EXCEPT ![r] = @ \cup {p}]
  BY DEF Select
<1>2. IsFiniteSet(tried[r]) /\ Cardinality(tried[r]) = attempt[r]
  BY DEF RetryInvOf, Select
<1>3. /\ IsFiniteSet(tried[r] \cup {p})
      /\ Cardinality(tried[r] \cup {p}) = attempt[r] + 1
  BY <1>1, <1>2, FS_AddElement
<1>4. /\ tried'[r] = tried[r] \cup {p} /\ attempt'[r] = attempt[r] + 1 /\ phase'[r] = "call"
  BY <1>1 DEF RequestTypes, Select, Goto
<1>5. QED BY <1>3, <1>4 DEF RetryInvOf

LEMMA SearchRetries ==
    ASSUME RequestTypes, NEW r \in Requests, RetryInvOf(r), Searches(r)
    PROVE  RetryInvOf(r)'
<1> USE DEF RequestTypes, Goto, retryVars, RetryInvOf
<1>1. CASE CacheMiss(r) \/ Disagree(r) \/ Accept(r)
  <2>1. UNCHANGED <<tried, attempt, lastErr>> /\ phase[r] \in {"new", "collect", "validate"}
    BY <1>1 DEF CacheMiss, Disagree, Accept
  <2>2. CASE phase[r] = "new"
    BY <1>1, <2>1, <2>2 DEF CacheMiss, Disagree, Accept
  <2>3. CASE phase[r] = "collect"
    BY <1>1, <2>1, <2>3 DEF CacheMiss, Disagree, Accept
  <2>4. CASE phase[r] = "validate"
    BY <1>1, <2>1, <2>4 DEF CacheMiss, Disagree, Accept
  <2>5. QED BY <2>1, <2>2, <2>3, <2>4
<1>2. CASE Poll(r)
  BY <1>2 DEF Poll
<1>3. CASE PollEnd(r)
  <2>1. IsFiniteSet({}) /\ Cardinality({}) = 0
    BY FS_EmptySet
  <2>2. /\ tried'[r] = {} /\ attempt'[r] = 0 /\ phase'[r] = "collect"
    BY <1>3 DEF PollEnd
  <2>3. QED BY <2>1, <2>2
<1>4. ASSUME NEW p \in Providers, PolledFails(r, p) \/ PolledReturns(r, p) PROVE RetryInvOf(r)'
  BY <1>4 DEF PolledFails, PolledReturns
<1>5. CASE Select(r)
  BY <1>5, SelectCounts
<1>6. CASE RetriesUsed(r)
  BY <1>6, ServiceConstants DEF RetriesUsed
<1>7. CASE GiveUp(r)
  <2>1. tried[r] # {} /\ phase[r] = "select" /\ phase'[r] = "fallback"
        /\ UNCHANGED <<tried, attempt, lastErr>>
    BY <1>7 DEF GiveUp
  <2>2. attempt[r] # 0
    BY <2>1, FS_EmptySet
  <2>3. QED BY <2>1, <2>2
<1>8. CASE NoneHealthy(r) \/ CallFails(r) \/ Reject(r)
  <2>1. /\ UNCHANGED <<tried, attempt>> /\ lastErr'[r] # "none"
        /\ phase[r] \in {"select", "call", "validate"} /\ phase'[r] \in {"select", "fallback"}
    BY <1>8 DEF NoneHealthy, CallFails, Reject, Fail
  <2>2. QED BY <2>1
<1>9. CASE CallReturns(r)
  BY <1>9 DEF CallReturns
<1>10. QED BY <1>1, <1>2, <1>3, <1>4, <1>5, <1>6, <1>7, <1>8, <1>9 DEF Searches

LEMMA RetryStep == RequestTypes /\ RetryInv /\ [Next]_vars => RetryInv'
<1> SUFFICES ASSUME RequestTypes, RetryInv, [Next]_vars, NEW q \in Requests PROVE RetryInvOf(q)'
  BY DEF RetryInv, RetryInvOf
<1>1. RetryInvOf(q)
  BY DEF RetryInv, RetryInvOf
<1>2. ASSUME NEW r \in Requests, Searches(r) PROVE RetryInvOf(q)'
  <2>1. CASE q = r
    BY <1>1, <1>2, <2>1, SearchRetries
  <2>2. CASE q # r
    <3>1. /\ phase'[q] = phase[q] /\ tried'[q] = tried[q] /\ attempt'[q] = attempt[q]
          /\ lastErr'[q] = lastErr[q]
      BY <1>2, <2>2, SearchFrame
    <3>2. QED BY <1>1, <3>1 DEF RetryInvOf
  <2>3. QED BY <2>1, <2>2
<1>3. ASSUME NEW r \in Requests, CacheHit(r) \/ Agree(r) \/ PutInCache(r) \/ SaveAndReturn(r)
                                 \/ Fallback(r)
      PROVE  RetryInvOf(q)'
  <2>1. /\ UNCHANGED <<tried, attempt, lastErr>>
        /\ phase' = [phase EXCEPT ![r] = "done"] \/ phase' = [phase EXCEPT ![r] = "save"]
        /\ phase[r] # "poll"
    BY <1>3 DEF CacheHit, Agree, PutInCache, SaveAndReturn, Fallback, Finish, Goto, retryVars
  <2>2. QED BY <1>1, <2>1 DEF RequestTypes, RetryInvOf
<1>4. CASE Beside \/ UNCHANGED vars
  BY <1>1, <1>4, BesideFrame DEF RetryInvOf
<1>5. QED BY <1>2, <1>3, <1>4, StepCases

----------------------------------------------------------------------------
(* Prices *)

LEMMA StampedIsPrice == \A p, now : Stamped(p, now) => p # NoPrice
  BY DEF Stamped, NoPrice

\* A stamp of before now is one of before later.
LEMMA StampedLater ==
    ASSUME NEW now \in Nat, NEW later \in Nat, now <= later
    PROVE  \A p : Stamped(p, now) => Stamped(p, later)
  BY DEF Stamped

\* The price in hand of a request that searches.
LEMMA SearchStamps ==
    ASSUME RequestTypes, PricesStamped, NEW r \in Requests, Searches(r)
    PROVE  /\ clock' \in Nat /\ clock <= clock'
           /\ phase'[r] \in {"validate", "set", "save"} => Stamped(price'[r], clock')
<1> USE DEF RequestTypes, PricesStamped, Goto
<1>1. CASE CallReturns(r)
  BY <1>1 DEF CallReturns, Stamped
<1>2. CASE Accept(r)
  BY <1>2 DEF Accept
<1>3. CASE Reject(r)
  BY <1>3 DEF Reject
<1>4. ASSUME NEW p \in Providers, PolledFails(r, p) \/ PolledReturns(r, p)
      PROVE  UNCHANGED <<clock, phase, price>>
  BY <1>4 DEF PolledFails, PolledReturns
<1>5. CASE CacheMiss(r) \/ Poll(r) \/ PollEnd(r) \/ Disagree(r) \/ Select(r) \/ GiveUp(r)
           \/ NoneHealthy(r) \/ RetriesUsed(r) \/ CallFails(r)
  BY <1>5 DEF CacheMiss, Poll, PollEnd, Disagree, Select, GiveUp, NoneHealthy, RetriesUsed,
              CallFails
<1>6. QED BY <1>1, <1>2, <1>3, <1>4, <1>5 DEF Searches

\* What StoreSave does, in whichever store and whether or not it fails.
LEMMA SaveAdds ==
    ASSUME NEW p, StoreSave(p)
    PROVE  /\ store \subseteq store' /\ pending \subseteq pending'
           /\ store' \cup pending' \subseteq store \cup pending \cup {p}
           /\ ~Buffered => pending' = pending
           /\ \/ p \in store' \cup pending' /\ storeFailed' = storeFailed
              \/ storeFailed' = TRUE
  BY DEF StoreSave

\* What Flush does.
LEMMA FlushMoves ==
    ASSUME NEW batch \in SUBSET pending, Flush(batch)
    PROVE  /\ UNCHANGED <<cache, saving, notifying, clock, streamSave, phase, price>>
           /\ store \subseteq store' /\ pending' \subseteq pending
           /\ store' \cup pending' \subseteq store \cup pending
           /\ \/ store \cup pending \subseteq store' \cup pending' /\ storeFailed' = storeFailed
              \/ storeFailed' = TRUE
  BY DEF Flush, asyncVars, streamVars

LEMMA StampedStep == RequestTypes /\ PricesStamped /\ [Next]_vars => PricesStamped'
<1> SUFFICES ASSUME RequestTypes, PricesStamped, [Next]_vars PROVE PricesStamped'
  OBVIOUS
<1>1. ASSUME NEW r \in Requests, Searches(r) PROVE PricesStamped'
  <2>1. clock' \in Nat /\ clock \in Nat /\ clock <= clock'
    BY <1>1, SearchStamps DEF PricesStamped
  <2>2. \A p : Stamped(p, clock) => Stamped(p, clock')
    BY <2>1, StampedLater
  <2>3. QED BY <1>1, <2>1, <2>2, SearchFrame, SearchStamps DEF PricesStamped
<1> USE DEF RequestTypes, PricesStamped, CacheSet, Goto, Finish, streamVars, asyncVars, storeVars
<1>2. ASSUME NEW r \in Requests, CacheHit(r) \/ PutInCache(r) \/ Fallback(r) PROVE PricesStamped'
  BY <1>2 DEF CacheHit, PutInCache, Fallback
<1>3. ASSUME clock' = clock + 1 PROVE \A p : Stamped(p, clock) => Stamped(p, clock')
  BY <1>3, StampedLater
<1>4. ASSUME NEW r \in Requests, Agree(r) PROVE PricesStamped'
  <2>1. ConsensusPrice(r).at = clock + 1 /\ ConsensusPrice(r).from = "consensus"
    BY DEF ConsensusPrice
  <2>2. clock' = clock + 1 /\ Stamped(ConsensusPrice(r), clock')
    BY <1>4, <2>1 DEF Agree, Stamped
  <2> HIDE DEF RequestTypes
  <2>3. /\ UNCHANGED <<store, pending, streamSave>> /\ DOMAIN cache' = {"price", "age"}
        /\ saving' = saving \cup {ConsensusPrice(r)}
        /\ notifying' = notifying \cup {ConsensusPrice(r)}
    BY <1>4 DEF Agree
  <2>4. \A q \in Requests : phase'[q] \in {"validate", "set", "save"} =>
                               phase'[q] = phase[q] /\ price'[q] = price[q]
    BY <1>4 DEF Agree, RequestTypes
  <2>5. QED BY <1>3, <2>2, <2>3, <2>4
<1>5. ASSUME NEW r \in Requests, SaveAndReturn(r) PROVE PricesStamped'
  <2>1. Stamped(price[r], clock) /\ UNCHANGED <<cache, saving, clock, streamSave>>
    BY <1>5 DEF SaveAndReturn
  <2>2. /\ store' \cup pending' \subseteq store \cup pending \cup {price[r]}
        /\ notifying' = notifying \cup {price[r]}
    BY <1>5, SaveAdds DEF SaveAndReturn
  <2>3. \A q \in Requests : phase'[q] \in {"validate", "set", "save"} =>
                               phase'[q] = phase[q] /\ price'[q] = price[q]
    BY <1>5 DEF SaveAndReturn
  <2>4. QED BY <2>1, <2>2, <2>3
<1>6. ASSUME NEW p \in saving, AsyncSave(p) PROVE PricesStamped'
  <2>1. /\ store' \cup pending' \subseteq store \cup pending \cup {p}
        /\ saving' \subseteq saving
    BY <1>6, SaveAdds DEF AsyncSave
  <2>2. UNCHANGED <<cache, notifying, clock, streamSave, phase, price>>
    BY <1>6 DEF AsyncSave
  <2>3. QED BY <2>1, <2>2
<1>7. ASSUME NEW p \in notifying, Notify(p) PROVE PricesStamped'
  BY <1>7 DEF Notify
<1>8. CASE StreamCache
  <2>1. clock' = clock + 1 /\ Stamped(streamSave', clock')
    BY <1>8 DEF StreamCache, Stamped
  <2>2. QED BY <1>3, <1>8, <2>1 DEF StreamCache
<1>9. CASE StreamStore
  <2>1. /\ store' \cup pending' \subseteq store \cup pending \cup {streamSave}
        /\ streamSave # NoPrice /\ streamSave' = NoPrice
    BY <1>9, SaveAdds DEF StreamStore
  <2>2. UNCHANGED <<cache, saving, notifying, clock, phase, price>>
    BY <1>9 DEF StreamStore
  <2>3. QED BY <2>1, <2>2
<1>10. ASSUME NEW batch \in SUBSET pending, Flush(batch) PROVE PricesStamped'
  BY <1>10, FlushMoves
<1>11. CASE Tick \/ UNCHANGED vars
  BY <1>11 DEF Tick, vars
<1>12. QED
  BY <1>1, <1>2, <1>4, <1>5, <1>6, <1>7, <1>8, <1>9, <1>10, <1>11, StepCases DEF Beside

----------------------------------------------------------------------------
(* What GetPrice returns *)

LEMMA NilStep ==
    ASSUME RequestTypes, PricesStamped, RetryInv, NeverNilNil, [Next]_vars
    PROVE  NeverNilNil'
<1> SUFFICES ASSUME NEW q \in Requests, phase'[q] = "done"
             PROVE  price'[q] = NoPrice => lastErr'[q] # "none"
  BY DEF NeverNilNil, Done
<1> USE DEF NeverNilNil, Done
<1>1. ASSUME NEW r \in Requests, Searches(r) PROVE price'[q] = NoPrice => lastErr'[q] # "none"
  <2>1. CASE q # r
    BY <1>1, <2>1, SearchFrame
  <2>2. CASE q = r
    <3>1. phase[r] = "done" /\ price'[r] = price[r]
      BY <1>1, <2>2, SearchFrame
    <3>2. lastErr'[r] = lastErr[r]
      BY <1>1, <3>1
      DEF Searches, CacheMiss, Poll, PollEnd, Disagree, PolledFails, PolledReturns, Select, GiveUp,
          NoneHealthy, RetriesUsed, CallFails, CallReturns, Accept, Reject, retryVars
    <3>3. QED BY <2>2, <3>1, <3>2
  <2>3. QED BY <2>1, <2>2
<1> USE DEF RequestTypes, Goto, Finish, retryVars
<1>2. ASSUME NEW r \in Requests, CacheHit(r) PROVE price'[q] = NoPrice => lastErr'[q] # "none"
  BY <1>2 DEF CacheHit
<1>3. ASSUME NEW r \in Requests, Agree(r) PROVE price'[q] = NoPrice => lastErr'[q] # "none"
  BY <1>3 DEF Agree, ConsensusPrice, NoPrice
<1>4. ASSUME NEW r \in Requests, PutInCache(r) PROVE price'[q] = NoPrice => lastErr'[q] # "none"
  BY <1>4 DEF PutInCache
<1>5. ASSUME NEW r \in Requests, SaveAndReturn(r) PROVE price'[q] = NoPrice => lastErr'[q] # "none"
  BY <1>5, StampedIsPrice DEF SaveAndReturn, PricesStamped
<1>6. ASSUME NEW r \in Requests, Fallback(r) PROVE price'[q] = NoPrice => lastErr'[q] # "none"
  BY <1>6 DEF Fallback, RetryInv
<1>7. CASE Beside \/ UNCHANGED vars
  BY <1>7, BesideFrame
<1>8. QED BY <1>1, <1>2, <1>3, <1>4, <1>5, <1>6, <1>7, StepCases

----------------------------------------------------------------------------
(* The store *)

\* A set of numbers has a least one.
LEMMA LeastNumber ==
    ASSUME NEW T, T \subseteq Nat, T # {}
    PROVE  \E m \in T : \A n \in T : m <= n
<1> DEFINE R == {ss \in Nat \X Nat : ss[1] < ss[2]}
<1>1. IsWellFoundedOn(R, Nat)
    BY NatLessThanWellFounded DEF OpToRel
<1> HIDE DEF R
<1>2. PICK m \in T : \A n \in T : ~(<<n, m>> \in R)
    BY <1>1, WFMin, Zenon
<1>3. ASSUME NEW n \in T PROVE m <= n
    <2>1. n \in Nat /\ m \in Nat /\ ~(<<n, m>> \in R)
        BY <1>2
    <2>2. ~(n < m)
        BY <2>1 DEF R
    <2>3. QED
        BY <2>1, <2>2
<1>4. QED BY <1>2, <1>3

\* A store that is not empty has a newest price: stamps are numbers up to now.
LEMMA StoreHasLatest ==
    ASSUME PricesStamped, store # {}
    PROVE  Latest # {}
<1> DEFINE Ages == {clock - p.at : p \in store}
<1>1. clock \in Nat /\ \A p \in store : p.at \in Nat /\ p.at <= clock
  BY DEF PricesStamped, Stamped
<1>2. Ages \subseteq Nat /\ Ages # {}
  BY <1>1
<1>3. PICK m \in Ages : \A n \in Ages : m <= n
  BY <1>2, LeastNumber
<1>4. PICK p \in store : m = clock - p.at
  BY <1>3
<1>5. \A q \in store : q.at <= p.at
  <2> TAKE q \in store
  <2>1. clock - p.at <= clock - q.at
    BY <1>3, <1>4
  <2>2. QED BY <1>1, <2>1
<1>6. p \in Latest
  BY <1>5 DEF Latest
<1>7. QED BY <1>6

\* What is saved stays saved, while no call of the store fails.
LEMMA StoreFrame ==
    ASSUME [Next]_vars, RequestTypes
    PROVE  /\ storeFailed => storeFailed'
           /\ ~storeFailed' => store \cup pending \subseteq store' \cup pending'
           /\ ~Buffered => pending' \subseteq pending
<1> USE DEF storeVars
<1>1. ASSUME NEW r \in Requests, Searches(r) PROVE UNCHANGED <<store, pending, storeFailed>>
  BY <1>1, SearchFrame
<1>2. ASSUME NEW r \in Requests, CacheHit(r) \/ PutInCache(r) \/ Agree(r)
      PROVE  UNCHANGED <<store, pending, storeFailed>>
  BY <1>2 DEF CacheHit, PutInCache, Agree
<1>3. ASSUME NEW r \in Requests, Fallback(r)
      PROVE  UNCHANGED <<store, pending>> /\ (storeFailed => storeFailed')
  BY <1>3 DEF Fallback
<1>4. ASSUME NEW r \in Requests, SaveAndReturn(r) PROVE StoreSave(price[r])
  BY <1>4 DEF SaveAndReturn
<1>5. ASSUME NEW p \in saving, AsyncSave(p) PROVE StoreSave(p)
  BY <1>5 DEF AsyncSave
<1>6. CASE StreamStore
  <2>1. StoreSave(streamSave)
    BY <1>6 DEF StreamStore
  <2>2. QED BY <2>1, SaveAdds
<1>7. ASSUME NEW batch \in SUBSET pending, Flush(batch)
      PROVE  /\ storeFailed => storeFailed'
             /\ ~storeFailed' => store \cup pending \subseteq store' \cup pending'
             /\ pending' \subseteq pending
  BY <1>7, FlushMoves
<1>8. CASE (\E p \in notifying : Notify(p)) \/ StreamCache \/ Tick \/ UNCHANGED vars
  BY <1>8 DEF Notify, StreamCache, Tick, vars
<1>9. QED BY <1>1, <1>2, <1>3, <1>4, <1>5, <1>6, <1>7, <1>8, SaveAdds, StepCases DEF Beside

\* Save comes before return: a price returned fresh is in the store or in a batch.
FreshSaved ==
    ~storeFailed => \A q \in Requests :
                       Done(q) /\ source[q] = "fresh" => price[q] \in store \cup pending

LEMMA FreshStep == RequestTypes /\ FreshSaved /\ [Next]_vars => FreshSaved'
<1> SUFFICES ASSUME RequestTypes, FreshSaved, [Next]_vars, ~storeFailed',
                    NEW q \in Requests, phase'[q] = "done", source'[q] = "fresh"
             PROVE  price'[q] \in store' \cup pending'
  BY DEF FreshSaved, Done
<1>1. ~storeFailed /\ store \cup pending \subseteq store' \cup pending'
  BY StoreFrame
<1>2. phase[q] = "done" /\ source[q] = "fresh" => price[q] \in store' \cup pending'
  BY <1>1 DEF FreshSaved, Done
<1>3. ASSUME NEW r \in Requests, Searches(r) PROVE price'[q] \in store' \cup pending'
  BY <1>2, <1>3, SearchFrame
<1> USE DEF RequestTypes, Goto, Finish
<1>4. ASSUME NEW r \in Requests, CacheHit(r) \/ Agree(r) \/ PutInCache(r) \/ Fallback(r)
      PROVE  price'[q] \in store' \cup pending'
  BY <1>2, <1>4 DEF CacheHit, Agree, PutInCache, Fallback
<1>5. ASSUME NEW r \in Requests, SaveAndReturn(r) PROVE price'[q] \in store' \cup pending'
  <2>1. price[r] \in store' \cup pending'
    BY <1>1, <1>5, SaveAdds DEF SaveAndReturn
  <2>2. QED BY <1>2, <1>5, <2>1 DEF SaveAndReturn
<1>6. CASE Beside \/ UNCHANGED vars
  BY <1>2, <1>6, BesideFrame
<1>7. QED BY <1>3, <1>4, <1>5, <1>6, StepCases

\* Whatever is cached or announced has its Save behind it or before it.
LEMMA AheadStep ==
    ASSUME RequestTypes, PricesStamped, NothingAheadOfStore, [Next]_vars
    PROVE  NothingAheadOfStore'
<1> SUFFICES ASSUME ~storeFailed', NEW p, p # NoPrice, p = cache'.price \/ p \in notifying'
             PROVE  p \in store' \cup pending' \cup Unsaved' \cup saving'
  BY DEF NothingAheadOfStore
<1>1. /\ ~storeFailed /\ store \cup pending \subseteq store' \cup pending'
      /\ p = cache.price \/ p \in notifying => p \in store' \cup pending' \cup Unsaved \cup saving
  <2>1. ~storeFailed /\ store \cup pending \subseteq store' \cup pending'
    BY StoreFrame
  <2>2. QED BY <2>1 DEF NothingAheadOfStore
<1> USE DEF RequestTypes, Unsaved, Goto, Finish, asyncVars, streamVars
<1>2. ASSUME NEW r \in Requests, Searches(r) PROVE p \in store' \cup pending' \cup Unsaved' \cup saving'
  <2>1. /\ UNCHANGED <<cache, saving, notifying, streamSave>>
        /\ \A q \in Requests : phase[q] = "save" => phase'[q] = "save" /\ price'[q] = price[q]
    BY <1>2, SearchFrame
  <2>2. QED BY <1>1, <2>1
<1>3. ASSUME NEW r \in Requests, CacheHit(r) \/ Fallback(r)
      PROVE  p \in store' \cup pending' \cup Unsaved' \cup saving'
  <2>1. /\ UNCHANGED <<cache, saving, notifying, streamSave>>
        /\ \A q \in Requests : phase[q] = "save" => phase'[q] = "save" /\ price'[q] = price[q]
    BY <1>3 DEF CacheHit, Fallback
  <2>2. QED BY <1>1, <2>1
<1>4. ASSUME NEW r \in Requests, Agree(r) PROVE p \in store' \cup pending' \cup Unsaved' \cup saving'
  <2>1. /\ UNCHANGED streamSave /\ saving \subseteq saving'
        /\ \A q \in Requests : phase[q] = "save" => phase'[q] = "save" /\ price'[q] = price[q]
        /\ p = cache.price \/ p \in notifying \/ p \in saving'
    BY <1>4 DEF Agree, CacheSet
  <2>2. QED BY <1>1, <2>1
<1>5. ASSUME NEW r \in Requests, PutInCache(r) PROVE p \in store' \cup pending' \cup Unsaved' \cup saving'
  <2>1. /\ UNCHANGED <<streamSave, saving, price>>
        /\ phase'[r] = "save"
        /\ \A q \in Requests : phase[q] = "save" => phase'[q] = "save"
        /\ p = cache.price \/ p \in notifying \/ p = price[r]
    BY <1>5 DEF PutInCache, CacheSet
  <2>2. QED BY <1>1, <2>1
<1>6. ASSUME NEW r \in Requests, SaveAndReturn(r) PROVE p \in store' \cup pending' \cup Unsaved' \cup saving'
  <2>1. /\ UNCHANGED <<streamSave, saving, cache>> /\ price[r] \in store' \cup pending'
        /\ \A q \in Requests \ {r} : phase'[q] = phase[q] /\ price'[q] = price[q]
        /\ notifying' = notifying \cup {price[r]}
    BY <1>1, <1>6, SaveAdds DEF SaveAndReturn
  <2>2. QED BY <1>1, <2>1
<1>7. ASSUME NEW s \in saving, AsyncSave(s) PROVE p \in store' \cup pending' \cup Unsaved' \cup saving'
  <2>1. /\ UNCHANGED <<streamSave, cache, notifying, phase, price>> /\ saving' = saving \ {s}
        /\ s \in store' \cup pending'
    BY <1>1, <1>7, SaveAdds DEF AsyncSave
  <2>2. QED BY <1>1, <2>1
<1>8. CASE StreamStore
  <2>1. UNCHANGED <<saving, cache, notifying, phase, price>> /\ streamSave \in store' \cup pending'
    BY <1>1, <1>8, SaveAdds DEF StreamStore
  <2>2. QED BY <1>1, <2>1
<1>9. CASE StreamCache
  <2>1. /\ UNCHANGED <<saving, notifying, phase, price>> /\ streamSave = NoPrice
        /\ cache' = cache \/ cache'.price = streamSave'
    BY <1>9 DEF StreamCache, CacheSet
  <2>2. QED BY <1>1, <2>1
<1>10. CASE (\E n \in notifying : Notify(n)) \/ Tick \/ UNCHANGED vars
  <2>1. /\ UNCHANGED <<saving, streamSave, phase, price>> /\ notifying' \subseteq notifying
        /\ cache'.price = cache.price
    BY <1>10 DEF Notify, Tick, vars, PricesStamped
  <2>2. QED BY <1>1, <2>1
<1>11. ASSUME NEW batch \in SUBSET pending, Flush(batch)
       PROVE  p \in store' \cup pending' \cup Unsaved' \cup saving'
  <2>1. UNCHANGED <<cache, saving, notifying, streamSave, phase, price>>
    BY <1>11, FlushMoves
  <2>2. QED BY <1>1, <2>1
<1>12. QED
  BY <1>2, <1>3, <1>4, <1>5, <1>6, <1>7, <1>8, <1>9, <1>10, <1>11, StepCases DEF Beside

LEMMA StoreStep == RequestTypes /\ PricesStamped /\ StoreInv /\ [Next]_vars => StoreInv'
<1> SUFFICES ASSUME RequestTypes, PricesStamped, StoreInv, [Next]_vars PROVE StoreInv'
  OBVIOUS
<1>1. ~Buffered => pending' = {}
  BY StoreFrame DEF StoreInv
<1>2. QED BY <1>1, FreshStep, AheadStep DEF StoreInv, FreshSaved

----------------------------------------------------------------------------
(* Validation *)

LEMMA SingleModeStep ==
    ASSUME RequestTypes, PricesStamped, ResponseMode = "single", SingleInv, [Next]_vars
    PROVE  /\ saving' = {}
           /\ \A r \in Requests : phase'[r] \notin {"poll", "collect"}
           /\ streamSave' # NoPrice => streamSave'.from = "stream"
<1> USE DEF SingleInv, RequestTypes, Goto, Finish, asyncVars, streamVars
<1>1. ASSUME NEW r \in Requests, Searches(r)
      PROVE  \A q \in Requests : phase'[q] \notin {"poll", "collect"}
  <2>1. phase'[r] \notin {"poll", "collect"}
    BY <1>1
    DEF Searches, CacheMiss, Poll, PollEnd, Disagree, PolledFails, PolledReturns, Select, GiveUp,
        NoneHealthy, RetriesUsed, CallFails, CallReturns, Accept, Reject
  <2>2. QED BY <1>1, <2>1, SearchFrame
<1>2. ASSUME NEW r \in Requests, CacheHit(r) \/ PutInCache(r) \/ SaveAndReturn(r) \/ Fallback(r)
      PROVE  /\ \A q \in Requests : phase'[q] \notin {"poll", "collect"}
             /\ UNCHANGED <<saving, streamSave>>
  BY <1>2 DEF CacheHit, PutInCache, SaveAndReturn, Fallback
<1>3. ASSUME NEW r \in Requests, Agree(r) PROVE FALSE
  BY <1>3 DEF Agree
<1>4. CASE Beside \/ UNCHANGED vars
  <2>1. UNCHANGED phase
    BY <1>4, BesideFrame
  <2>2. saving' = {}
    BY <1>4 DEF Beside, Flush, Notify, StreamCache, StreamStore, Tick, asyncVars, vars
  <2>3. streamSave' \in {streamSave, NoPrice} \/ streamSave'.from = "stream"
    <3>1. CASE StreamCache
      BY <3>1 DEF StreamCache
    <3>2. CASE StreamStore
      BY <3>2 DEF StreamStore
    <3>3. CASE ~StreamCache /\ ~StreamStore
      BY <1>4, <3>3 DEF Beside, Flush, Notify, Tick, vars
    <3>4. QED BY <3>1, <3>2, <3>3
  <2>4. QED BY <2>1, <2>2, <2>3
<1>5. QED BY <1>1, <1>2, <1>3, <1>4, StepCases, SearchFrame

\* What goes to the cache and the store has passed Validate.
LEMMA AcceptedStep ==
    ASSUME RequestTypes, PricesStamped, SingleInv, [Next]_vars, Validation,
           NEW q \in Requests, phase'[q] \in {"set", "save"}
    PROVE  price'[q].ok
<1>1. phase[q] \in {"set", "save"} => price[q].ok
  BY DEF SingleInv
<1>2. ASSUME NEW r \in Requests, Searches(r) PROVE price'[q].ok
  <2>1. CASE q # r
    BY <1>1, <1>2, <2>1, SearchFrame
  <2>2. CASE Accept(r) /\ q = r
    BY <2>2 DEF Accept, Validates
  <2>3. CASE ~Accept(r) /\ q = r
    <3>1. phase'[r] = phase[r] /\ price'[r] = price[r]
      BY <1>2, <2>3
      DEF Searches, CacheMiss, Poll, PollEnd, Disagree, PolledFails, PolledReturns, Select, GiveUp,
          NoneHealthy, RetriesUsed, CallFails, CallReturns, Reject, RequestTypes, Goto
    <3>2. QED BY <1>1, <2>3, <3>1
  <2>4. QED BY <2>1, <2>2, <2>3
<1>3. ASSUME NEW r \in Requests, CacheHit(r) \/ Agree(r) \/ SaveAndReturn(r) \/ Fallback(r)
      PROVE  price'[q].ok
  BY <1>1, <1>3 DEF CacheHit, Agree, SaveAndReturn, Fallback, Finish, Goto, RequestTypes
<1>4. ASSUME NEW r \in Requests, PutInCache(r) PROVE price'[q].ok
  BY <1>1, <1>4 DEF PutInCache, Goto, RequestTypes
<1>5. CASE Beside \/ UNCHANGED vars
  BY <1>1, <1>5, BesideFrame
<1>6. QED BY <1>2, <1>3, <1>4, <1>5, StepCases

LEMMA ValidatedStep ==
    ASSUME RequestTypes, PricesStamped, ResponseMode = "single", SingleInv, [Next]_vars
    PROVE  OnlyValidated'
<1> SUFFICES ASSUME Validation, NEW p, p # NoPrice, p.from # "stream",
                    \/ \E q \in Requests : phase'[q] = "done" /\ p = price'[q]
                    \/ p = cache'.price \/ p \in store' \cup pending' \/ p \in notifying'
             PROVE  p.ok
  BY DEF OnlyValidated, Kept, Done
<1>1. p \in Kept => p.ok
  BY DEF SingleInv, OnlyValidated
<1>2. ASSUME \/ \E q \in Requests : phase[q] = "done" /\ p = price[q]
             \/ p = cache.price \/ p \in store \cup pending \/ p \in notifying
      PROVE  p.ok
  BY <1>1, <1>2 DEF Kept, Done
<1>3. ASSUME NEW q \in Requests, phase[q] \in {"set", "save"}, p = price[q] PROVE p.ok
  BY <1>3 DEF SingleInv
<1>4. ASSUME NEW r \in Requests, Searches(r) PROVE p.ok
  BY <1>2, <1>4, SearchFrame
<1> USE DEF RequestTypes, Goto, Finish, asyncVars, streamVars, storeVars
<1>5. ASSUME NEW r \in Requests, CacheHit(r) PROVE p.ok
  BY <1>2, <1>5 DEF CacheHit, Cached
<1>6. ASSUME NEW r \in Requests, Fallback(r) PROVE p.ok
  BY <1>2, <1>6 DEF Fallback, Latest
<1>7. ASSUME NEW r \in Requests, PutInCache(r) PROVE p.ok
  BY <1>2, <1>3, <1>7 DEF PutInCache, CacheSet
<1>8. ASSUME NEW r \in Requests, SaveAndReturn(r) PROVE p.ok
  BY <1>2, <1>3, <1>8, SaveAdds DEF SaveAndReturn
<1>9. ASSUME NEW r \in Requests, Agree(r) PROVE FALSE
  BY <1>9 DEF Agree, SingleInv
<1>10. CASE StreamCache
  <2>1. /\ UNCHANGED <<store, pending, notifying, phase, price>>
        /\ cache' = cache \/ cache'.price.from = "stream"
    BY <1>10 DEF StreamCache, CacheSet
  <2>2. QED BY <1>2, <2>1
<1>11. CASE StreamStore
  <2>1. /\ UNCHANGED <<cache, notifying, phase, price>>
        /\ store' \cup pending' \subseteq store \cup pending \cup {streamSave} /\ streamSave.from = "stream"
    BY <1>11, SaveAdds DEF StreamStore, SingleInv
  <2>2. QED BY <1>2, <2>1
<1>12. CASE (\E n \in notifying : Notify(n)) \/ Tick \/ UNCHANGED vars
  <2>1. /\ UNCHANGED <<store, pending, phase, price>> /\ notifying' \subseteq notifying
        /\ cache'.price = cache.price
    BY <1>12 DEF Notify, Tick, vars, PricesStamped
  <2>2. QED BY <1>2, <2>1
<1>13. ASSUME NEW batch \in SUBSET pending, Flush(batch) PROVE p.ok
  BY <1>2, <1>13, FlushMoves
<1>14. QED
  BY <1>4, <1>5, <1>6, <1>7, <1>8, <1>9, <1>10, <1>11, <1>12, <1>13, StepCases
  DEF Beside, SingleInv

----------------------------------------------------------------------------

LEMMA ServiceInitially == Init => ServiceInv
<1> SUFFICES ASSUME Init PROVE ServiceInv
  OBVIOUS
<1> USE DEF Init
<1>1. RequestTypes
  BY ServiceConstants DEF RequestTypes
<1>2. PricesStamped
  BY DEF PricesStamped
<1>3. RetryInv /\ NeverNilNil
  BY FS_EmptySet DEF RetryInv, NeverNilNil, Done
<1>4. StoreInv
  BY DEF StoreInv, Latest, Done, NothingAheadOfStore
<1>5. SingleInv
  BY DEF SingleInv, OnlyValidated, Kept, Done
<1>6. QED BY <1>1, <1>2, <1>3, <1>4, <1>5 DEF ServiceInv

\* ServiceInv is inductive.
LEMMA ServiceStep == ServiceInv /\ [Next]_vars => ServiceInv'
<1> SUFFICES ASSUME ServiceInv, [Next]_vars PROVE ServiceInv'
  OBVIOUS
<1> USE DEF ServiceInv
<1>1. RequestTypes' /\ PricesStamped'
  BY RequestTypesStep, StampedStep
<1>2. RetryInv' /\ NeverNilNil'
  BY RetryStep, NilStep
<1>3. StoreInv'
  BY StoreStep
<1>4. ASSUME ResponseMode = "single" PROVE SingleInv'
  BY <1>4, SingleModeStep, AcceptedStep, ValidatedStep DEF SingleInv
<1>5. QED BY <1>1, <1>2, <1>3, <1>4

THEOREM ServiceInvariant == Spec => []ServiceInv
  BY ServiceInitially, ServiceStep, PTL DEF Spec

\* GetPrice never returns (nil, nil), in either mode and whatever providers, router,
\* cache and store do.
THEOREM NeverNothing == Spec => []NeverNilNil
<1>1. ServiceInv => NeverNilNil
  BY DEF ServiceInv
<1>2. QED BY <1>1, ServiceInvariant, PTL

\* In single mode, what GetPrice returns, caches, saves or passes to the listener
\* has passed the validator when that is on.  (consensus.Compute does not call it.)
THEOREM SingleModeValidates ==
    ASSUME ResponseMode = "single"
    PROVE  Spec => []OnlyValidated
<1>1. ServiceInv => OnlyValidated
  BY DEF ServiceInv, SingleInv
<1>2. QED BY <1>1, ServiceInvariant, PTL

\* GetPrice, its consensus goroutine and main's stream loop save all they cache or
\* announce, in whatever order they run.
THEOREM StoreCatchesUp == Spec => []NothingAheadOfStore
<1>1. ServiceInv => NothingAheadOfStore
  BY DEF ServiceInv, StoreInv
<1>2. QED BY <1>1, ServiceInvariant, PTL

\* A fallback to the store after a fresh answer finds that answer or a newer one:
\* in memory and postgres at once, in clickhouse once the answer's batch is written.
THEOREM FallbackIsCurrent == Spec => FallbackSeesServed
<1> DEFINE Sees == \A r, q \in Requests :
                     (/\ phase[r] = "fallback" /\ phase'[r] = "done" /\ ~storeFailed'
                      /\ Done(q) /\ source[q] = "fresh"
                      /\ Buffered => price[q] \notin pending)
                     => source'[r] = "store" /\ price'[r].at >= price[q].at
<1>1. ServiceInv /\ [Next]_vars => [Sees]_vars
  <2> SUFFICES ASSUME ServiceInv, [Next]_vars, NEW r \in Requests, NEW q \in Requests,
                      phase[r] = "fallback", phase'[r] = "done", ~storeFailed',
                      phase[q] = "done", source[q] = "fresh",
                      Buffered => price[q] \notin pending
               PROVE  source'[r] = "store" /\ price'[r].at >= price[q].at
    BY DEF Done
  <2>1. Fallback(r)
    <3>1. ASSUME NEW s \in Requests, Searches(s) PROVE FALSE
      BY <3>1, SearchFrame DEF ServiceInv
    <3>2. ASSUME NEW s \in Requests,
                 CacheHit(s) \/ Agree(s) \/ PutInCache(s) \/ SaveAndReturn(s) \/ Fallback(s)
          PROVE  s = r /\ Fallback(r)
      BY <3>2 DEF CacheHit, Agree, PutInCache, SaveAndReturn, Fallback, Finish, Goto, ServiceInv,
                  RequestTypes
    <3>3. QED BY <3>1, <3>2, StepCases, BesideFrame
  <2>2. ~storeFailed /\ price[q] \in store /\ Latest # {}
    <3>1. ~storeFailed
      BY StoreFrame DEF ServiceInv
    <3>2. price[q] \in store
      BY <3>1 DEF ServiceInv, StoreInv, Done
    <3>3. QED BY <3>1, <3>2, StoreHasLatest DEF ServiceInv
  <2>3. PICK p \in Latest : Finish(r, p, "store")
    BY <2>1, <2>2 DEF Fallback
  <2>4. source'[r] = "store" /\ price'[r] = p
    BY <2>3 DEF Finish, ServiceInv, RequestTypes
  <2>5. price[q].at \in Nat /\ p.at \in Nat /\ price[q].at <= p.at
    BY <2>2 DEF Latest, ServiceInv, PricesStamped, Stamped
  <2>6. QED BY <2>4, <2>5
<1>2. QED BY <1>1, ServiceInvariant, PTL DEF Spec, FallbackSeesServed

----------------------------------------------------------------------------
(* Arithmetic for the pure parts *)

\* Whole part and remainder.
LEMMA Division ==
    ASSUME NEW n \in Nat, NEW m \in Nat \ {0}
    PROVE  /\ n \div m \in Nat /\ n % m \in Nat /\ n % m < m
           /\ n = m * (n \div m) + (n % m)
  BY SMT

\* There is only one way to divide.
LEMMA DivisionUnique ==
    ASSUME NEW m \in Nat \ {0}, NEW q \in Int, NEW k \in Int,
           NEW r \in Nat, NEW s \in Nat, r < m, s < m, m * q + r = m * k + s
    PROVE  q = k /\ r = s
<1>1. CASE q < k
  <2>1. q + 1 <= k
    BY <1>1
  <2>2. m * (q + 1) <= m * k
    BY <2>1
  <2>3. m * (q + 1) = m * q + m
    OBVIOUS
  <2> QED BY <2>2, <2>3
<1>2. CASE k < q
  <2>1. k + 1 <= q
    BY <1>2
  <2>2. m * (k + 1) <= m * q
    BY <2>1
  <2>3. m * (k + 1) = m * k + m
    OBVIOUS
  <2> QED BY <2>2, <2>3
<1>3. QED BY <1>1, <1>2

\* Go's and SQL's truncation of a time to the interval it falls in.
LEMMA TruncateOK ==
    ASSUME NEW a \in Nat, NEW d \in Nat \ {0}
    PROVE  /\ Truncate(a, d) \in Nat
           /\ Truncate(a, d) <= a /\ a < Truncate(a, d) + d
           /\ Truncate(a, d) = d * (a \div d)
<1> DEFINE q == a \div d
           r == a % d
           m == d * q
<1>1. /\ q \in Nat /\ r \in Nat /\ r < d /\ a = m + r
  BY Division
<1>2. Truncate(a, d) = a - r
  BY DEF Truncate
<1>3. m \in Nat
  BY <1>1
<1> HIDE DEF q, r, m
<1>4. a - r = m /\ m <= a /\ a < m + d
  BY <1>1, <1>3
<1>5. QED BY <1>2, <1>3, <1>4 DEF m, q

\* Two multiples less than one interval apart are the same.
LEMMA SameMultiple ==
    ASSUME NEW d \in Nat \ {0}, NEW q \in Int, NEW k \in Int, NEW a \in Int,
           d * q <= a, a < d * q + d, d * k <= a, a < d * k + d
    PROVE  q = k
<1> DEFINE x == d * q
           y == d * k
<1>1. x \in Int /\ y \in Int /\ x <= a /\ a < x + d /\ y <= a /\ a < y + d
  OBVIOUS
<1> HIDE DEF x, y
<1>2. a - x \in Nat /\ a - y \in Nat /\ a - x < d /\ a - y < d /\ x + (a - x) = y + (a - y)
  BY <1>1
<1>3. QED BY <1>2, DivisionUnique DEF x, y

\* The multiple of the interval that a time is in is its truncation.
LEMMA TruncateTo ==
    ASSUME NEW a \in Nat, NEW d \in Nat \ {0}, NEW k \in Int
    PROVE  Truncate(a, d) = d * k <=> (d * k <= a /\ a < d * k + d)
<1>1. /\ Truncate(a, d) \in Nat /\ Truncate(a, d) <= a /\ a < Truncate(a, d) + d
      /\ Truncate(a, d) = d * (a \div d)
  BY TruncateOK
<1>2. a \div d \in Int
  BY Division
<1>3. ASSUME d * k <= a, a < d * k + d PROVE Truncate(a, d) = d * k
  <2>1. a \div d = k
    BY <1>1, <1>2, <1>3, SameMultiple
  <2>2. QED BY <1>1, <2>1
<1>4. QED BY <1>1, <1>3

\* What is left of a product of whole parts.
LEMMA Multiple ==
    ASSUME NEW n \in Nat, NEW d \in Nat \ {0}
    PROVE  n % d = 0 <=> \E k \in Nat : n = d * k
<1>1. ASSUME n % d = 0 PROVE \E k \in Nat : n = d * k
  BY <1>1, Division
<1>2. ASSUME NEW k \in Nat, n = d * k PROVE n % d = 0
  <2> DEFINE q == n \div d
             r == n % d
  <2>1. q \in Nat /\ r \in Nat /\ r < d /\ n = d * q + r
    BY Division
  <2> HIDE DEF q, r
  <2>2. d * q + r = d * k + 0
    BY <1>2, <2>1
  <2>3. 0 \in Nat /\ 0 < d /\ q \in Int /\ k \in Int
    BY <2>1
  <2>4. r = 0
    BY <2>1, <2>2, <2>3, DivisionUnique
  <2>5. QED BY <2>4 DEF r
<1>3. QED BY <1>1, <1>2

----------------------------------------------------------------------------
(* Conversion *)

\* decimal.Div is within half a unit.
LEMMA DivRounds ==
    ASSUME NEW x \in Nat, NEW y \in Nat \ {0}, NEW u \in Nat \ {0}
    PROVE  LET d == (2 * x * u + y) \div (2 * y)
           IN  /\ d \in Nat
               /\ 2 * (d * y) <= 2 * (x * u) + y
               /\ 2 * (x * u) - y <= 2 * (d * y)
<1> DEFINE n == 2 * x * u + y
           d == n \div (2 * y)
           r == n % (2 * y)
           xu == x * u
           dy == d * y
<1>1. n \in Nat /\ 2 * y \in Nat \ {0} /\ xu \in Nat
  OBVIOUS
<1>2. n = 2 * xu + y
  OBVIOUS
<1> HIDE DEF n, xu
<1>3. d \in Nat /\ r \in Nat /\ r < 2 * y /\ n = (2 * y) * d + r
  BY <1>1, Division
<1> HIDE DEF d, r
<1>4. dy \in Nat /\ (2 * y) * d = 2 * dy
  BY <1>3
<1> HIDE DEF dy
<1>5. 2 * dy <= 2 * xu + y /\ 2 * xu - y <= 2 * dy
  BY <1>1, <1>2, <1>3, <1>4
<1>6. QED BY <1>3, <1>5 DEF d, n, xu, dy

\* Convert is off by at most half a unit of the rate for each of the amount.
LEMMA ConvertWithin ==
    ASSUME NEW x \in Nat \ {0}, NEW y \in Nat \ {0}, NEW a \in Nat
    PROVE  /\ Convert(x, y, a).ok
           /\ 2 * Abs(Convert(x, y, a).result * y - a * x * Unit) <= a * y
<1> DEFINE d == Div(x, y)
           dy == d * y
           xu == x * Unit
<1>1. Unit \in Nat \ {0}
  BY UnitConstant
<1>2. d \in Nat /\ 2 * dy <= 2 * xu + y /\ 2 * xu - y <= 2 * dy
  BY <1>1, DivRounds DEF Div
<1>3. Convert(x, y, a).ok /\ Convert(x, y, a).result = a * d
  BY DEF Convert, Convertible
<1> HIDE DEF d
<1>4. dy \in Nat /\ xu \in Nat /\ (a * d) * y = a * dy /\ a * x * Unit = a * xu
  BY <1>1, <1>2
<1> HIDE DEF dy, xu
<1>5. a * dy - a * xu = a * (dy - xu) /\ -(a * (dy - xu)) = a * (xu - dy)
  BY <1>4
<1>6. a * (2 * (dy - xu)) <= a * y /\ a * (2 * (xu - dy)) <= a * y
  <2>1. 2 * (dy - xu) <= y /\ 2 * (xu - dy) <= y
    BY <1>2, <1>4
  <2>2. \A z \in Int : z <= y => a * z <= a * y
    OBVIOUS
  <2>3. 2 * (dy - xu) \in Int /\ 2 * (xu - dy) \in Int
    BY <1>4
  <2>4. QED BY <2>1, <2>2, <2>3
<1>7. 2 * (a * (dy - xu)) <= a * y /\ 2 * (a * (xu - dy)) <= a * y
  <2>1. a * (2 * (dy - xu)) = 2 * (a * (dy - xu)) /\ a * (2 * (xu - dy)) = 2 * (a * (xu - dy))
    BY <1>4
  <2>2. QED BY <1>6, <2>1
<1> DEFINE z == a * (dy - xu)
<1>8. 2 * Abs(z) <= a * y
  BY <1>5, <1>7 DEF Abs
<1>9. QED BY <1>3, <1>4, <1>5, <1>8

----------------------------------------------------------------------------
(* Stores *)

\* A sequence of prices with their times.
Timed(s) == s \in Seq([value : Nat, at : Nat])

\* What is in such a sequence.
LEMMA TimedOK ==
    ASSUME NEW s, Timed(s)
    PROVE  /\ Len(s) \in Nat /\ DOMAIN s = 1..Len(s)
           /\ s # <<>> => Len(s) # 0
           /\ \A i \in DOMAIN s : s[i].at \in Nat /\ s[i].value \in Nat
<1> DEFINE R == [value : Nat, at : Nat]
<1>1. s \in Seq(R)
  BY DEF Timed
<1>2. \A x \in R : x.at \in Nat /\ x.value \in Nat
  OBVIOUS
<1> HIDE DEF R
<1>3. Len(s) \in Nat /\ DOMAIN s = 1..Len(s) /\ (s # <<>> => Len(s) # 0)
  BY <1>1
<1>4. \A i \in DOMAIN s : s[i] \in R
  BY <1>1
<1>5. QED BY <1>2, <1>3, <1>4

\* The later of two prices, of equal times the one saved first.
Newest(s, i, j) == s[j].at < s[i].at \/ (s[j].at = s[i].at /\ i <= j)

\* The scan of GetLatest finds a newest price: by induction over the prefixes.
LEMMA NewestExists ==
    ASSUME NEW s, Timed(s), s # <<>>
    PROVE  \E i \in DOMAIN s : \A j \in DOMAIN s : Newest(s, i, j)
<1> DEFINE N == Len(s)
           Bad == {n \in 1..N : ~\E i \in 1..n : \A j \in 1..n : Newest(s, i, j)}
<1>1. N \in Nat \ {0} /\ DOMAIN s = 1..N /\ \A i \in 1..N : s[i].at \in Nat
  BY TimedOK
<1> HIDE DEF N
<1>2. Bad = {}
  <2> SUFFICES ASSUME Bad # {} PROVE FALSE
    OBVIOUS
  <2>1. Bad \subseteq Nat
    BY <1>1
  <2>2. PICK m \in Bad : \A n \in Bad : m <= n
    BY <2>1, LeastNumber
  <2>3. m \in 1..N /\ ~\E i \in 1..m : \A j \in 1..m : Newest(s, i, j)
    BY <2>2
  <2> HIDE DEF Bad
  <2>4. CASE m = 1
    <3>1. \A j \in 1..1 : Newest(s, 1, j)
      BY DEF Newest
    <3>2. QED BY <2>3, <2>4, <3>1
  <2>5. CASE m # 1
    <3>1. m - 1 \in 1..N /\ ~(m <= m - 1)
      BY <1>1, <2>3, <2>5
    <3>2. m - 1 \notin Bad
      BY <2>2, <3>1
    <3>3. PICK i \in 1..(m - 1) : \A j \in 1..(m - 1) : Newest(s, i, j)
      BY <3>1, <3>2 DEF Bad
    <3>4. i \in 1..N /\ i \in 1..m /\ m \in 1..m /\ s[i].at \in Nat /\ s[m].at \in Nat
      BY <1>1, <2>3, <3>3
    <3>5. \A j \in 1..m : j \in 1..(m - 1) \/ j = m
      BY <1>1, <2>3
    <3>6. CASE s[i].at < s[m].at
      <4>1. \A j \in 1..(m - 1) : s[j].at \in Nat /\ s[j].at <= s[i].at
        BY <1>1, <2>3, <3>3, <3>4 DEF Newest
      <4>2. \A j \in 1..m : Newest(s, m, j)
        BY <3>4, <3>5, <3>6, <4>1 DEF Newest
      <4>3. QED BY <2>3, <3>4, <4>2
    <3>7. CASE ~(s[i].at < s[m].at)
      <4>1. Newest(s, i, m)
        BY <3>3, <3>4, <3>7 DEF Newest
      <4>2. \A j \in 1..m : Newest(s, i, j)
        BY <3>3, <3>5, <4>1
      <4>3. QED BY <2>3, <3>4, <4>2
    <3>8. QED BY <3>6, <3>7
  <2>6. QED BY <2>4, <2>5
<1>3. N \in 1..N /\ N \notin Bad
  <2> HIDE DEF Bad
  <2>1. QED BY <1>1, <1>2
<1>4. \E i \in 1..N : \A j \in 1..N : Newest(s, i, j)
  <2>1. ~(N \in {n \in 1..N : ~\E i \in 1..n : \A j \in 1..n : Newest(s, i, j)})
    BY <1>3
  <2>2. QED BY <1>3, <2>1, Zenon
<1>5. QED BY <1>1, <1>4

\* The memory store's latest price is one of the newest.
LEMMA LatestAgrees ==
    ASSUME NEW s, Timed(s), s # <<>>
    PROVE  GetLatest(s) \in SQLLatest(s)
<1> DEFINE i == CHOOSE k \in DOMAIN s : \A j \in DOMAIN s : Newest(s, k, j)
<1>1. i \in DOMAIN s /\ \A j \in DOMAIN s : Newest(s, i, j)
  BY NewestExists
<1>2. GetLatest(s) = s[i]
  BY DEF GetLatest, Newest
<1> HIDE DEF i
<1>3. \A j \in DOMAIN s : s[j].at \in Nat
  BY TimedOK
<1>4. \A j \in DOMAIN s : s[j].at <= s[i].at
  BY <1>1, <1>3 DEF Newest
<1>5. QED BY <1>1, <1>2, <1>4 DEF SQLLatest

\* GROUP BY toStartOfInterval makes the buckets of the memory store.
LEMMA ClickHouseAgrees ==
    ASSUME NEW s, Timed(s), NEW from \in Nat, NEW to \in Nat, NEW d \in Nat \ {0}
    PROVE  ClickHouseOHLC(s, from, to, d) = MemoryOHLC(s, from, to, d)
<1> DEFINE W == Within(s, from, to)
           starts == {Truncate(s[i].at, d) : i \in W}
           M(t) == {i \in W : Truncate(s[i].at, d) = t}
           C(t) == {i \in W : t <= s[i].at /\ s[i].at < t + d}
<1>1. \A i \in W : s[i].at \in Nat
  BY TimedOK DEF Within
<1>2. MemoryOHLC(s, from, to, d) = {Candle(s, M(t), t) : t \in starts}
  BY DEF MemoryOHLC
<1>3. ClickHouseOHLC(s, from, to, d) = {Candle(s, C(t), t) : t \in starts}
  BY DEF ClickHouseOHLC
<1> HIDE DEF W
<1>4. ASSUME NEW t \in starts PROVE M(t) = C(t)
  <2>1. PICK j \in W : t = Truncate(s[j].at, d)
    OBVIOUS
  <2>2. PICK q \in Int : t = d * q
    <3>1. \A a \in Nat : Truncate(a, d) = d * (a \div d)
      BY TruncateOK
    <3>2. \A a \in Nat : a \div d \in Int
      BY Division
    <3>3. QED BY <1>1, <2>1, <3>1, <3>2
  <2>3. \A i \in W : Truncate(s[i].at, d) = t <=> (t <= s[i].at /\ s[i].at < t + d)
    BY <1>1, <2>2, TruncateTo
  <2>4. QED BY <2>3
<1> HIDE DEF starts, M, C
<1>5. {Candle(s, M(t), t) : t \in starts} = {Candle(s, C(t), t) : t \in starts}
  BY <1>4
<1>6. QED BY <1>2, <1>3, <1>5

\* generate_series makes them too when the window is made of whole intervals.
LEMMA PostgresAgrees ==
    ASSUME NEW s, Timed(s), NEW from \in Nat, NEW to \in Nat, NEW d \in Nat \ {0},
           from % d = 0, to % d = 0
    PROVE  PostgresOHLC(s, from, to, d) = MemoryOHLC(s, from, to, d)
<1> DEFINE W == Within(s, from, to)
           starts == {Truncate(s[i].at, d) : i \in W}
           M(t) == {i \in W : Truncate(s[i].at, d) = t}
           P(t) == Within(s, t, t + d)
           series == {t \in Series(from, to, d) : P(t) # {}}
<1>1. \A i \in DOMAIN s : s[i].at \in Nat
  BY TimedOK
<1>2. MemoryOHLC(s, from, to, d) = {Candle(s, M(t), t) : t \in starts}
  BY DEF MemoryOHLC
<1>3. PostgresOHLC(s, from, to, d) = {Candle(s, P(t), t) : t \in series}
  BY DEF PostgresOHLC
<1>4. PICK f \in Nat : from = d * f
  BY Multiple
<1>5. PICK g \in Nat : to = d * g
  BY Multiple
<1>6. \A i : i \in W <=> (i \in DOMAIN s /\ from <= s[i].at /\ s[i].at < to)
  BY DEF Within
<1>7. \A t : \A i : i \in P(t) <=> (i \in DOMAIN s /\ t <= s[i].at /\ s[i].at < t + d)
  BY DEF Within
\* A whole interval of the window.
<1>8. ASSUME NEW q \in Nat, f <= q, q + 1 <= g
      PROVE  /\ from <= d * q /\ d * q + d <= to
             /\ P(d * q) = M(d * q) /\ d * q \in Series(from, to, d)
  <2>1. from <= d * q /\ d * q + d <= to /\ d * q \in Nat
    <3>1. \A m, n \in Nat : m <= n => d * m <= d * n
      OBVIOUS
    <3>2. d * f <= d * q /\ d * (q + 1) <= d * g
      BY <1>8, <3>1
    <3>3. d * (q + 1) = d * q + d /\ d * q \in Nat
      OBVIOUS
    <3>4. QED BY <1>4, <1>5, <3>2, <3>3
  <2> DEFINE t == d * q
  <2>2. \A i \in DOMAIN s : Truncate(s[i].at, d) = t <=> (t <= s[i].at /\ s[i].at < t + d)
    <3>1. \A a \in Nat : Truncate(a, d) = d * q <=> (d * q <= a /\ a < d * q + d)
      <4>1. q \in Int
        OBVIOUS
      <4>2. QED BY <4>1, TruncateTo, Zenon
    <3>2. QED BY <1>1, <3>1, Zenon
  <2>3. t \in Series(from, to, d)
    <3>1. t - from = d * (q - f) /\ q - f \in Nat
      BY <1>4, <1>8
    <3>2. t - from \in Nat
      BY <2>1
    <3>3. (t - from) % d = 0
      BY <3>1, <3>2, Multiple
    <3> HIDE DEF t
    <3>4. t \in from..(to - d)
      BY <2>1 DEF t
    <3>5. QED BY <3>3, <3>4 DEF Series
  <2>4. \A i : i \in P(t) <=> i \in M(t)
    <3> HIDE DEF t, P, W
    <3>1. \A i \in DOMAIN s : t <= s[i].at /\ s[i].at < t + d => from <= s[i].at /\ s[i].at < to
      BY <1>1, <2>1 DEF t
    <3>2. QED BY <1>6, <1>7, <2>2, <3>1
  <2>5. P(t) = M(t)
    BY <2>4
  <2>6. QED BY <2>1, <2>3, <2>5
\* Every price of the window is in a whole interval.
<1>9. ASSUME NEW i \in W
      PROVE  \E q \in Nat : f <= q /\ q + 1 <= g /\ Truncate(s[i].at, d) = d * q
  <2> DEFINE a == s[i].at
             q == a \div d
  <2>1. a \in Nat /\ from <= a /\ a < to
    BY <1>1, <1>6
  <2> HIDE DEF a
  <2>2. q \in Nat /\ Truncate(a, d) = d * q /\ d * q <= a /\ a < d * q + d
    BY <2>1, TruncateOK, Division
  <2> HIDE DEF q
  <2>3. d * f < d * (q + 1) /\ d * q < d * g
    <3>1. d * (q + 1) = d * q + d /\ d * q \in Nat /\ d * f \in Nat /\ d * g \in Nat
      BY <2>2
    <3>2. QED BY <1>4, <1>5, <2>1, <2>2, <3>1
  <2>4. \A m, n \in Nat : d * m < d * n => m < n
    OBVIOUS
  <2>5. f < q + 1 /\ q < g
    BY <2>2, <2>3, <2>4
  <2>6. f <= q /\ q + 1 <= g
    BY <2>2, <2>5
  <2>7. QED BY <2>2, <2>6 DEF a
\* Every interval of the series is a whole one.
<1>10. ASSUME NEW t \in Series(from, to, d)
       PROVE  \E q \in Nat : f <= q /\ q + 1 <= g /\ t = d * q
  <2>1. t \in Nat /\ t - from \in Nat /\ (t - from) % d = 0 /\ t + d <= to
    BY DEF Series
  <2>2. PICK k \in Nat : t - from = d * k
    BY <2>1, Multiple
  <2>3. t = d * (f + k) /\ d * ((f + k) + 1) = t + d
    BY <1>4, <2>1, <2>2
  <2>4. \A m, n \in Nat : d * m <= d * n => m <= n
    OBVIOUS
  <2>5. (f + k) + 1 <= g
    BY <1>5, <2>1, <2>3, <2>4
  <2>6. f + k \in Nat /\ f <= f + k
    OBVIOUS
  <2>7. QED BY <2>3, <2>5, <2>6, Zenon
<1> HIDE DEF W, P
<1>11. series = starts
  <2>1. ASSUME NEW t \in starts PROVE t \in series
    <3>1. PICK i \in W : t = Truncate(s[i].at, d)
      OBVIOUS
    <3>2. PICK q \in Nat : f <= q /\ q + 1 <= g /\ t = d * q
      BY <1>9, <3>1
    <3>3. i \in M(t)
      BY <3>1
    <3>4. QED BY <1>8, <3>2, <3>3
  <2>2. ASSUME NEW t \in series PROVE t \in starts
    <3>1. PICK q \in Nat : f <= q /\ q + 1 <= g /\ t = d * q
      BY <1>10
    <3>2. P(t) = M(t) /\ P(t) # {}
      BY <1>8, <3>1
    <3>3. QED BY <3>2
  <2>3. QED BY <2>1, <2>2
<1>12. ASSUME NEW t \in starts PROVE P(t) = M(t)
  <2>1. PICK i \in W : t = Truncate(s[i].at, d)
    OBVIOUS
  <2>2. QED BY <1>8, <1>9, <2>1
<1> HIDE DEF starts, series, M
<1>13. {Candle(s, P(t), t) : t \in series} = {Candle(s, M(t), t) : t \in starts}
  BY <1>11, <1>12
<1>14. QED BY <1>2, <1>3, <1>13

----------------------------------------------------------------------------
(* Consensus: sorting *)

\* The order of a stable sort: by value, and by place among equal values.
Before(p, i, j) == p[i] < p[j] \/ (p[i] = p[j] /\ i < j)

\* How many come before i, and the place of i after sorting.
Rank(p, i) == Cardinality({j \in DOMAIN p : Before(p, j, i)}) + 1

LEMMA RankOK ==
    ASSUME NEW p, p \in Seq(Int)
    PROVE  /\ \A i \in 1..Len(p) : Rank(p, i) \in 1..Len(p)
           /\ \A i, j \in 1..Len(p) : Before(p, i, j) => Rank(p, i) < Rank(p, j)
<1> DEFINE n == Len(p)
           B(i) == {j \in 1..n : Before(p, j, i)}
<1>1. n \in Nat /\ DOMAIN p = 1..n /\ \A i \in 1..n : p[i] \in Int
  OBVIOUS
<1>2. \A i \in 1..n : Rank(p, i) = Cardinality(B(i)) + 1
  BY <1>1 DEF Rank
<1> HIDE DEF n
<1>3. IsFiniteSet(1..n) /\ Cardinality(1..n) = n
  BY <1>1, FS_Interval
<1>4. ASSUME NEW i \in 1..n
      PROVE  /\ IsFiniteSet(B(i)) /\ Cardinality(B(i)) \in Nat
             /\ i \notin B(i) /\ Cardinality(B(i)) < n
  <2>1. B(i) \subseteq 1..n /\ IsFiniteSet(B(i)) /\ Cardinality(B(i)) <= n
    BY <1>3, FS_Subset
  <2>2. i \notin B(i)
    BY <1>1 DEF Before
  <2>3. B(i) # 1..n
    BY <2>2
  <2>4. Cardinality(B(i)) # n
    BY <1>3, <2>1, <2>3, FS_Subset
  <2>5. Cardinality(B(i)) \in Nat
    BY <2>1, FS_CardinalityType
  <2>6. QED BY <1>1, <2>1, <2>2, <2>4, <2>5
<1>5. ASSUME NEW i \in 1..n PROVE Rank(p, i) \in 1..n
  <2> DEFINE c == Cardinality(B(i))
  <2>1. c \in Nat /\ c < n /\ Rank(p, i) = c + 1
    BY <1>2, <1>4
  <2> HIDE DEF c
  <2>2. QED BY <1>1, <2>1
<1>6. ASSUME NEW i \in 1..n, NEW j \in 1..n, Before(p, i, j) PROVE Rank(p, i) < Rank(p, j)
  <2> DEFINE c == Cardinality(B(i))
             e == Cardinality(B(j))
  <2>1. B(i) \subseteq B(j)
    BY <1>1, <1>6 DEF Before
  <2>2. i \in B(j) /\ i \notin B(i)
    BY <1>4, <1>6
  <2>3. c \in Nat /\ e \in Nat /\ c <= e /\ c # e
    BY <1>4, <2>1, <2>2, FS_Subset
  <2>4. Rank(p, i) = c + 1 /\ Rank(p, j) = e + 1
    BY <1>2
  <2> HIDE DEF c, e
  <2>5. QED BY <2>3, <2>4
<1>7. QED BY <1>5, <1>6 DEF n

\* Every sequence has a sorted arrangement.
LEMMA SortExists ==
    ASSUME NEW p, p \in Seq(Int)
    PROVE  \E f \in Bijection(1..Len(p), 1..Len(p)) :
               \A k, l \in 1..Len(p) : k < l => p[f[k]] <= p[f[l]]
<1> DEFINE n == Len(p)
           rank == [i \in 1..n |-> Rank(p, i)]
           f == [k \in 1..n |-> CHOOSE i \in 1..n : rank[i] = k]
<1>1. n \in Nat /\ \A i \in 1..n : p[i] \in Int
  OBVIOUS
<1>2. /\ rank \in [1..n -> 1..n]
      /\ \A i, j \in 1..n : Before(p, i, j) => rank[i] < rank[j]
  BY RankOK
<1> HIDE DEF n, rank
<1>3. \A i, j \in 1..n : i # j => Before(p, i, j) \/ Before(p, j, i)
  BY <1>1 DEF Before
<1>4. \A i, j \in 1..n : rank[i] = rank[j] => i = j
  <2> SUFFICES ASSUME NEW i \in 1..n, NEW j \in 1..n, i # j PROVE rank[i] # rank[j]
    OBVIOUS
  <2>1. rank[i] \in Int /\ rank[j] \in Int
    BY <1>1, <1>2
  <2>2. rank[i] < rank[j] \/ rank[j] < rank[i]
    BY <1>2, <1>3
  <2>3. QED BY <2>1, <2>2
<1>5. IsFiniteSet(1..n)
  BY <1>1, FS_Interval
<1>6. rank \in Surjection(1..n, 1..n)
  <2>1. rank \in Injection(1..n, 1..n)
    BY <1>2, <1>4 DEF Injection, IsInjective
  <2>2. QED BY <1>5, <2>1, FS_Injection
<1>7. \A k \in 1..n : \E i \in 1..n : rank[i] = k
  BY <1>6 DEF Surjection
<1>8. \A k \in 1..n : f[k] \in 1..n /\ rank[f[k]] = k
  BY <1>7
<1>9. f \in [1..n -> 1..n]
  BY <1>8
<1> HIDE DEF f
<1>10. f \in Injection(1..n, 1..n)
  BY <1>8, <1>9 DEF Injection, IsInjective
<1>11. f \in Surjection(1..n, 1..n)
  BY <1>5, <1>10, FS_Injection
<1>12. f \in Bijection(1..n, 1..n)
  BY <1>10, <1>11 DEF Bijection
<1>13. ASSUME NEW k \in 1..n, NEW l \in 1..n, k < l PROVE p[f[k]] <= p[f[l]]
  <2>1. f[k] \in 1..n /\ f[l] \in 1..n /\ rank[f[k]] = k /\ rank[f[l]] = l
    BY <1>8
  <2>2. ~(l < k) /\ k # l
    BY <1>1, <1>13
  <2>3. f[k] # f[l] /\ ~Before(p, f[l], f[k])
    BY <1>2, <2>1, <2>2
  <2>4. Before(p, f[k], f[l])
    BY <1>3, <2>1, <2>3
  <2>5. p[f[k]] \in Int /\ p[f[l]] \in Int
    BY <1>1, <2>1
  <2>6. QED BY <2>4, <2>5 DEF Before
<1>14. QED BY <1>12, <1>13 DEF n

\* What is sorted and has the same values as often is the
\* same.  One direction: at the first place where they differ s is not below t.
LEMMA SortedNotBelow ==
    ASSUME NEW n \in Nat, NEW s \in [1..n -> Int], NEW t \in [1..n -> Int],
           \A k, l \in 1..n : k < l => t[k] <= t[l],
           NEW r \in 1..n, \A k \in 1..n : k < r => s[k] = t[k], s[r] < t[r]
    PROVE  Count(s, s[r]) # Count(t, s[r])
<1> DEFINE v == s[r]
           S == {k \in 1..n : s[k] = v}
           T == {k \in 1..n : t[k] = v}
<1>1. Count(s, v) = Cardinality(S) /\ Count(t, v) = Cardinality(T)
  BY DEF Count
<1>2. IsFiniteSet(S)
  <2>1. IsFiniteSet(1..n)
    BY FS_Interval
  <2>2. S \in SUBSET (1..n)
    OBVIOUS
  <2>3. QED BY <2>1, <2>2, FS_Subset
<1>3. ASSUME NEW k \in T PROVE k \in S
  <2>1. CASE k < r
    BY <2>1
  <2>2. CASE ~(k < r)
    <3>1. t[r] <= t[k]
      BY <2>2
    <3>2. QED BY <3>1
  <2>3. QED BY <2>1, <2>2
<1>4. r \in S /\ r \notin T
  OBVIOUS
<1> HIDE DEF S, T, v
<1>5. T \subseteq S /\ T # S
  BY <1>3, <1>4
<1>6. Cardinality(S) # Cardinality(T)
  BY <1>2, <1>5, FS_Subset
<1>7. QED BY <1>1, <1>6 DEF v

\* ... and so in both: at the first place where they differ one would be below.
LEMMA SortUnique ==
    ASSUME NEW n \in Nat, NEW s \in [1..n -> Int], NEW t \in [1..n -> Int],
           \A k, l \in 1..n : k < l => s[k] <= s[l],
           \A k, l \in 1..n : k < l => t[k] <= t[l],
           \A k \in 1..n : Count(s, s[k]) = Count(t, s[k]) /\ Count(s, t[k]) = Count(t, t[k])
    PROVE  s = t
<1> DEFINE D == {k \in 1..n : s[k] # t[k]}
<1>1. D = {}
  <2> SUFFICES ASSUME D # {} PROVE FALSE
    OBVIOUS
  <2>1. D \subseteq Nat
    OBVIOUS
  <2>2. PICK r \in D : \A k \in D : r <= k
    BY <2>1, LeastNumber
  <2>3. r \in 1..n /\ s[r] # t[r] /\ s[r] \in Int /\ t[r] \in Int
    BY <2>2
  <2>4. ASSUME NEW k \in 1..n, k < r PROVE s[k] = t[k]
    <3>1. ~(r <= k)
      BY <2>3, <2>4
    <3>2. k \notin D
      BY <2>2, <3>1
    <3>3. QED BY <3>2
  <2> HIDE DEF D
  <2>5. ~(s[r] < t[r])
    BY <2>3, <2>4, SortedNotBelow
  <2>6. ~(t[r] < s[r])
    BY <2>3, <2>4, SortedNotBelow
  <2>7. QED BY <2>3, <2>5, <2>6
<1>2. \A k \in 1..n : s[k] = t[k]
  BY <1>1
<1>3. QED BY <1>2

\* sort.Slice puts the prices in ascending order, each where it was put from.
LEMMA SortPricesOK ==
    ASSUME NEW p, p \in Seq(Int)
    PROVE  \E f \in Bijection(1..Len(p), 1..Len(p)) :
               /\ SortPrices(p) = [k \in 1..Len(p) |-> p[f[k]]]
               /\ \A k, l \in 1..Len(p) : k < l => p[f[k]] <= p[f[l]]
<1> DEFINE n == Len(p)
           V == {p[i] : i \in DOMAIN p}
<1>1. n \in Nat /\ DOMAIN p = 1..n /\ \A i \in 1..n : p[i] \in Int
  OBVIOUS
<1>2. PICK f \in Bijection(1..n, 1..n) : \A k, l \in 1..n : k < l => p[f[k]] <= p[f[l]]
  BY SortExists
<1> DEFINE t == [k \in 1..n |-> p[f[k]]]
           s == SortPrices(p)
<1> HIDE DEF n
<1>3. /\ f \in [1..n -> 1..n] /\ \A k, l \in 1..n : f[k] = f[l] => k = l
      /\ \A i \in 1..n : \E k \in 1..n : f[k] = i
  BY <1>2 DEF Bijection, Injection, Surjection, IsInjective
<1>4. t \in [1..n -> V] /\ t \in [1..n -> Int] /\ DOMAIN t = 1..n /\ \A k \in 1..n : t[k] = p[f[k]]
  BY <1>1, <1>3
<1> HIDE DEF t
<1>5. ASSUME NEW v PROVE Count(t, v) = Count(p, v)
  <2> DEFINE T == {k \in 1..n : t[k] = v}
             P == {i \in 1..n : p[i] = v}
             g == [k \in T |-> f[k]]
  <2>1. Count(t, v) = Cardinality(T) /\ Count(p, v) = Cardinality(P)
    BY <1>1, <1>4 DEF Count
  <2>2. g \in [T -> P]
    BY <1>3, <1>4
  <2>3. \A k, l \in T : g[k] = g[l] => k = l
    BY <1>3
  <2>4. ASSUME NEW i \in P PROVE \E k \in T : g[k] = i
    <3>1. PICK k \in 1..n : f[k] = i
      BY <1>3
    <3>2. k \in T /\ g[k] = i
      BY <1>4, <3>1
    <3>3. QED BY <3>2
  <2>5. IsFiniteSet(T)
    BY <1>1, FS_Interval, FS_Subset
  <2> HIDE DEF T, P, g
  <2>6. g \in Bijection(T, P)
    BY <2>2, <2>3, <2>4 DEF Bijection, Injection, Surjection, IsInjective
  <2>7. ExistsBijection(T, P)
    BY <2>6 DEF ExistsBijection
  <2>8. QED BY <2>1, <2>5, <2>7, FS_Bijection
<1>6. \A k, l \in 1..n : k < l => t[k] <= t[l]
  BY <1>2, <1>4
<1>7. IsSortOf(t, p)
  BY <1>4, <1>5, <1>6 DEF IsSortOf
<1>8. s \in [1..n -> V] /\ IsSortOf(s, p)
  BY <1>1, <1>4, <1>7 DEF SortPrices
<1> HIDE DEF s
<1>9. s \in [1..n -> Int] /\ \A k, l \in 1..n : k < l => s[k] <= s[l]
  BY <1>1, <1>8 DEF IsSortOf
<1>10. \A v \in V : Count(s, v) = Count(t, v)
  BY <1>5, <1>8 DEF IsSortOf
<1>11. \A k \in 1..n : s[k] \in V /\ t[k] \in V
  BY <1>4, <1>8
<1> HIDE DEF V
<1>12. s = t
  BY <1>1, <1>4, <1>6, <1>9, <1>10, <1>11, SortUnique
<1>13. QED BY <1>2, <1>12 DEF n, s, t

----------------------------------------------------------------------------
(* Consensus: the median *)

\* The middle of an ascending sequence: half of it is on each side of the median.
LEMMA MedianBetween ==
    ASSUME NEW n \in Nat \ {0}, NEW s \in [1..n -> Int],
           \A k, l \in 1..n : k < l => s[k] <= s[l]
    PROVE  \E h \in 1..n :
               /\ n <= 2 * h /\ (3 <= n => 2 <= h)
               /\ \A k \in 1..h : 2 * s[k] <= Median2(s)
               /\ \A k \in (n + 1 - h)..n : 2 * s[k] >= Median2(s)
<1>1. Len(s) = n
  OBVIOUS
<1>2. \A k, l \in 1..n : k <= l => s[k] <= s[l]
  OBVIOUS
<1>3. PICK m \in Nat : m = n \div 2
  BY SMT
<1>4. CASE n % 2 = 1
  <2>1. n = 2 * m + 1
    BY <1>3, <1>4
  <2>2. Median2(s) = 2 * s[m + 1]
    BY <1>1, <1>3, <1>4 DEF Median2
  <2>3. m + 1 \in 1..n /\ n <= 2 * (m + 1) /\ (3 <= n => 2 <= m + 1) /\ n + 1 - (m + 1) = m + 1
    BY <2>1
  <2>4. \A k \in 1..(m + 1) : 2 * s[k] <= 2 * s[m + 1]
    BY <1>2, <2>3
  <2>5. \A k \in (m + 1)..n : 2 * s[k] >= 2 * s[m + 1]
    BY <1>2, <2>3
  <2>6. QED BY <2>2, <2>3, <2>4, <2>5
<1>5. CASE n % 2 = 0
  <2>1. n = 2 * m
    BY <1>3, <1>5
  <2>2. Median2(s) = s[m] + s[m + 1]
    BY <1>1, <1>3, <1>5 DEF Median2
  <2>3. /\ m \in 1..n /\ m + 1 \in 1..n /\ n <= 2 * m /\ (3 <= n => 2 <= m)
        /\ n + 1 - m = m + 1
    BY <2>1
  <2>4. s[m] <= s[m + 1] /\ s[m] \in Int /\ s[m + 1] \in Int
    BY <1>2, <2>3
  <2>5. \A k \in 1..m : 2 * s[k] <= s[m] + s[m + 1]
    BY <1>2, <2>3, <2>4
  <2>6. \A k \in (m + 1)..n : 2 * s[k] >= s[m] + s[m + 1]
    BY <1>2, <2>3, <2>4
  <2>7. QED BY <2>2, <2>3, <2>5, <2>6
<1>6. n % 2 = 0 \/ n % 2 = 1
  OBVIOUS
<1>7. QED BY <1>4, <1>5, <1>6

\* So many prices are on each side of the consensus price.
LEMMA ConsensusBetween ==
    ASSUME NEW p, p \in Seq(Int), p # <<>>, NEW deviation
    PROVE  \E h \in 1..Len(p) : \E f \in Bijection(1..Len(p), 1..Len(p)) :
               /\ Len(p) <= 2 * h /\ (3 <= Len(p) => 2 <= h)
               /\ \A k \in 1..h : 2 * p[f[k]] <= ComputeResult(p, deviation).median2
               /\ \A k \in (Len(p) + 1 - h)..Len(p) :
                      2 * p[f[k]] >= ComputeResult(p, deviation).median2
<1> DEFINE n == Len(p)
           s == SortPrices(p)
<1>1. n \in Nat \ {0} /\ \A i \in 1..n : p[i] \in Int
  OBVIOUS
<1>2. PICK f \in Bijection(1..n, 1..n) :
          /\ s = [k \in 1..n |-> p[f[k]]]
          /\ \A k, l \in 1..n : k < l => p[f[k]] <= p[f[l]]
  BY SortPricesOK
<1>3. ComputeResult(p, deviation).median2 = Median2(s)
  BY DEF ComputeResult
<1> HIDE DEF n, s
<1>4. f \in [1..n -> 1..n]
  BY <1>2 DEF Bijection, Injection
<1>5. /\ s \in [1..n -> Int] /\ \A k \in 1..n : s[k] = p[f[k]]
      /\ \A k, l \in 1..n : k < l => s[k] <= s[l]
  BY <1>1, <1>2, <1>4
<1>6. PICK h \in 1..n :
          /\ n <= 2 * h /\ (3 <= n => 2 <= h)
          /\ \A k \in 1..h : 2 * s[k] <= Median2(s)
          /\ \A k \in (n + 1 - h)..n : 2 * s[k] >= Median2(s)
  BY <1>1, <1>5, MedianBetween
<1>7. /\ \A k \in 1..h : k \in 1..n
      /\ \A k \in (n + 1 - h)..n : k \in 1..n
  BY <1>1, <1>6
<1>8. /\ \A k \in 1..h : 2 * p[f[k]] <= ComputeResult(p, deviation).median2
      /\ \A k \in (n + 1 - h)..n : 2 * p[f[k]] >= ComputeResult(p, deviation).median2
  BY <1>3, <1>5, <1>6, <1>7
<1>9. QED BY <1>2, <1>6, <1>8 DEF n

\* A set that an interval is mapped into one to one is no smaller.
LEMMA AtLeast ==
    ASSUME NEW n \in Nat, NEW f \in Bijection(1..n, 1..n), NEW a \in 1..n, NEW b \in 1..n,
           NEW T, T \subseteq 1..n, \A k \in a..b : f[k] \in T
    PROVE  b - a + 1 <= Cardinality(T)
<1> DEFINE g == [k \in a..b |-> f[k]]
<1>1. f \in [1..n -> 1..n] /\ \A k, l \in 1..n : f[k] = f[l] => k = l
  BY DEF Bijection, Injection, IsInjective
<1>2. \A k \in a..b : k \in 1..n
  OBVIOUS
<1>3. g \in [a..b -> T] /\ \A k, l \in a..b : g[k] = g[l] => k = l
  BY <1>1, <1>2
<1> HIDE DEF g
<1>4. g \in Injection(a..b, T)
  BY <1>3 DEF Injection, IsInjective
<1>5. IsFiniteSet(T) /\ Cardinality(T) \in Nat
  <2>1. IsFiniteSet(1..n)
    BY FS_Interval
  <2>2. IsFiniteSet(T)
    BY <2>1, FS_Subset
  <2>3. QED BY <2>2, FS_CardinalityType
<1>6. Cardinality(a..b) <= Cardinality(T)
  BY <1>4, <1>5, FS_Injection
<1>7. Cardinality(a..b) = IF a > b THEN 0 ELSE b - a + 1
  BY FS_Interval
<1>8. QED BY <1>5, <1>6, <1>7

\* At least half of the prices are not above the median and half not below it.
LEMMA MedianSplitsPrices ==
    ASSUME NEW p, p \in Seq(Int), NEW deviation
    PROVE  LET m == ComputeResult(p, deviation).median2
           IN  /\ 2 * Cardinality({i \in DOMAIN p : 2 * p[i] <= m}) >= Len(p)
               /\ 2 * Cardinality({i \in DOMAIN p : 2 * p[i] >= m}) >= Len(p)
<1> DEFINE n == Len(p)
           m == ComputeResult(p, deviation).median2
           L == {i \in 1..n : 2 * p[i] <= m}
           U == {i \in 1..n : 2 * p[i] >= m}
<1>1. n \in Nat /\ DOMAIN p = 1..n /\ (p # <<>> <=> n # 0)
  OBVIOUS
<1>2. CASE p = <<>>
  <2>1. L = {} /\ U = {} /\ n = 0
    BY <1>1, <1>2
  <2>2. Cardinality({}) = 0
    BY FS_EmptySet
  <2>3. 2 * Cardinality(L) >= n /\ 2 * Cardinality(U) >= n
    BY <2>1, <2>2
  <2>4. QED BY <1>1, <2>3
<1>3. CASE p # <<>>
  <2>1. PICK h \in 1..n, f \in Bijection(1..n, 1..n) :
            /\ n <= 2 * h
            /\ \A k \in 1..h : 2 * p[f[k]] <= m
            /\ \A k \in (n + 1 - h)..n : 2 * p[f[k]] >= m
    BY <1>3, ConsensusBetween
  <2> HIDE DEF n, m
  <2>2. f \in [1..n -> 1..n]
    BY DEF Bijection, Injection
  <2>3. n + 1 - h \in 1..n /\ n \in 1..n /\ 1 \in 1..n
    BY <1>1, <2>1
  <2>4. (\A k \in 1..h : f[k] \in L) /\ \A k \in (n + 1 - h)..n : f[k] \in U
    <3>1. (\A k \in 1..h : k \in 1..n) /\ \A k \in (n + 1 - h)..n : k \in 1..n
      BY <1>1, <2>1
    <3>2. \A k \in 1..n : f[k] \in 1..n
      BY <2>2
    <3>3. QED BY <2>1, <3>1, <3>2, Zenon
  <2>5. L \subseteq 1..n /\ U \subseteq 1..n
    OBVIOUS
  <2> HIDE DEF L, U
  <2>6. h - 1 + 1 <= Cardinality(L)
    BY <1>1, <2>1, <2>3, <2>4, <2>5, AtLeast
  <2>7. n - (n + 1 - h) + 1 <= Cardinality(U)
    BY <1>1, <2>1, <2>3, <2>4, <2>5, AtLeast
  <2>8. Cardinality(L) \in Nat /\ Cardinality(U) \in Nat
    <3>1. IsFiniteSet(1..n)
      BY <1>1, FS_Interval
    <3>2. IsFiniteSet(L) /\ IsFiniteSet(U)
      BY <2>5, <3>1, FS_Subset
    <3>3. QED BY <3>2, FS_CardinalityType
  <2>9. 2 * Cardinality(L) >= n /\ 2 * Cardinality(U) >= n
    BY <1>1, <2>1, <2>6, <2>7, <2>8
  <2>10. QED BY <1>1, <2>9 DEF L, U, m, n
<1>4. QED BY <1>2, <1>3

\* Two of the prices are not above the median, so one that is not the liar's; and two
\* not below.
LEMMA LiarBounded ==
    ASSUME NEW p, p \in Seq(Int), NEW deviation, 3 <= Len(p), NEW liar \in DOMAIN p
    PROVE  LET m == ComputeResult(p, deviation).median2
           IN  /\ \E i \in DOMAIN p \ {liar} : 2 * p[i] <= m
               /\ \E i \in DOMAIN p \ {liar} : 2 * p[i] >= m
<1> DEFINE n == Len(p)
           m == ComputeResult(p, deviation).median2
<1>1. n \in Nat /\ DOMAIN p = 1..n /\ p # <<>> /\ 3 <= n
  OBVIOUS
<1>2. PICK h \in 1..n, f \in Bijection(1..n, 1..n) :
          /\ 2 <= h
          /\ \A k \in 1..h : 2 * p[f[k]] <= m
          /\ \A k \in (n + 1 - h)..n : 2 * p[f[k]] >= m
  BY <1>1, ConsensusBetween
<1> HIDE DEF n, m
<1>3. f \in [1..n -> 1..n] /\ \A k, l \in 1..n : f[k] = f[l] => k = l
  BY DEF Bijection, Injection, IsInjective
<1>4. /\ 1 \in 1..n /\ 2 \in 1..n /\ 1 # 2 /\ n \in 1..n /\ n - 1 \in 1..n /\ n # n - 1
      /\ 1 \in 1..h /\ 2 \in 1..h /\ n \in (n + 1 - h)..n /\ n - 1 \in (n + 1 - h)..n
  BY <1>1, <1>2
<1>5. f[1] # f[2] /\ f[n] # f[n - 1]
  BY <1>3, <1>4
<1>6. \E i \in 1..n \ {liar} : 2 * p[i] <= m
  BY <1>2, <1>3, <1>4, <1>5
<1>7. \E i \in 1..n \ {liar} : 2 * p[i] >= m
  BY <1>2, <1>3, <1>4, <1>5
<1>8. QED BY <1>1, <1>6, <1>7 DEF m

----------------------------------------------------------------------------
(* The theorems about the pure parts *)

\* The prices saved are prices.
LEMMA SavedTypes == SavedSpec => []SavedTypeOK
<1>1. SavedInit => SavedTypeOK
  BY DEF SavedInit, SavedTypeOK
<1>2. SavedTypeOK /\ [SavedNext]_saved => SavedTypeOK'
  BY DEF SavedTypeOK, SavedNext, AppendPrice
<1>3. QED BY <1>1, <1>2, PTL DEF SavedSpec

\* What the type says of them.
LEMMA SavedOK ==
    ASSUME SavedTypeOK
    PROVE  /\ Timed(saved) /\ Prices \in Seq(Int) /\ DOMAIN Prices = DOMAIN saved
           /\ \A i \in DOMAIN saved : Prices[i] \in Nat
<1>1. saved \in Seq([value : Nat, at : Nat])
  <2> DEFINE R == [value : Nat, at : Nat]
  <2>1. saved \in Seq(Samples) /\ Samples \subseteq R
    BY SavedConstants DEF SavedTypeOK
  <2> HIDE DEF R
  <2>2. saved \in Seq(R)
    BY <2>1
  <2>3. QED BY <2>2 DEF R
<1>2. Timed(saved)
  BY <1>1 DEF Timed
<1> DEFINE n == Len(saved)
<1>3. n \in Nat /\ DOMAIN saved = 1..n /\ \A i \in 1..n : saved[i].value \in Nat
  BY <1>2, TimedOK
<1> HIDE DEF n
<1>4. Prices = [i \in 1..n |-> saved[i].value] /\ \A i \in 1..n : Prices[i] \in Nat
  BY <1>3 DEF Prices
<1>5. Prices \in Seq(Int)
  BY <1>3, <1>4
<1>6. QED BY <1>2, <1>3, <1>4, <1>5

\* For any number of prices in any order: at least half of the prices are not above
\* the consensus price that ComputeResult returns and at least half are not below it.
THEOREM MedianIsOne == SavedSpec => []MedianSplits
<1>1. SavedTypeOK => MedianSplits
  BY SavedOK, MedianSplitsPrices DEF MedianSplits, Combined
<1>2. QED BY <1>1, SavedTypes, PTL

\* For any three or more prices: whichever provider is wrong, the consensus price is
\* within the range of the others' answers.
THEOREM LiarsAreBounded == SavedSpec => []OneLiarBounded
<1>1. SavedTypeOK => OneLiarBounded
  BY SavedOK, LiarBounded DEF OneLiarBounded, Combined
<1>2. QED BY <1>1, SavedTypes, PTL

\* Whatever prices were saved, in whatever order, and whichever window and interval
\* are asked for: clickhouse and memory draw the same candles, postgres does too when
\* the window is made of whole intervals, and the latest price is one of the newest.
THEOREM StoresAreInterchangeable == SavedSpec => []StoresAgree
<1>1. SavedTypeOK => StoresAgree
  <2> SUFFICES ASSUME SavedTypeOK PROVE StoresAgree
    OBVIOUS
  <2>1. Timed(saved)
    BY SavedOK
  <2>2. saved # <<>> => GetLatest(saved) \in SQLLatest(saved)
    BY <2>1, LatestAgrees
  <2>3. ASSUME NEW w \in Windows, NEW d \in Intervals
        PROVE  w[1] \in Nat /\ w[2] \in Nat /\ d \in Nat \ {0}
    BY SavedConstants
  <2>4. ASSUME NEW w \in Windows, NEW d \in Intervals
        PROVE  /\ ClickHouseOHLC(saved, w[1], w[2], d) = MemoryOHLC(saved, w[1], w[2], d)
               /\ w[1] % d = 0 /\ w[2] % d = 0
                    => PostgresOHLC(saved, w[1], w[2], d) = MemoryOHLC(saved, w[1], w[2], d)
    BY <2>1, <2>3, ClickHouseAgrees, PostgresAgrees
  <2>5. QED BY <2>2, <2>4 DEF StoresAgree
<1>2. QED BY <1>1, SavedTypes, PTL

\* For any prices, amount and number of decimal places: Convert refuses a price of
\* zero and is otherwise off by at most half a unit of the rate for each of the amount.
THEOREM ConversionsAccurate == SavedSpec => []ConvertAccurate
<1>1. SavedTypeOK => ConvertAccurate
  <2> SUFFICES ASSUME SavedTypeOK, NEW i \in DOMAIN saved, NEW j \in DOMAIN saved,
                      NEW a \in Amounts
               PROVE  LET c == Convert(Prices[i], Prices[j], a)
                      IN  IF Prices[i] = 0 \/ Prices[j] = 0 THEN ~c.ok
                          ELSE 2 * Abs(c.result * Prices[j] - a * Prices[i] * Unit)
                                 <= a * Prices[j]
    BY DEF ConvertAccurate
  <2>1. PICK x \in Nat : x = Prices[i]
    BY SavedOK
  <2>2. PICK y \in Nat : y = Prices[j]
    BY SavedOK
  <2>3. a \in Nat
    BY SavedConstants
  <2>4. CASE x = 0 \/ y = 0
    <3>1. ~Convert(x, y, a).ok
      BY <2>4 DEF Convert, Convertible
    <3>2. QED BY <2>1, <2>2, <2>4, <3>1
  <2>5. CASE x # 0 /\ y # 0
    <3>1. 2 * Abs(Convert(x, y, a).result * y - a * x * Unit) <= a * y
      BY <2>3, <2>5, ConvertWithin
    <3>2. QED BY <2>1, <2>2, <2>5, <3>1
  <2>6. QED BY <2>4, <2>5
<1>2. QED BY <1>1, SavedTypes, PTL

----------------------------------------------------------------------------
(* The consensus price of a request, from the answers its goroutines got *)

\* AnswersInv of one request.
AnswersOf(r) ==
    /\ calls[r] \subseteq Providers /\ got[r] \subseteq Providers \X Responses
    /\ IsFiniteSet(got[r])
    /\ \A g \in got[r] : g[1] \notin calls[r]
    /\ \A g, h \in got[r] : g[1] = h[1] => g = h
    /\ phase[r] = "new" => calls[r] = {} /\ got[r] = {}
    /\ phase[r] = "poll" => calls[r] \cup {g[1] : g \in got[r]} \subseteq tried[r]

AnswerTypes == DOMAIN calls = Requests /\ DOMAIN got = Requests
               /\ calls = [r \in Requests |-> calls[r]] /\ got = [r \in Requests |-> got[r]]

LEMMA AnswersIs == AnswersInv <=> AnswerTypes /\ \A r \in Requests : AnswersOf(r)
  BY DEF AnswersInv, AnswerTypes, AnswersOf

LEMMA AnswersInit == Init => AnswersInv
  BY FS_EmptySet DEF Init, AnswersInv

\* A request that is not in Compute keeps its calls and its answers.
LEMMA AnswersUnmoved ==
    ASSUME NEW r \in Requests, AnswersOf(r), calls'[r] = calls[r], got'[r] = got[r],
           phase'[r] \in {"new", "poll"} => phase'[r] = phase[r] /\ tried'[r] = tried[r]
    PROVE  AnswersOf(r)'
  BY DEF AnswersOf

\* The steps of Compute and of its goroutines.
LEMMA ComputeAnswers ==
    ASSUME RequestTypes, AnswerTypes, NEW r \in Requests, AnswersOf(r),
           \/ CacheMiss(r) \/ Poll(r) \/ PollEnd(r) \/ Disagree(r) \/ Agree(r)
           \/ \E p \in Providers : PolledFails(r, p) \/ PolledReturns(r, p)
    PROVE  AnswersOf(r)' /\ AnswerTypes' /\ \A q \in Requests \ {r} : calls'[q] = calls[q] /\ got'[q] = got[q]
<1> USE DEF RequestTypes, AnswerTypes, Goto, retryVars, computeVars
<1>1. CASE CacheMiss(r)
  <2>1. /\ UNCHANGED <<calls, got, tried>> /\ phase[r] = "new"
        /\ calls[r] = {} /\ got[r] = {}
    BY <1>1 DEF CacheMiss, AnswersOf
  <2>2. QED BY <2>1 DEF AnswersOf
<1>2. CASE Poll(r)
  <2>1. PICK p \in Providers : /\ calls' = [calls EXCEPT ![r] = @ \cup NewCalls(r, p)]
                               /\ tried' = [tried EXCEPT ![r] = @ \cup {p}]
    BY <1>2 DEF Poll
  <2>2. /\ phase[r] = "poll" /\ UNCHANGED <<phase, got>>
        /\ calls'[r] = calls[r] \cup ({p} \ tried[r]) /\ tried'[r] = tried[r] \cup {p}
        /\ AnswerTypes' /\ \A q \in Requests \ {r} : calls'[q] = calls[q]
    BY <1>2, <2>1 DEF Poll, NewCalls
  <2>3. calls[r] \subseteq tried[r] /\ \A g \in got[r] : g[1] \in tried[r]
    BY <2>2 DEF AnswersOf
  <2>4. AnswersOf(r)'
    BY <2>2, <2>3 DEF AnswersOf
  <2>5. QED BY <2>2, <2>4
<1>3. CASE PollEnd(r)
  <2>1. UNCHANGED <<calls, got>> /\ phase'[r] = "collect"
    BY <1>3 DEF PollEnd
  <2>2. QED BY <2>1 DEF AnswersOf
<1>4. CASE Disagree(r) \/ Agree(r)
  <2>1. got' = [got EXCEPT ![r] = {}] /\ UNCHANGED calls /\ phase'[r] \in {"select", "done"}
    BY <1>4 DEF Disagree, Agree, Finish
  <2>2. got'[r] = {} /\ AnswerTypes' /\ \A q \in Requests \ {r} : got'[q] = got[q]
    BY <2>1
  <2>3. QED BY <2>1, <2>2, FS_EmptySet DEF AnswersOf
<1>5. ASSUME NEW p \in Providers, PolledFails(r, p)
      PROVE  AnswersOf(r)' /\ AnswerTypes' /\ \A q \in Requests \ {r} : calls'[q] = calls[q] /\ got'[q] = got[q]
  <2>1. calls' = [calls EXCEPT ![r] = @ \ {p}] /\ UNCHANGED <<got, phase, tried>>
    BY <1>5 DEF PolledFails
  <2>2. calls'[r] = calls[r] \ {p} /\ AnswerTypes' /\ \A q \in Requests \ {r} : calls'[q] = calls[q]
    BY <2>1
  <2>3. AnswersOf(r)'
    BY <2>1, <2>2 DEF AnswersOf
  <2>4. QED BY <2>1, <2>2, <2>3
<1>6. ASSUME NEW p \in Providers, PolledReturns(r, p)
      PROVE  AnswersOf(r)' /\ AnswerTypes' /\ \A q \in Requests \ {r} : calls'[q] = calls[q] /\ got'[q] = got[q]
  <2>1. PICK a \in Responses : got' = [got EXCEPT ![r] = @ \cup {<<p, a>>}]
    BY <1>6 DEF PolledReturns
  <2>2. p \in calls[r] /\ calls' = [calls EXCEPT ![r] = @ \ {p}] /\ UNCHANGED <<phase, tried>>
    BY <1>6 DEF PolledReturns
  <2>3. /\ calls'[r] = calls[r] \ {p} /\ got'[r] = got[r] \cup {<<p, a>>} /\ AnswerTypes'
        /\ \A q \in Requests \ {r} : calls'[q] = calls[q] /\ got'[q] = got[q]
    BY <2>1, <2>2
  <2>4. IsFiniteSet(got'[r])
    <3>1. IsFiniteSet(got[r])
      BY DEF AnswersOf
    <3> DEFINE x == <<p, a>>
    <3> HIDE DEF x
    <3>2. IsFiniteSet(got[r] \cup {x})
      BY <3>1, FS_AddElement
    <3>3. QED BY <2>3, <3>2 DEF x
  <2>5. \A g \in got[r] : g[1] # p
    BY <2>2 DEF AnswersOf
  <2>6. got'[r] \subseteq Providers \X Responses /\ calls'[r] \subseteq Providers
    BY <2>3 DEF AnswersOf
  <2>7. \A g \in got'[r] : g[1] \notin calls'[r]
    BY <2>3 DEF AnswersOf
  <2>8. \A g, h \in got'[r] : g[1] = h[1] => g = h
    BY <2>3, <2>5 DEF AnswersOf
  <2>9. phase'[r] # "new"
    BY <2>2 DEF AnswersOf
  <2>10. phase'[r] = "poll" => calls'[r] \cup {g[1] : g \in got'[r]} \subseteq tried'[r]
    BY <2>2, <2>3 DEF AnswersOf
  <2>11. AnswersOf(r)'
    BY <2>4, <2>6, <2>7, <2>8, <2>9, <2>10 DEF AnswersOf
  <2>12. QED BY <2>3, <2>11
<1>7. QED BY <1>1, <1>2, <1>3, <1>4, <1>5, <1>6

LEMMA AnswersNext == RequestTypes /\ AnswersInv /\ [Next]_vars => AnswersInv'
<1> SUFFICES ASSUME RequestTypes, AnswerTypes, \A r \in Requests : AnswersOf(r), [Next]_vars
             PROVE  AnswerTypes' /\ \A r \in Requests : AnswersOf(r)'
  BY DEF AnswersInv, AnswerTypes, AnswersOf
<1>1. ASSUME UNCHANGED <<calls, got>>,
             \A q \in Requests : phase'[q] \in {"new", "poll"}
                                   => phase'[q] = phase[q] /\ tried'[q] = tried[q]
      PROVE  AnswerTypes' /\ \A r \in Requests : AnswersOf(r)'
  BY <1>1, AnswersUnmoved DEF AnswerTypes
<1>2. ASSUME NEW r \in Requests,
             \/ CacheMiss(r) \/ Poll(r) \/ PollEnd(r) \/ Disagree(r) \/ Agree(r)
             \/ \E p \in Providers : PolledFails(r, p) \/ PolledReturns(r, p)
      PROVE  AnswerTypes' /\ \A q \in Requests : AnswersOf(q)'
  <2>1. \A q \in Requests \ {r} : phase'[q] = phase[q] /\ tried'[q] = tried[q]
    BY <1>2 DEF RequestTypes, CacheMiss, Poll, PollEnd, Disagree, Agree, PolledFails, PolledReturns,
                Goto, Finish, retryVars
  <2>2. AnswersOf(r)' /\ AnswerTypes' /\ \A q \in Requests \ {r} : calls'[q] = calls[q] /\ got'[q] = got[q]
    BY <1>2, ComputeAnswers
  <2>3. ASSUME NEW q \in Requests \ {r} PROVE AnswersOf(q)'
    BY <2>1, <2>2, <2>3, AnswersUnmoved
  <2>4. QED BY <2>2, <2>3
<1>3. ASSUME NEW r \in Requests,
             \/ Select(r) \/ GiveUp(r) \/ NoneHealthy(r) \/ RetriesUsed(r)
             \/ CallFails(r) \/ CallReturns(r) \/ Accept(r) \/ Reject(r)
             \/ CacheHit(r) \/ PutInCache(r) \/ SaveAndReturn(r) \/ Fallback(r)
      PROVE  AnswerTypes' /\ \A q \in Requests : AnswersOf(q)'
  <2>1. /\ UNCHANGED <<calls, got>> /\ phase'[r] \notin {"new", "poll"}
        /\ \A q \in Requests \ {r} : phase'[q] = phase[q] /\ tried'[q] = tried[q]
    <3> USE DEF RequestTypes, Goto, Finish, Fail, computeVars, retryVars
    <3>1. CASE Select(r) \/ GiveUp(r) \/ NoneHealthy(r) \/ RetriesUsed(r)
      BY <3>1 DEF Select, GiveUp, NoneHealthy, RetriesUsed
    <3>2. CASE CallFails(r) \/ CallReturns(r) \/ Accept(r) \/ Reject(r)
      BY <3>2 DEF CallFails, CallReturns, Accept, Reject
    <3>3. CASE CacheHit(r) \/ PutInCache(r) \/ SaveAndReturn(r) \/ Fallback(r)
      BY <3>3 DEF CacheHit, PutInCache, SaveAndReturn, Fallback
    <3>4. QED BY <1>3, <3>1, <3>2, <3>3
  <2>2. QED BY <1>1, <2>1
<1>4. CASE Beside \/ UNCHANGED vars
  <2>1. UNCHANGED <<calls, got, phase, tried>>
    BY <1>4 DEF Beside, Flush, AsyncSave, Notify, StreamCache, StreamStore, Tick, computeVars, retryVars,
                vars
  <2>2. QED BY <1>1, <2>1
<1>5. QED BY <1>2, <1>3, <1>4 DEF Next, GetPrice, Polled, Beside

\* Compute never has two answers of one provider.
THEOREM OneAnswerEach == Spec => []AnswersInv
<1>1. ServiceInv => RequestTypes
  BY DEF ServiceInv
<1>2. QED BY <1>1, AnswersInit, AnswersNext, ServiceInvariant, PTL DEF Spec

\* Collected lists every answer once.
LEMMA CollectedLists ==
    ASSUME NEW r \in Requests, IsFiniteSet(got[r])
    PROVE  /\ Cardinality(got[r]) \in Nat
           /\ Collected(r) \in [1..Cardinality(got[r]) -> got[r]]
           /\ \A i, j \in 1..Cardinality(got[r]) : Collected(r)[i] = Collected(r)[j] => i = j
<1> DEFINE n == Cardinality(got[r])
<1>1. n \in Nat /\ ExistsBijection(1..n, got[r])
  BY FS_CardinalityType
<1>2. PICK f : f \in Bijection(1..n, got[r])
  BY <1>1 DEF ExistsBijection
<1>3. f \in [1..n -> got[r]] /\ \A i, j \in DOMAIN f : f[i] = f[j] => i = j
  BY <1>2 DEF Bijection, Injection, IsInjective
<1>4. /\ Collected(r) \in [1..n -> got[r]]
      /\ \A i, j \in DOMAIN Collected(r) : Collected(r)[i] = Collected(r)[j] => i = j
  BY <1>3 DEF Collected
<1>5. QED BY <1>1, <1>4

\* Prices are integers, and so is their doubled median.
LEMMA MedianIsInt ==
    ASSUME NEW p, p \in Seq(Int), NEW deviation
    PROVE  ComputeResult(p, deviation).median2 \in Int
<1> DEFINE n == Len(p)
           s == SortPrices(p)
<1>1. n \in Nat /\ \A i \in 1..n : p[i] \in Int
  OBVIOUS
<1>2. PICK f \in Bijection(1..n, 1..n) : s = [k \in 1..n |-> p[f[k]]]
  BY SortPricesOK
<1>3. ComputeResult(p, deviation).median2 = Median2(s)
  BY DEF ComputeResult
<1> HIDE DEF n, s
<1>4. f \in [1..n -> 1..n]
  BY <1>2 DEF Bijection, Injection
<1>5. Len(s) = n /\ \A k \in 1..n : s[k] \in Int
  BY <1>1, <1>2, <1>4
<1>6. CASE n = 0
  BY <1>3, <1>5, <1>6 DEF Median2
<1>7. CASE n > 0 /\ n % 2 = 1
  <2>1. n \div 2 + 1 \in 1..n
    BY <1>1, <1>7
  <2>2. Median2(s) = 2 * s[n \div 2 + 1]
    BY <1>5, <1>7 DEF Median2
  <2>3. QED BY <1>3, <1>5, <2>1, <2>2
<1>8. CASE n > 0 /\ n % 2 = 0
  <2>1. n \div 2 + 1 \in 1..n /\ n \div 2 \in 1..n
    BY <1>1, <1>8
  <2>2. Median2(s) = s[n \div 2] + s[n \div 2 + 1]
    BY <1>5, <1>8 DEF Median2
  <2>3. QED BY <1>3, <1>5, <2>1, <2>2
<1>9. QED BY <1>1, <1>6, <1>7, <1>8

\* One place at most in the list is the liar's, since he answered once.
LEMMA AnswersBound ==
    ASSUME NEW r \in Requests, AnswersOf(r), NEW liar \in Providers, Cardinality(got[r]) >= 3
    PROVE  /\ Result(r).median2 \in Int
           /\ \E g \in got[r] : g[1] # liar /\ 2 * g[2].value <= Result(r).median2
           /\ \E g \in got[r] : g[1] # liar /\ 2 * g[2].value >= Result(r).median2
<1> DEFINE n == Cardinality(got[r])
           s == Collected(r)
           p == [i \in 1..n |-> s[i][2].value]
           m == ComputeResult(p, MaxDeviation).median2
<1>1. /\ n \in Nat /\ 3 <= n /\ s \in [1..n -> got[r]]
      /\ \A i, j \in 1..n : s[i] = s[j] => i = j
  BY CollectedLists DEF AnswersOf
<1> HIDE DEF n, s
<1>2. \A g \in got[r] : g[1] \in Providers /\ g[2].value \in Int
  <2>1. got[r] \subseteq Providers \X Responses
    BY DEF AnswersOf
  <2>2. \A a \in Responses : a.value \in Int
    BY ServiceConstants
  <2>3. QED BY <2>1, <2>2
<1>3. \A i \in 1..n : s[i] \in got[r] /\ p[i] = s[i][2].value /\ p[i] \in Int
  BY <1>1, <1>2
<1>4. p \in Seq(Int) /\ Len(p) = n /\ DOMAIN p = 1..n
  BY <1>1, <1>3
<1>5. Result(r).median2 = m
  BY <1>1 DEF Result, s
<1> HIDE DEF p
<1>6. m \in Int
  BY <1>4, MedianIsInt
<1>7. \E k \in 1..n : \A i \in 1..n \ {k} : s[i][1] # liar
  <2>1. CASE \E k \in 1..n : s[k][1] = liar
    <3>1. PICK k \in 1..n : s[k][1] = liar
      BY <2>1
    <3>2. ASSUME NEW i \in 1..n \ {k} PROVE s[i][1] # liar
      <4>1. s[i] # s[k] /\ s[i] \in got[r] /\ s[k] \in got[r]
        BY <1>1, <1>3
      <4>2. s[i][1] # s[k][1]
        BY <4>1 DEF AnswersOf
      <4>3. QED BY <3>1, <4>2
    <3>3. QED BY <3>2
  <2>2. CASE ~ \E k \in 1..n : s[k][1] = liar
    <3>1. 1 \in 1..n
      BY <1>1
    <3>2. QED BY <2>2, <3>1
  <2>3. QED BY <2>1, <2>2
<1>8. PICK k \in 1..n : \A i \in 1..n \ {k} : s[i][1] # liar
  BY <1>7
<1>9. /\ \E i \in 1..n \ {k} : 2 * p[i] <= m
      /\ \E i \in 1..n \ {k} : 2 * p[i] >= m
  BY <1>1, <1>4, LiarBounded
<1> HIDE DEF m
<1>10. \E g \in got[r] : g[1] # liar /\ 2 * g[2].value <= m
  <2>1. PICK i \in 1..n \ {k} : 2 * p[i] <= m
    BY <1>9
  <2>2. s[i] \in got[r] /\ s[i][1] # liar /\ p[i] = s[i][2].value
    BY <1>3, <1>8
  <2>3. QED BY <2>1, <2>2
<1>11. \E g \in got[r] : g[1] # liar /\ 2 * g[2].value >= m
  <2>1. PICK i \in 1..n \ {k} : 2 * p[i] >= m
    BY <1>9
  <2>2. s[i] \in got[r] /\ s[i][1] # liar /\ p[i] = s[i][2].value
    BY <1>3, <1>8
  <2>3. QED BY <2>1, <2>2
<1>12. QED BY <1>5, <1>6, <1>10, <1>11

LEMMA Halves ==
    ASSUME NEW m \in Int, NEW v \in Int
    PROVE  (2 * v <= m => v <= m \div 2) /\ (2 * v >= m => m \div 2 <= v)
  OBVIOUS

\* For any number of providers and concurrent requests and any answers: with three or
\* more of them the price that consensus mode returns is within the range of the other
\* providers' answers, whoever is wrong.
THEOREM ConsensusTrustsNobody == Spec => TrustsNobody
<1> DEFINE Trusts ==
      \A r \in Requests, liar \in Providers :
         phase[r] = "collect" /\ phase'[r] = "done" /\ Cardinality(got[r]) >= 3 =>
            LET others == {g \in got[r] : g[1] # liar}
            IN  /\ \E g \in others : g[2].value <= price'[r].value
                /\ \E g \in others : price'[r].value <= g[2].value
<1>1. RequestTypes /\ AnswersInv /\ [Next]_vars => [Trusts]_vars
  <2> SUFFICES ASSUME RequestTypes, AnswersInv, [Next]_vars, NEW r \in Requests, NEW liar \in Providers,
                      phase[r] = "collect", phase'[r] = "done", Cardinality(got[r]) >= 3
               PROVE  /\ \E g \in got[r] : g[1] # liar /\ g[2].value <= price'[r].value
                      /\ \E g \in got[r] : g[1] # liar /\ price'[r].value <= g[2].value
    OBVIOUS
  <2>1. Agree(r)
    <3>1. ASSUME NEW q \in Requests, Searches(q) PROVE FALSE
      BY <3>1, SearchFrame
    <3>2. ASSUME NEW q \in Requests,
                 CacheHit(q) \/ Agree(q) \/ PutInCache(q) \/ SaveAndReturn(q) \/ Fallback(q)
          PROVE  q = r /\ Agree(r)
      BY <3>2 DEF CacheHit, Agree, PutInCache, SaveAndReturn, Fallback, Finish, Goto, RequestTypes
    <3>3. QED BY <3>1, <3>2, StepCases, BesideFrame
  <2> DEFINE m == Result(r).median2
  <2>2. price'[r].value = m \div 2
    <3>1. price' = [price EXCEPT ![r] = ConsensusPrice(r)]
      BY <2>1 DEF Agree, Finish
    <3>2. ConsensusPrice(r).value = m \div 2
      BY DEF ConsensusPrice
    <3>3. QED BY <3>1, <3>2 DEF RequestTypes
  <2>3. AnswersOf(r)
    BY AnswersIs
  <2>4. /\ m \in Int
        /\ \E g \in got[r] : g[1] # liar /\ 2 * g[2].value <= m
        /\ \E g \in got[r] : g[1] # liar /\ 2 * g[2].value >= m
    BY <2>3, AnswersBound
  <2>5. \A g \in got[r] : g[2].value \in Int
    <3>1. got[r] \subseteq Providers \X Responses
      BY <2>3 DEF AnswersOf
    <3>2. \A a \in Responses : a.value \in Int
      BY ServiceConstants
    <3>3. QED BY <3>1, <3>2
  <2> HIDE DEF m
  <2>6. QED BY <2>2, <2>4, <2>5, Halves
<1>2. ServiceInv => RequestTypes
  BY DEF ServiceInv
<1>3. QED BY <1>1, <1>2, ServiceInvariant, OneAnswerEach, PTL DEF Spec, TrustsNobody
=============================================================================
