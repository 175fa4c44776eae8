-------------------------------- MODULE Api --------------------------------
(***************************************************************************)
(* The HTTP API around the price by address: a request goes through the    *)
(* rate limiter of NewRouter's chain of middleware, and only then does its *)
(* handler look the address up.  The limiter and the registry share no     *)
(* lock; the janitor and the refresh run beside the requests.              *)
(***************************************************************************)
EXTENDS IPRateLimiter, TokenRegistry

\* The other requests are for other resources.
ASSUME LookupsAreRequests == Lookups \subseteq Requests

apiVars == <<limiterVars, registryVars>>

Init == LimiterInit /\ RegistryInit

\* next.ServeHTTP.
ServeHTTP(r) == stage[r] = "passed"

\* HandleGetPriceByAddress.
HandleGetPriceByAddress(r) ==
    /\ ServeHTTP(r)
    /\ \/ \E a \in Address : a.token # "" /\ Resolve(r, a)
       \/ LookupStep(r)
    /\ UNCHANGED limiterVars

\* StartRefresh's goroutine, and the load at the start.
Refresh ==
    /\ \E catalog \in Catalogs : LoadCatalog(catalog)
    /\ UNCHANGED limiterVars

Next ==
    \/ LimiterNext /\ UNCHANGED registryVars
    \/ \E r \in Lookups : HandleGetPriceByAddress(r)
    \/ Refresh

Spec == Init /\ [][Next]_apiVars
=============================================================================
