------------------------------- MODULE MCApi -------------------------------
(* Values for TLC. *)
EXTENDS Api, TLC

CONSTANTS t1, t2, x, y

Entry(coin, chain, token, upper) ==
    [id |-> coin, platform |-> [chain |-> chain, token |-> token, upper |-> upper]]

\* The second names a token of the first anew, and one token twice; both hold
\* entries that are passed over.
MCCatalogs ==
    {<<Entry(x, "ethereum", t1, TRUE), Entry(y, "other", t2, FALSE)>>,
     <<Entry(y, "ethereum", t1, FALSE), Entry(x, "ethereum", t2, FALSE),
       Entry(y, "ethereum", t2, TRUE), Entry(x, "ethereum", "", FALSE)>>}

LookupSymmetry == Permutations(Lookups)
=============================================================================
