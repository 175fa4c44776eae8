------------------------- MODULE MCProviderAdapters -------------------------
(* Values for TLC. *)
EXTENDS ProviderAdapters, TLC

\* None, a coin of the table with one that is not, and a coin in two spellings.
MCLists == {<<>>, <<"listed", "unlisted">>, <<"LISTED", "listed">>}

\* The calls of an adapter are alike.
CallSymmetry == Permutations(Calls)
=============================================================================
