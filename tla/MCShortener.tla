---------------------------- MODULE MCShortener ----------------------------
(***************************************************************************)
(* Shortener instantiated for TLC.  Model values are interchangeable.      *)
(***************************************************************************)
EXTENDS Shortener, FiniteSets, TLC

CONSTANT MaxIssued      \* how many different rows a behaviour may insert

MCSymmetry == Permutations(Proc) \cup Permutations(Token)
                \cup Permutations(Url) \cup Permutations(User)

\* TTLs a client may ask for: one that means the default, and a long one.
MCRequestTTL == {-1, 3}

FewRows == Cardinality(issued) <= MaxIssued

=============================================================================
