------------------------------- MODULE MCAuth -------------------------------
(***************************************************************************)
(* Auth for TLC.                                                           *)
(***************************************************************************)
EXTENDS Auth, FiniteSets, TLC

CONSTANT MaxIssued   \* bound on the access tokens in clients' hands

\* Goroutines, passwords, ids and hashes are only compared with each other.
MCSymmetry ==
    Permutations(Proc) \cup Permutations(LoginName) \cup Permutations(Password)
        \cup Permutations(UserID) \cup Permutations(TokenHash)

\* A state constraint: behaviours with more access tokens are cut off.
FewTokens == Cardinality(accessTokens) <= MaxIssued

=============================================================================
