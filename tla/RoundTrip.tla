----------------------------- MODULE RoundTrip -----------------------------
(***************************************************************************)
(* An INSERT as the services see it: one step.  Several callers contend    *)
(* for one unique key.  A call is answered; it fails without effect; or it *)
(* takes effect while its answer is lost.  RepoSave of Shortener and       *)
(* SaveUser and SaveRefreshToken of Auth are steps of this kind.           *)
(***************************************************************************)
CONSTANTS
    Proc,   \* goroutines that call the repository
    Nobody  \* the key is free

VARIABLES
    taken,   \* whose row has the key
    outcome  \* outcome[p]: what p's call returned, "open" before it has

roundTripVars == <<taken, outcome>>

RoundTripInit ==
    /\ taken = Nobody
    /\ outcome = [p \in Proc |-> "open"]

Answered(p, result) ==
    /\ outcome[p] = "open"
    /\ outcome' = [outcome EXCEPT ![p] = result]

Saved(p) ==
    /\ taken = Nobody
    /\ taken' = p
    /\ Answered(p, "ok") \/ Answered(p, "error")

Refused(p) ==
    /\ taken # Nobody
    /\ Answered(p, "notUnique")
    /\ UNCHANGED taken

NotSaved(p) ==
    /\ Answered(p, "error")
    /\ UNCHANGED taken

\* Another call deletes the row.
Release ==
    /\ taken' = Nobody
    /\ UNCHANGED outcome

RoundTripNext ==
    \/ \E p \in Proc : Saved(p) \/ Refused(p) \/ NotSaved(p)
    \/ Release

RoundTripSpec == RoundTripInit /\ [][RoundTripNext]_roundTripVars

=============================================================================
