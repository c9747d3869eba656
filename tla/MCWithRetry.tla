---------------------------- MODULE MCWithRetry ----------------------------
(***************************************************************************)
(* WithRetry instantiated for TLC; the liveness property rules symmetry    *)
(* out.                                                                    *)
(***************************************************************************)
EXTENDS WithRetry

\* maxAttempts of postgres.go.
MCMaxAttempts == 3

=============================================================================
