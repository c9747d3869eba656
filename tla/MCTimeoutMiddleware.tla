----------------------- MODULE MCTimeoutMiddleware -----------------------
(***************************************************************************)
(* TimeoutMiddleware instantiated for TLC.                                 *)
(***************************************************************************)
EXTENDS TimeoutMiddleware

\* Handlers of every kind.
MCKind == DOMAIN Program

=============================================================================
