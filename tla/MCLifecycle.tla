---------------------------- MODULE MCLifecycle ----------------------------
(***************************************************************************)
(* Lifecycle instantiated for TLC.  The liveness properties rule symmetry  *)
(* out.                                                                    *)
(***************************************************************************)
EXTENDS Lifecycle

CONSTANTS c1, c2

MCConn == {c1, c2}

=============================================================================
