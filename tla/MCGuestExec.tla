---------------------------- MODULE MCGuestExec ----------------------------
(* Model-checking instances of GuestExec.                                  *)
EXTENDS GuestExec

CONSTANTS l1, l2, main, x1, x2

=============================================================================
