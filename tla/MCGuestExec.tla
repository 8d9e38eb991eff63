---------------------------- MODULE MCGuestExec -----------------------------
(***************************************************************************)
(* Instances of GuestExec for TLC.                                          *)
(***************************************************************************)
EXTENDS GuestExec, TLC

=============================================================================
