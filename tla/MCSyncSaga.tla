------------------------------ MODULE MCSyncSaga ------------------------------
(***************************************************************************)
(* The instance of SyncSaga for TLC.                                       *)
(***************************************************************************)
EXTENDS SyncSaga

=============================================================================
