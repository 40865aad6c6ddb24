--------------------------- MODULE MCSubscribeSaga ---------------------------
(***************************************************************************)
(* Instances of SubscribeSaga for TLC.                                     *)
(***************************************************************************)
EXTENDS SubscribeSaga

=============================================================================
