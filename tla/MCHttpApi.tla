------------------------------ MODULE MCHttpApi ------------------------------
(***************************************************************************)
(* The instance of HttpApi for TLC.                                        *)
(***************************************************************************)
EXTENDS HttpApi

=============================================================================
