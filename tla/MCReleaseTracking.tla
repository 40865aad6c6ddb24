-------------------------- MODULE MCReleaseTracking --------------------------
(***************************************************************************)
(* Instances of ReleaseTracking for TLC.                                   *)
(***************************************************************************)
EXTENDS ReleaseTracking, TLC

\* Tokens are interchangeable.
TokenSymmetry == Permutations(Tokens)

=============================================================================
