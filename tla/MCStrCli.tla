------------------------------ MODULE MCStrCli ------------------------------
(***************************************************************************)
(* Instances of StrCli for TLC; the configurations give the bounds.        *)
(***************************************************************************)
EXTENDS StrCli
=============================================================================
