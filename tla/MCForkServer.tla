---------------------------- MODULE MCForkServer ----------------------------
(***************************************************************************)
(* Instances of ForkServer for TLC; the configurations give the bounds.    *)
(***************************************************************************)
EXTENDS ForkServer
=============================================================================
