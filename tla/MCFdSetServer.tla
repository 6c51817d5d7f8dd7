---------------------------- MODULE MCFdSetServer ----------------------------
(***************************************************************************)
(* Instances of FdSetServer for TLC.                                       *)
(***************************************************************************)
EXTENDS FdSetServer, TLC

\* Clients are interchangeable in runs that check no liveness and in which
\* all of them read.
Symmetry == Permutations(Conns)
=============================================================================
