--------------------------- MODULE MCSelectServer ---------------------------
(***************************************************************************)
(* Instances of SelectServer for TLC.                                      *)
(***************************************************************************)
EXTENDS SelectServer, TLC

\* Clients are interchangeable in runs that check no liveness.
Symmetry == Permutations(Conns)
=============================================================================
