------------------------------- MODULE ReapOne -------------------------------
(***************************************************************************)
(* src/05/waitpid.c: the parent forks two children and waits for the first *)
(* one only; init takes over what a parent leaves behind.                  *)
(***************************************************************************)

VARIABLES
  parentAt,   \* the parent's next call, or "ended"
  child       \* the two children: none, running, zombie or reaped

reapVars == <<parentAt, child>>

TypesOK ==
  /\ parentAt \in {"fork1", "fork2", "waitpid", "ended"}
  /\ child \in [{"child1", "child2"} -> {"none", "running", "zombie", "reaped"}]

Init ==
  /\ parentAt = "fork1"
  /\ child = [c \in {"child1", "child2"} |-> "none"]

Forks(at, c, then) ==
  /\ parentAt = at
  /\ \/ child' = [child EXCEPT ![c] = "running"] /\ parentAt' = then
     \/ parentAt' = "ended" /\ UNCHANGED child

\* Mutant: wait(), as in the lines commented out.
WaitsAny ==
  /\ parentAt = "waitpid"
  /\ \E c \in DOMAIN child : child[c] = "zombie" /\ child' = [child EXCEPT ![c] = "reaped"]
  /\ parentAt' = "ended"

Waits ==
  /\ parentAt = "waitpid" /\ child["child1"] = "zombie"
  /\ child' = [child EXCEPT !["child1"] = "reaped"]
  /\ parentAt' = "ended"

\* A child prints, sleeps and exits.
ChildExits(c) ==
  /\ child[c] = "running"
  /\ child' = [child EXCEPT ![c] = "zombie"]
  /\ UNCHANGED parentAt

InitReaps(c) ==
  /\ parentAt = "ended" /\ child[c] = "zombie"
  /\ child' = [child EXCEPT ![c] = "reaped"]
  /\ UNCHANGED parentAt

Next ==
  \/ Forks("fork1", "child1", "fork2") \/ Forks("fork2", "child2", "waitpid")
  \/ Waits
  \/ \E c \in DOMAIN child : ChildExits(c) \/ InitReaps(c)

Spec == Init /\ [][Next]_reapVars /\ WF_reapVars(Next)

-----------------------------------------------------------------------------
(* Properties.                                                             *)

\* Once both children exist the parent ends only after child1 did, whichever
\* child is the first to end.
ParentOutlives ==
  parentAt = "ended" /\ child["child2"] # "none" => child["child1"] = "reaped"
=============================================================================
