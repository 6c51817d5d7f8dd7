------------------------------ MODULE ThreadSum ------------------------------
(***************************************************************************)
(* src/26/demo1.c: main() passes a heap block to a thread, which adds up   *)
(* what is in it, frees it and returns a second block that main() frees    *)
(* after pthread_join().  malloc() and pthread_create() may fail.          *)
(***************************************************************************)

VARIABLES
  mainAt,    \* what main() does next, or how the process ended
  threadAt,  \* what the thread does next
  heap,      \* the blocks data and res: none, live, freed or corrupt
  sum        \* what is in res, once it was computed from data

threadVars == <<mainAt, threadAt, heap, sum>>

TypesOK ==
  /\ mainAt \in {"malloc", "create", "join", "print", "free", "exit0", "exit1", "crashed"}
  /\ threadAt \in {"none", "malloc", "add", "free", "returned"}
  /\ heap \in [{"data", "res"} -> {"none", "live", "freed", "corrupt"}]
  /\ sum \in {"unset", "right"}

Init ==
  /\ mainAt = "malloc" /\ threadAt = "none"
  /\ heap = [b \in {"data", "res"} |-> "none"]
  /\ sum = "unset"

Running == mainAt \notin {"exit0", "exit1", "crashed"}

\* free() of a block that is not live corrupts the heap.
Free(b) == heap' = [heap EXCEPT ![b] = IF @ = "live" THEN "freed" ELSE "corrupt"]

Allocates ==
  /\ mainAt = "malloc"
  /\ \/ mainAt' = "exit1" /\ UNCHANGED heap
     \/ mainAt' = "create" /\ heap' = [heap EXCEPT !["data"] = "live"]
  /\ UNCHANGED <<threadAt, sum>>

Creates ==
  /\ mainAt = "create"
  /\ \/ mainAt' = "exit1" /\ UNCHANGED threadAt
     \/ mainAt' = "join" /\ threadAt' = "malloc"
  /\ UNCHANGED <<heap, sum>>

\* Mutant: main() does not wait, and takes what is not there yet.
JoinMissing ==
  /\ mainAt = "join"
  /\ mainAt' = "print"
  /\ UNCHANGED <<threadAt, heap, sum>>

Joins ==
  /\ mainAt = "join" /\ threadAt = "returned"
  /\ mainAt' = "print"
  /\ UNCHANGED <<threadAt, heap, sum>>

Prints ==
  /\ mainAt = "print"
  /\ mainAt' = "free"
  /\ UNCHANGED <<threadAt, heap, sum>>

\* Mutant: the free(data) that line 74 leaves out.
MainFreesBoth ==
  /\ mainAt = "free"
  /\ heap' = [b \in {"data", "res"} |-> IF heap[b] = "live" THEN "freed" ELSE "corrupt"]
  /\ mainAt' = "exit0"
  /\ UNCHANGED <<threadAt, sum>>

MainFrees ==
  /\ mainAt = "free"
  /\ Free("res")
  /\ mainAt' = "exit0"
  /\ UNCHANGED <<threadAt, sum>>

\* The thread does not test what malloc() returned.
ThreadAllocates ==
  /\ threadAt = "malloc"
  /\ threadAt' = "add"
  /\ \/ UNCHANGED heap
     \/ heap' = [heap EXCEPT !["res"] = "live"]
  /\ UNCHANGED <<mainAt, sum>>

Adds ==
  /\ Running /\ threadAt = "add"
  /\ IF heap["res"] = "live"
       THEN threadAt' = "free" /\ sum' = "right" /\ UNCHANGED mainAt
       ELSE mainAt' = "crashed" /\ UNCHANGED <<threadAt, sum>>
  /\ UNCHANGED heap

ThreadFrees ==
  /\ threadAt = "free"
  /\ Free("data")
  /\ threadAt' = "returned"
  /\ UNCHANGED <<mainAt, sum>>

Next ==
  \/ Allocates \/ Creates \/ Joins \/ Prints \/ MainFrees
  \/ ThreadAllocates \/ Adds \/ ThreadFrees

Spec == Init /\ [][Next]_threadVars

-----------------------------------------------------------------------------
(* Properties.                                                             *)

\* The two threads hand the blocks over without a lock: the thread reads data
\* while it lives, main() reads res when it lives and holds the sum, and at
\* the end each block was freed once.
BlocksHandedOver ==
  /\ threadAt \in {"add", "free"} => heap["data"] = "live"
  /\ mainAt \in {"print", "free"} => heap["res"] = "live" /\ sum = "right"
  /\ mainAt = "exit0" => \A b \in {"data", "res"} : heap[b] = "freed"
=============================================================================
