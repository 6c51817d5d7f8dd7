------------------------------ MODULE ArpEntry ------------------------------
(***************************************************************************)
(* src/17/arp.c: main() adds an entry to the kernel's ARP table and        *)
(* deletes it again, over a socket of its own each time; other programs    *)
(* may change the table in between.                                        *)
(***************************************************************************)

VARIABLES
  arpAt,    \* the next call: <<function, call>>, or how main() ended
  arpFd,    \* whether the function's socket is open
  entry,    \* whose entry the table holds for the address
  refused   \* history: the function whose call failed

arpVars == <<arpAt, arpFd, entry, refused>>

TypesOK ==
  /\ arpAt \in ({"add", "delete"} \X {"socket", "ioctl"}) \cup {<<"exit", "0">>, <<"exit", "1">>}
  /\ arpFd \in BOOLEAN
  /\ entry \in {"none", "ours", "another's"}
  /\ refused \in {"none", "add", "delete"}

Init ==
  /\ arpAt = <<"add", "socket">> /\ arpFd = FALSE
  /\ entry \in {"none", "another's"}
  /\ refused = "none"

\* The constant address is always well-formed, so inet_pton() succeeds.
Opens(f) ==
  /\ arpAt = <<f, "socket">>
  /\ arpFd' = TRUE /\ arpAt' = <<f, "ioctl">>
  /\ UNCHANGED <<entry, refused>>

\* Mutant: main() goes on to delete what it could not add.
GoesOn(f) ==
  /\ arpAt[1] = f
  /\ arpAt' = IF f = "add" THEN <<"delete", "socket">> ELSE <<"exit", "1">>
  /\ refused' = f
  /\ arpFd' = FALSE
  /\ UNCHANGED entry

\* socket() or ioctl() fails; the function returns -1, and main() 1.
Fails(f) ==
  /\ arpAt[1] = f
  /\ arpAt' = <<"exit", "1">> /\ refused' = f
  /\ arpFd' = FALSE
  /\ UNCHANGED entry

add_arp_entry ==
  /\ arpAt = <<"add", "ioctl">>
  /\ entry' = "ours"
  /\ arpAt' = <<"delete", "socket">> /\ arpFd' = FALSE
  /\ UNCHANGED refused

\* SIOCDARP deletes by address, whoever made the entry.
delete_arp_entry ==
  /\ arpAt = <<"delete", "ioctl">> /\ entry # "none"
  /\ entry' = "none"
  /\ arpAt' = <<"exit", "0">> /\ arpFd' = FALSE
  /\ UNCHANGED refused

OthersChange ==
  /\ entry' \in {"none", "another's"}
  /\ UNCHANGED <<arpAt, arpFd, refused>>

Next ==
  \/ \E f \in {"add", "delete"} : Opens(f) \/ Fails(f)
  \/ add_arp_entry \/ delete_arp_entry \/ OthersChange

Spec == Init /\ [][Next]_arpVars

-----------------------------------------------------------------------------
(* Properties.                                                             *)

\* The program removes an entry only after it has made its own, ends with its
\* own still in the table only if deleting failed, and with no socket open.
ArpUndone ==
  /\ arpAt[1] = "delete" => refused # "add"
  /\ arpAt[1] = "exit" => ~arpFd /\ (entry = "ours" => refused = "delete")
=============================================================================
