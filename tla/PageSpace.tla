----------------------------- MODULE PageSpace -----------------------------
(***************************************************************************)
(* What the allocator promises about the pages of a file, seen on disk     *)
(* alone.  A page is used while the page map reserves it and live while    *)
(* its header says something is stored in it.                              *)
(***************************************************************************)
CONSTANTS
  Pages,      \* every page the file may come to hold
  Permanent   \* the pages the database itself owns

VARIABLES used, live

vars == <<used, live>>

Init ==
  /\ used \subseteq Pages
  /\ Permanent \subseteq used
  /\ live = used

\* Pages are taken out of free space ...
Reserve(S) ==
  /\ S \cap used = {}
  /\ used' = used \cup S
  /\ UNCHANGED live

\* ... before they can be found,
Publish(p) ==
  /\ p \in used \ live
  /\ live' = live \cup {p}
  /\ UNCHANGED used

\* and stop being found ...
Retire(p) ==
  /\ p \in live \ Permanent
  /\ live' = live \ {p}
  /\ UNCHANGED used

\* ... before they return to free space.
Release(S) ==
  /\ S \subseteq used \ live
  /\ used' = used \ S
  /\ UNCHANGED live

Next ==
  \/ \E S \in SUBSET Pages : Reserve(S) \/ Release(S)
  \/ \E p \in Pages : Publish(p) \/ Retire(p)

Spec == Init /\ [][Next]_vars
=============================================================================
