------------------------- MODULE TransactionalTable -------------------------
(***************************************************************************)
(* What a TableWriter promises of the rows of a file: they change only by  *)
(* a whole commit.  The file format has no journal, so the promise has a   *)
(* limit, and this says what lies beyond it: a commit that is cut short    *)
(* leaves each record place either old or new, growing into a page that    *)
(* was not empty may add rows to the table that grew, and after any such   *)
(* accident nothing is promised.                                           *)
(***************************************************************************)
CONSTANTS Tables, NoTable

VARIABLES
  committed,  \* the records of each table on disk, each with its key, page and slot
  writing,    \* the table being written, or NoTable
  view,       \* its records as the writer sees them
  intact      \* nothing has gone wrong yet

vars == <<committed, writing, view, intact>>

Place(r) == <<r.page, r.slot>>
KeysUnique(rows) == \A r, q \in rows : r.key = q.key => r = q
OnePerPlace(rows) == \A r, q \in rows : Place(r) = Place(q) => r = q
AtMostOne(S) == \A r, q \in S : r = q

Init ==
  /\ committed = [t \in Tables |-> {}]
  /\ writing = NoTable
  /\ view = {}
  /\ intact = TRUE

Open(t) ==
  /\ writing = NoTable
  /\ writing' = t
  /\ view' = committed[t]
  /\ UNCHANGED <<committed, intact>>

\* One record is inserted, removed, or replaced where it is.
Change ==
  /\ writing # NoTable
  /\ AtMostOne(view \ view')
  /\ AtMostOne(view' \ view)
  /\ KeysUnique(view')
  /\ OnePerPlace(view')
  /\ UNCHANGED <<committed, writing, intact>>

Finish == writing # NoTable /\ writing' = NoTable /\ view' = {}

Commit ==
  /\ Finish
  /\ committed' = [committed EXCEPT ![writing] = view]
  /\ UNCHANGED intact

Abort ==
  /\ Finish
  /\ UNCHANGED <<committed, intact>>

Recreate(t) ==
  /\ writing = NoTable
  /\ committed' = [committed EXCEPT ![t] = {}]
  /\ UNCHANGED <<writing, view, intact>>

\* A commit cut short: each place is as it was or as it was to be, and no other
\* table is touched.
Tear ==
  /\ writing # NoTable
  /\ ~intact'
  /\ \A t \in Tables \ {writing} : committed'[t] = committed[t]
  /\ committed[writing] \cap view \subseteq committed'[writing]
  /\ committed'[writing] \subseteq committed[writing] \cup view
  /\ OnePerPlace(committed'[writing])

\* An accident that costs no row yet: at most, rows of a dropped table come to
\* light in the table that took its page.
Surface ==
  /\ ~intact'
  /\ \E grown \in Tables :
       /\ \A t \in Tables \ {grown} : committed'[t] = committed[t]
       /\ committed[grown] \subseteq committed'[grown]

Damaged == ~intact /\ ~intact'

Next ==
  \/ \E t \in Tables : Open(t) \/ Recreate(t)
  \/ Change
  \/ Commit
  \/ Abort
  \/ Tear
  \/ Surface
  \/ Damaged

Spec == Init /\ [][Next]_vars
=============================================================================
