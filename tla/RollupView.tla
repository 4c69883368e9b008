------------------------------ MODULE RollupView ------------------------------
(***************************************************************************)
(* What the hourly rollups promise their readers: a view of the recorded   *)
(* check results that never shows a row that was not recorded, never loses *)
(* one it has shown, and shows every recorded row in the end.  Rows leave  *)
(* it only together with the history they belong to (rollup retention, a   *)
(* deleted monitor).                                                       *)
(***************************************************************************)
CONSTANT ViewRows

VARIABLES base,   \* the rows recorded
          due,    \* those of them a reader is owed
          view    \* the rows counted by some rollup

viewVars == <<base, due, view>>

ViewInit == base = {} /\ due = {} /\ view = {}

\* Check results are recorded.  One that comes too late may be owed to nobody.
Commit == /\ \E S \in SUBSET ViewRows : \E T \in SUBSET S :
                 base' = base \cup S /\ due' = due \cup T
          /\ UNCHANGED view

\* A rebuild adds recorded rows to the view; it takes none away.
Refresh == /\ \E S \in SUBSET base : view' = view \cup S
           /\ UNCHANGED <<base, due>>

\* History is given up: the rows leave the view and are owed no longer.
Forget == \E S \in SUBSET base :
              base' = base \ S /\ due' = due \ S /\ view' = view \ S

ViewNext == Commit \/ Refresh \/ Forget

\* Every row that is owed is shown, unless its history is given up first.
EventuallyShown ==
    \A r \in ViewRows : (r \in due) ~> (r \in view \/ r \notin due)

\* What the view may ever show, and what it must show in the end.
ViewSafety == ViewInit /\ [][ViewNext]_viewVars

ViewSpec == ViewSafety /\ EventuallyShown
===============================================================================
