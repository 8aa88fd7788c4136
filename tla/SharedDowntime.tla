--------------------------- MODULE SharedDowntime ---------------------------
(***************************************************************************)
(* What coldStops (internal/backup/backup.go) promises: "the first run to  *)
(* need it stops the container, the last to finish starts it again", so    *)
(* that "overlapping cold backups share one downtime".  Nobody holds a     *)
(* container that is up, and it comes up only when nobody holds it.        *)
(* Counters, mutexes, processes and the two halves of a call do not appear *)
(* here; Orchestrator.tla implements this.                                 *)
(***************************************************************************)
CONSTANTS
  Apps,    \* containers
  Holders  \* who may hold one: cold backups

VARIABLES
  up,   \* [Apps -> BOOLEAN]
  held  \* per app: the backups that hold it down

vars == <<up, held>>

Init == /\ up = [a \in Apps |-> TRUE]
        /\ held = [a \in Apps |-> {}]

\* A backup joins the downtime, which begins if there was none.
Hold(a, h) == /\ h \notin held[a]
              /\ held' = [held EXCEPT ![a] = @ \cup {h}]
              /\ up' = [up EXCEPT ![a] = FALSE]

\* A backup leaves the downtime, which goes on; so does everything a process that
\* ends held.
Leave(S) == /\ S # {}
            /\ held' = [a \in Apps |-> held[a] \ S]
            /\ UNCHANGED up

\* The downtime ends once nobody wants it.
Start(a) == /\ held[a] = {}
            /\ up' = [up EXCEPT ![a] = TRUE]
            /\ UNCHANGED held

\* A stop that reported an error may stop the container for nobody.
StopInVain(a) == /\ held[a] = {}
                 /\ up' = [up EXCEPT ![a] = FALSE]
                 /\ UNCHANGED held

Next == \/ \E a \in Apps, h \in Holders : Hold(a, h)
        \/ \E S \in SUBSET Holders : Leave(S)
        \/ \E a \in Apps : Start(a) \/ StopInVain(a)

Spec == Init /\ [][Next]_vars

=============================================================================
