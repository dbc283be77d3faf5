-------------------------- MODULE ProjectVersions --------------------------
(***************************************************************************)
(* What a project promises about its accepted versions, whatever happens   *)
(* to the runs, the process and the sandboxes: one operation at a time     *)
(* holds the project; only the holder moves the current version, and gives *)
(* the project back in the same step; a run can only add one of its own    *)
(* versions, once; a rollback can only return to a version that was        *)
(* accepted before; nothing ever leaves the history.                       *)
(***************************************************************************)
CONSTANTS
    Holders,    \* runs
    Rollback,   \* the operation id of a rollback
    Versions,   \* pairs <<run, attempt>>
    Nobody      \* no holder, no current version

VARIABLES holder, current, history

Init == holder = Nobody /\ current = Nobody /\ history = {}

\* The queue claims the project for a run, or a rollback begins.
Acquire(h) == /\ holder = Nobody /\ holder' = h
              /\ UNCHANGED <<current, history>>

\* The holder ends without a new version.
Release == /\ holder # Nobody /\ holder' = Nobody
           /\ UNCHANGED <<current, history>>

\* The holder's candidate is accepted.
Promote(v) == /\ holder = v[1] /\ v \notin history
              /\ holder' = Nobody /\ current' = v /\ history' = history \cup {v}

\* A rollback commits.
Return(v) == /\ holder = Rollback /\ v \in history
             /\ holder' = Nobody /\ current' = v /\ UNCHANGED history

Next == \/ \E h \in Holders \cup {Rollback} : Acquire(h)
        \/ Release
        \/ \E v \in Versions : Promote(v) \/ Return(v)

Spec == Init /\ [][Next]_<<holder, current, history>>
=============================================================================
