---------------------------- MODULE PublishedApp ----------------------------
(***************************************************************************)
(* The static release of a project (generation/publication.ts) and the     *)
(* deletion of the project (service.ts deleteProject, data/projects.ts,    *)
(* migration 038).  A release is a directory that one rename of a link     *)
(* makes current; publishing reads it from the preview's sandbox first.    *)
(* Deletion destroys previews, moves the directory aside, removes the rows *)
(* and only then removes the files.  Requests overlap and the process may  *)
(* die between any two steps.                                              *)
(***************************************************************************)
EXTENDS Naturals

CONSTANTS Publishers, MaxRevisions, MaxRestarts, None

VARIABLES alive, busy,      \* the project's rows; a task, a rollback or a restore is under way
          head, eligible,   \* the current revision; those whose check or template build passed
          shown,            \* the revisions with an active preview
          directory,        \* the project's directory exists
          link,             \* current in it: None, or the files and the record it leads to
          aside,            \* the directory moved aside: None, or the link in it
          publishing, deleting, died,
          blocked           \* history: a deletion could not put the directory back
published == <<alive, busy, head, eligible, shown, directory, link, aside,
               publishing, deleting, died, blocked>>
project == <<alive, busy, head, eligible, shown>>
files == <<directory, link, aside>>

Init ==
    /\ alive = TRUE /\ busy = FALSE /\ head = 0 /\ eligible = {} /\ shown = {}
    /\ directory = FALSE /\ link = None /\ aside = None
    /\ publishing = [p \in Publishers |-> None] /\ deleting = [step |-> "no", left |-> {}]
    /\ died = 0 /\ blocked = FALSE

-----------------------------------------------------------------------------
\* The rest of the service: tasks come and go, versions are accepted, previews wake and sleep.
TaskBegins == /\ alive /\ ~busy /\ busy' = TRUE
              /\ UNCHANGED <<alive, head, eligible, shown, files, publishing, deleting, died, blocked>>
TaskEnds ==
    /\ alive /\ busy /\ busy' = FALSE
    /\ \/ UNCHANGED <<head, eligible, shown>>
       \/ /\ head < MaxRevisions /\ head' = head + 1 /\ shown' = shown \cup {head + 1}
          /\ eligible' \in {eligible, eligible \cup {head + 1}}
    /\ UNCHANGED <<alive, files, publishing, deleting, died, blocked>>
PreviewSleeps ==
    /\ \E r \in shown : shown' = shown \ {r}
    /\ UNCHANGED <<alive, busy, head, eligible, files, publishing, deleting, died, blocked>>

-----------------------------------------------------------------------------
Publishes(p, to) == publishing' = [publishing EXCEPT ![p] = to]

\* revision_eligible: an accepted version with a passed check or a template's trusted build.
Eligible(revision) == revision \in eligible
\* get: the record in the release that current leads to; 0 when nothing is published.
Published == IF link = None THEN 0 ELSE link.record
\* service.publish: the current version, if it may be published and is not already.
Publish ==
    \E p \in Publishers :
        /\ publishing[p] = None /\ alive /\ Eligible(head)
        /\ head # Published /\ head \in shown
        /\ Publishes(p, [step |-> "read", revision |-> head, built |-> None])
        /\ UNCHANGED <<project, files, deleting, died, blocked>>

\* Every file is read out of the sandbox; what it holds names the revision it was built
\* from, 0 for another one.
ReadBuild ==
    \E p \in Publishers :
        /\ publishing[p] # None /\ publishing[p].step = "read"
        /\ \/ /\ publishing[p].revision \in shown
              /\ \E built \in {0, publishing[p].revision} :
                    Publishes(p, [step |-> "stage", revision |-> publishing[p].revision,
                                   built |-> built])
           \/ Publishes(p, None)
        /\ UNCHANGED <<project, files, deleting, died, blocked>>

\* The marker must be the revision's; the release is then written in the project's
\* directory, which is made when it is missing.
Matches(built, revision) == built = revision
Stage ==
    \E p \in Publishers :
        /\ publishing[p] # None /\ publishing[p].step = "stage"
        /\ IF Matches(publishing[p].built, publishing[p].revision)
           THEN /\ directory' = TRUE
                /\ Publishes(p, [publishing[p] EXCEPT !.step = "swap"])
           ELSE Publishes(p, None) /\ UNCHANGED directory
        /\ UNCHANGED <<project, link, aside, deleting, died, blocked>>
\* One rename changes the files and their record together; it fails when the directory
\* was moved aside meanwhile.
Swap ==
    \E p \in Publishers :
        /\ publishing[p] # None /\ publishing[p].step = "swap" /\ Publishes(p, None)
        /\ link' = IF directory THEN [files |-> publishing[p].built,
                                      record |-> publishing[p].revision] ELSE link
        /\ UNCHANGED <<project, directory, aside, deleting, died, blocked>>
PublishFails ==
    \E p \in Publishers :
        /\ publishing[p] # None /\ Publishes(p, None)
        /\ UNCHANGED <<project, files, deleting, died, blocked>>

-----------------------------------------------------------------------------
Moves(to) == deleting' = [deleting EXCEPT !.step = to]
\* A project at work is not deleted; its previews of this moment are destroyed first.
Delete ==
    /\ deleting.step = "no" /\ alive /\ ~busy
    /\ deleting' = [step |-> "previews", left |-> shown]
    /\ UNCHANGED <<project, files, publishing, died, blocked>>
\* One that cannot be destroyed ends the request.
DestroyPreview ==
    /\ deleting.step = "previews"
    /\ IF deleting.left = {} THEN Moves("files") /\ UNCHANGED shown
       ELSE \/ \E r \in deleting.left :
                  shown' = shown \ {r} /\ deleting' = [deleting EXCEPT !.left = @ \ {r}]
            \/ Moves("no") /\ UNCHANGED shown
    /\ UNCHANGED <<alive, busy, head, eligible, files, publishing, died, blocked>>
stageDelete ==
    /\ deleting.step = "files" /\ Moves("rows")
    /\ directory' = FALSE /\ link' = None
    /\ aside' = IF directory THEN [link |-> link] ELSE None
    /\ UNCHANGED <<project, publishing, died, blocked>>
\* delete_owned_project: all rows in one transaction, unless a task or a preview is back.
RemoveRows ==
    /\ deleting.step = "rows" /\ alive /\ ~busy /\ shown = {} /\ alive' = FALSE /\ Moves("clean")
    /\ UNCHANGED <<busy, head, eligible, shown, files, publishing, died, blocked>>
\* Faulty variant: the directory put back has lost its link.
RestoredEmpty(old) == directory' = TRUE /\ link' = None
\* The removal failed: the directory is put back, where nothing has taken its place.
Restored(old) == directory' = TRUE /\ link' = old.link
PutBack ==
    /\ deleting.step = "rows" /\ Moves("no")
    /\ IF aside = None THEN UNCHANGED <<files, blocked>>
       ELSE IF directory THEN blocked' = TRUE /\ UNCHANGED files
       ELSE Restored(aside) /\ aside' = None /\ UNCHANGED blocked
    /\ UNCHANGED <<project, publishing, died>>
CleanUp ==
    /\ deleting.step = "clean" /\ Moves("no") /\ aside' \in {aside, None}
    /\ UNCHANGED <<project, directory, link, publishing, died, blocked>>

Restart ==
    /\ died < MaxRestarts /\ died' = died + 1 /\ busy' = FALSE
    /\ publishing' = [p \in Publishers |-> None]
    /\ deleting' = [step |-> "no", left |-> {}]
    /\ UNCHANGED <<alive, head, eligible, shown, files, blocked>>

Next ==
    \/ TaskBegins \/ TaskEnds \/ PreviewSleeps
    \/ Publish \/ ReadBuild \/ Stage \/ Swap \/ PublishFails
    \/ Delete \/ DestroyPreview \/ stageDelete \/ RemoveRows \/ PutBack \/ CleanUp \/ Restart

-----------------------------------------------------------------------------
PublishedTypeOK ==
    /\ deleting.step \in {"no", "previews", "files", "rows", "clean"}
    /\ link # None => directory
    /\ aside = None \/ aside.link = None \/ aside.link.record \in 1..MaxRevisions

\* What visitors are served is one whole version: the files and the record that names
\* them are of the same revision, and that revision passed its check, however many
\* publications overlap and wherever one is cut off.
ServedIsWhole == link # None => link.files = link.record /\ Eligible(link.record)

\* A deletion that is refused in the end takes nothing down: what was published before
\* it is published after it, unless the process died within it or a publication made
\* the directory anew while it was moved aside.
RefusedDeletionKeeps ==
    [][deleting.step = "rows" /\ deleting'.step = "no" /\ died' = died /\ aside # None /\ ~blocked'
         => link' = aside.link]_published
=============================================================================
