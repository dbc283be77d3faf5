--------------------------- MODULE TemplateImport ---------------------------
(***************************************************************************)
(* A project made from a curated template: the page that asks for it       *)
(* (components/projects-page.tsx), the transaction that makes it           *)
(* (createTemplateProject), the import itself (executeTemplate of          *)
(* generation/executor.ts), which no model and no check takes part in, and *)
(* the transaction that accepts it (completeTemplate).  Answers of the     *)
(* server and of the database may be lost; the import may be cancelled at  *)
(* any time, and the process may die under it.                             *)
(***************************************************************************)
EXTENDS Naturals, FiniteSets, Sequences

CONSTANTS MaxKeys,       \* keys the page has made
          MaxPosts,      \* requests on their way
          None

VARIABLES page, kept, made,      \* the page; the key in the tab's storage; keys made
          posts, answers,        \* on the wire
          imports,               \* nano.template_imports: projects by key
          asked,                 \* deliberate imports: one per key that was opened
          \* the import of the first project
          state, step, stop,
          built, stored, opened, \* of the candidate: its build, source and page
          sandbox, row, cleanup,
          current, unknown       \* the project's version; commitUnknown
import == <<page, kept, made, posts, answers, imports, asked, state, step, stop, built,
            stored, opened, sandbox, row, cleanup, current, unknown>>
client == <<page, kept, made, posts, answers, imports, asked>>
candidate == <<built, stored, opened>>
remote == <<sandbox, row, cleanup>>

Init ==
    /\ page = "idle" /\ kept = None /\ made = 0 /\ posts = <<>> /\ answers = {}
    /\ imports = [k \in 1..MaxKeys |-> 0] /\ asked = 0
    /\ state = "none" /\ step = "idle" /\ stop = "none"
    /\ built = FALSE /\ stored = FALSE /\ opened = FALSE
    /\ sandbox = "none" /\ row = "none" /\ cleanup = "clear" /\ current = FALSE /\ unknown = FALSE

-----------------------------------------------------------------------------
\* createFromTemplate: the key of an import that did not succeed is used again.
Key == IF kept = None THEN made + 1 ELSE kept
createFromTemplate ==
    /\ page \in {"idle", "failed"} /\ Key <= MaxKeys /\ Len(posts) < MaxPosts
    /\ page' = "waiting" /\ kept' = Key /\ made' = (IF Key > made THEN Key ELSE made)
    /\ asked' = (IF page = "idle" THEN asked + 1 ELSE asked)
    /\ posts' = Append(posts, Key)
    /\ UNCHANGED <<answers, imports, state, step, stop, candidate, remote, current, unknown>>
Opened ==
    /\ page = "waiting" /\ kept \in answers
    /\ page' = "idle" /\ kept' = None /\ answers' = {}
    /\ UNCHANGED <<made, posts, imports, asked, state, step, stop, candidate, remote, current, unknown>>
\* The request failed, or its answer was lost: the page offers to try again.
RequestFails ==
    /\ page = "waiting" /\ page' = "failed" /\ answers' = {}
    /\ posts' \in {posts, <<>>}
    /\ UNCHANGED <<kept, made, imports, asked, state, step, stop, candidate, remote, current, unknown>>

\* createTemplateProject: under a lock of the key, the project that it has, or a new
\* one with its queued import.
createTemplateProject ==
    /\ posts # <<>>
    /\ LET key == Head(posts)
       IN  /\ IF imports[key] # 0 THEN UNCHANGED <<imports, state>>
              ELSE /\ imports' = [imports EXCEPT ![key] = @ + 1]
                   /\ state' = IF state = "none" THEN "queued" ELSE state
           /\ answers' = answers \union {key}
    /\ posts' = Tail(posts)
    /\ UNCHANGED <<page, kept, made, asked, step, stop, candidate, remote, current, unknown>>

-----------------------------------------------------------------------------
Start ==
    /\ state = "queued" /\ state' = "building" /\ step' = "candidate"
    /\ UNCHANGED <<client, stop, candidate, remote, current, unknown>>

Failed == step' = "caught"
Live == step \notin {"idle", "caught", "settle"}
\* The user's stop, and the watchdog's: read where the code asks for the signal.
Cancel ==
    /\ state = "building" /\ state' = "cancel_requested"
    /\ stop' = (IF stop = "none" THEN "cancelled" ELSE stop)
    /\ UNCHANGED <<client, step, candidate, remote, current, unknown>>
Watchdog ==
    /\ Live /\ stop = "none" /\ stop' = "timeout"
    /\ UNCHANGED <<client, state, step, candidate, remote, current, unknown>>

\* runCandidate: a sandbox and a trusted build of the template's files (TrustedBuild);
\* what fails may leave its sandbox to the import.
runCandidate ==
    /\ step = "candidate"
    /\ \/ /\ stop = "none" /\ step' = "store" /\ built' = TRUE
          /\ sandbox' = "live" /\ row' = "active" /\ UNCHANGED cleanup
       \/ /\ Failed /\ UNCHANGED built
          /\ \/ sandbox' \in {"none", "gone"} /\ row' = (IF sandbox' = "none" THEN "none" ELSE "destroyed")
                /\ UNCHANGED cleanup
             \/ sandbox' = "live" /\ row' = "active" /\ cleanup' = "pending"
    /\ UNCHANGED <<client, state, stop, stored, opened, current, unknown>>

\* The source is stored and read back (SourceSnapshots); it must be the one that was
\* built.  saveCandidate and bindPreview require the run to be building.
SaveSource ==
    /\ step = "store"
    /\ \/ step' = "save" /\ stored' = TRUE
       \/ Failed /\ UNCHANGED stored
    /\ UNCHANGED <<client, state, stop, built, opened, remote, current, unknown>>
SaveAndBind ==
    /\ step = "save"
    /\ \/ state = "building" /\ step' = "page"
       \/ Failed
    /\ UNCHANGED <<client, state, stop, candidate, remote, current, unknown>>
OpenPage ==
    /\ step = "page"
    /\ \/ stop = "none" /\ step' = "renew" /\ opened' = TRUE
       \/ Failed /\ UNCHANGED opened
    /\ UNCHANGED <<client, state, stop, built, stored, remote, current, unknown>>
RenewLease ==
    /\ step = "renew"
    /\ \/ stop = "none" /\ step' = "complete"
       \/ Failed
    /\ UNCHANGED <<client, state, stop, candidate, remote, current, unknown>>

\* completeTemplate: the version, its build and the sandbox it is bound to, in a run
\* that is still building.
Acceptable == state = "building" /\ ~current /\ stored /\ built /\ row = "active"
completeTemplate ==
    /\ step = "complete"
    /\ IF Acceptable
       THEN \/ /\ state' = "completed" /\ row' = "preview" /\ cleanup' = "clear" /\ current' = TRUE
               /\ \/ step' = "idle" /\ unknown' = FALSE
                  \/ Failed /\ unknown' = TRUE        \* the answer is lost
            \/ Failed /\ unknown' = TRUE /\ UNCHANGED <<state, row, cleanup, current>>
       ELSE Failed /\ unknown' = TRUE /\ UNCHANGED <<state, row, cleanup, current>>
    /\ UNCHANGED <<client, stop, candidate, sandbox>>

\* catch: an outcome that is not known is read first; it may not be readable, and is
\* then left to retrySettlement.
ReadBack ==
    /\ step = "caught" /\ unknown
    /\ \/ step' = (IF state = "completed" THEN "idle" ELSE step) /\ unknown' = FALSE
       \/ step' = "settle" /\ UNCHANGED unknown
    /\ UNCHANGED <<client, state, stop, candidate, remote, current>>

\* destroy: the sandbox is gone and its row says so, or the cleanup stays pending.
Destroyed ==
    \/ sandbox # "live" /\ UNCHANGED remote
    \/ sandbox = "live" /\ sandbox' = "gone" /\ row' = "destroyed" /\ cleanup' = "clear"
    \/ sandbox = "live" /\ sandbox' \in {"live", "gone"} /\ cleanup' = "pending" /\ UNCHANGED row
\* The rest of the catch, and retrySettlement: an accepted import keeps its preview;
\* otherwise the sandbox is destroyed and the run ends by its stop or its failure.
\* A transition that fails is tried again, and honours a stop that came by then.
Settle ==
    /\ step = "settle" \/ (step = "caught" /\ ~unknown)
    /\ IF step = "settle" /\ state = "completed"
       THEN step' = "idle" /\ unknown' = FALSE /\ UNCHANGED <<state, remote>>
       ELSE /\ Destroyed /\ unknown' = FALSE
            /\ \/ /\ state' = (IF stop = "cancelled" \/ (step = "settle" /\ state = "cancel_requested")
                              THEN "cancelled" ELSE "failed")
                 /\ step' = "idle"
               \/ step' = "settle" /\ UNCHANGED state
    /\ UNCHANGED <<client, stop, candidate, current>>

\* The process dies; boot recovery (RunLifecycle) ends what ran and reclaims what it held.
Restart ==
    /\ step # "idle" /\ step' = "idle" /\ unknown' = FALSE
    /\ state' = (IF state = "completed" THEN state ELSE IF state = "cancel_requested" THEN "cancelled" ELSE "failed")
    /\ cleanup' = (IF row = "active" THEN "pending" ELSE cleanup)
    /\ UNCHANGED <<client, stop, candidate, sandbox, row, current>>
Reclaim ==
    /\ step = "idle" /\ cleanup = "pending" /\ row # "preview"
    /\ sandbox' = "gone" /\ row' = "destroyed" /\ cleanup' = "clear"
    /\ UNCHANGED <<client, state, step, stop, candidate, current, unknown>>

Next ==
    \/ createFromTemplate \/ Opened \/ RequestFails \/ createTemplateProject
    \/ Start \/ Cancel \/ Watchdog \/ runCandidate \/ SaveSource \/ SaveAndBind \/ OpenPage
    \/ RenewLease \/ completeTemplate \/ ReadBack \/ Settle \/ Restart \/ Reclaim

-----------------------------------------------------------------------------
ImportTypeOK ==
    /\ page \in {"idle", "waiting", "failed"} /\ kept \in 1..MaxKeys \union {None}
    /\ state \in {"none", "queued", "building", "cancel_requested", "completed", "failed", "cancelled"}
    /\ stop \in {"none", "cancelled", "timeout"} /\ sandbox \in {"none", "live", "gone"}
    /\ row \in {"none", "active", "preview", "destroyed"} /\ cleanup \in {"clear", "pending"}
    /\ {built, stored, opened, current, unknown} \subseteq BOOLEAN

\* A template asked for once makes one project, whatever is lost, repeated or late.
OneProjectPerImport == Cardinality({k \in 1..MaxKeys : imports[k] # 0}) <= asked

\* Nobody checks an imported version but the import: what became the project's version
\* was built, stored and opened in a browser's place, its preview lives and is not
\* reclaimed because an answer was lost; and an import that ended otherwise has no
\* version, and no sandbox that is not on its way to be reclaimed.
ImportIsWhole ==
    /\ current => built /\ stored /\ opened /\ state = "completed" /\ sandbox = "live" /\ row = "preview"
    /\ state \in {"failed", "cancelled"} => ~current /\ (sandbox = "live" => cleanup = "pending")
=============================================================================
