-------------------------- MODULE WorkspaceSession --------------------------
(***************************************************************************)
(* Who is signed in, and whose answers the pages may show (web             *)
(* lib/api-workspace.ts, lib/use-workspace.ts): the identity service keeps *)
(* one session per browser, which this tab and other tabs change; every    *)
(* change of identity starts a new epoch, and work begun in an earlier one *)
(* is dropped at its next check.  The identity service and the network are *)
(* external; a token is as good as its user.                               *)
(***************************************************************************)
EXTENDS Naturals, Sequences, FiniteSets

CONSTANTS Users, MaxEpoch, MaxNotices, None

VARIABLES session,        \* the browser's session: a user or None
          notices,        \* session changes this tab has not been told of yet
          ending,         \* endSession is waiting for the identity service
          leaving,        \* logout waits for it
          status, user, epoch,  \* the snapshot
          initialized, authenticating,
          tasks,          \* boot, login and identity changes under way
          request,        \* a private request under way, or None
          pageOwner       \* whose answer the pages show
snapshot == <<status, user, epoch>>
workspaceSession == <<session, notices, ending, leaving, snapshot, initialized, authenticating,
                      tasks, request, pageOwner>>

Init ==
    /\ session \in Users \union {None} /\ notices = <<>> /\ ending = FALSE /\ leaving = FALSE
    /\ status = "loading" /\ user = None /\ epoch = 0 /\ initialized = FALSE
    /\ authenticating = FALSE /\ tasks = {} /\ request = None /\ pageOwner = None

-----------------------------------------------------------------------------
(* invalidate: a new epoch; requests that were sent are aborted, and what    *)
(* the private queries hold is of another epoch.                             *)
Invalidate(s) ==
    /\ epoch < MaxEpoch /\ epoch' = epoch + 1 /\ status' = s /\ user' = None /\ pageOwner' = None
    /\ request' = IF request # None /\ request.at = "sent" THEN None ELSE request
\* Faulty variant: work of an earlier epoch goes on.
CurrentAlways(work) == TRUE
\* assertEpoch
Current(work) == work.epoch = epoch
Told(who) == Len(notices) < MaxNotices /\ notices' = Append(notices, who)
EndSession == ending' = TRUE

Begin(kind, at, who) ==
    tasks' = tasks \union {[kind |-> kind, at |-> at, who |-> who, epoch |-> epoch']}
Ends(t) ==
    /\ tasks' = tasks \ {t}
    /\ authenticating' = IF t.kind = "changed" THEN authenticating ELSE FALSE
Moves(t, at, who) ==
    /\ tasks' = (tasks \ {t}) \union {[kind |-> t.kind, at |-> at, who |-> who, epoch |-> t.epoch]}
    /\ UNCHANGED authenticating
Dropped(t) == Ends(t) /\ UNCHANGED <<snapshot, request, pageOwner, ending>>

Initialize ==
    /\ ~initialized /\ initialized' = TRUE /\ authenticating' = TRUE
    /\ Invalidate("loading") /\ Begin("boot", "session", None)
    /\ UNCHANGED <<session, notices, ending, leaving>>
\* retry: the page's button when the workspace cannot be reached.
Retry ==
    /\ status = "error" /\ initialized' = FALSE
    /\ UNCHANGED <<session, notices, ending, leaving, snapshot, authenticating, tasks, request, pageOwner>>
\* login waits for the boot and for a sign-out under way.
Login ==
    /\ initialized /\ ~ending /\ \A t \in tasks : t.kind # "boot"
    /\ authenticating' = TRUE /\ Invalidate("loading") /\ Begin("login", "signIn", None)
    /\ UNCHANGED <<session, notices, ending, leaving, initialized>>
Logout ==
    /\ status = "authenticated" /\ Invalidate("loading") /\ EndSession /\ leaving' = TRUE
    /\ UNCHANGED <<session, notices, initialized, authenticating, tasks>>

\* authFailure: a refused identity signs out; any other failure is shown.
Fails(t) ==
    /\ Ends(t)
    /\ IF Current(t)
       THEN \/ Invalidate("anonymous") /\ (IF t.kind = "login" THEN UNCHANGED ending ELSE EndSession)
            \/ t.kind # "login" /\ Invalidate("error") /\ UNCHANGED ending
       ELSE UNCHANGED <<snapshot, request, pageOwner, ending>>
    /\ UNCHANGED session
BootSession(t) ==
    /\ t.at = "session" /\ UNCHANGED <<session, notices>>
    /\ IF ~Current(t) THEN Dropped(t)
       ELSE IF session = None
            THEN Ends(t) /\ status' = "anonymous" /\ UNCHANGED <<user, epoch, request, pageOwner, ending>>
       ELSE Moves(t, "getUser", session) /\ UNCHANGED <<snapshot, request, pageOwner, ending>>
SignedIn(t) ==
    /\ t.at = "signIn" /\ \E u \in Users : session' = u /\ Told(u)
                       /\ IF Current(t)
                          THEN Moves(t, "getUser", u) /\ UNCHANGED <<snapshot, request, pageOwner, ending>>
                          ELSE Dropped(t)
\* verifySession: the identity service and then this service must name the session's user.
Verified(t) ==
    /\ t.at = "getUser" /\ UNCHANGED <<session, notices>>
    /\ IF Current(t) THEN Moves(t, "me", t.who) /\ UNCHANGED <<snapshot, request, pageOwner, ending>>
                     ELSE Dropped(t)
Published(t) ==
    /\ t.at = "me" /\ UNCHANGED <<session, notices>>
    /\ IF Current(t)
       THEN Ends(t) /\ status' = "authenticated" /\ user' = t.who /\ UNCHANGED <<epoch, request, pageOwner, ending>>
       ELSE Dropped(t)
TaskStep(t) ==
    /\ BootSession(t) \/ SignedIn(t) \/ Verified(t) \/ Published(t) \/ (Fails(t) /\ UNCHANGED notices)
    /\ UNCHANGED <<leaving, initialized>>

\* The sign-out is over: the subscriber is told at once, then logout continues.
SignedOut ==
    /\ ending /\ ending' = FALSE /\ session' = None /\ leaving' = FALSE /\ Invalidate("anonymous")
    /\ UNCHANGED <<notices, initialized, authenticating, tasks>>
SignOutFails ==
    /\ ending /\ ending' = FALSE /\ leaving' = FALSE
    /\ IF leaving THEN Invalidate("error") ELSE UNCHANGED <<snapshot, request, pageOwner>>
    /\ UNCHANGED <<session, notices, initialized, authenticating, tasks>>

\* Another tab signs in or out.
OtherTab ==
    /\ \E who \in Users \union {None} : who # session /\ session' = who /\ Told(who)
    /\ UNCHANGED <<ending, leaving, snapshot, initialized, authenticating, tasks, request, pageOwner>>
\* subscribe and acceptChangedIdentity
Noticed ==
    /\ notices # <<>> /\ initialized /\ notices' = Tail(notices)
    /\ LET who == Head(notices)
       IN IF who = None THEN Invalidate("anonymous") /\ UNCHANGED tasks
          ELSE IF authenticating \/ user = who THEN UNCHANGED <<snapshot, request, pageOwner, tasks>>
          ELSE Invalidate("loading") /\ Begin("changed", "getUser", who)
    /\ UNCHANGED <<session, ending, leaving, initialized, authenticating>>

-----------------------------------------------------------------------------
(* authorizedRequest                                                         *)

Ask ==
    /\ status = "authenticated" /\ request = None
    /\ request' = [at |-> "session", owner |-> user, epoch |-> epoch]
    /\ UNCHANGED <<session, notices, ending, leaving, snapshot, initialized, authenticating, tasks, pageOwner>>
RequestFails(signedOut) ==
    IF Current(request) /\ signedOut
    THEN Invalidate("anonymous") /\ EndSession
    ELSE request' = None /\ UNCHANGED <<snapshot, pageOwner, ending>>
SessionRead ==
    /\ request # None /\ request.at \in {"session", "refresh"}
    /\ IF Current(request) /\ session = request.owner
       THEN request' = [request EXCEPT !.at = "sent"] /\ UNCHANGED <<snapshot, pageOwner, ending>>
       ELSE request' = None /\ IF Current(request)
                               THEN epoch < MaxEpoch /\ epoch' = epoch + 1 /\ status' = "anonymous"
                                    /\ user' = None /\ pageOwner' = None /\ EndSession
                               ELSE UNCHANGED <<snapshot, pageOwner, ending>>
    /\ UNCHANGED <<session, notices, leaving, initialized, authenticating, tasks>>
\* A refused token is refreshed once; any other answer is handed to the page.
Responded ==
    /\ request # None /\ request.at = "sent"
    /\ \/ request' = [request EXCEPT !.at = "refresh"] /\ UNCHANGED <<snapshot, pageOwner, ending>>
       \/ request' = None /\ UNCHANGED <<snapshot, ending>>
          /\ pageOwner' = IF Current(request) THEN request.owner ELSE pageOwner
       \/ \E signedOut \in BOOLEAN : RequestFails(signedOut)
    /\ UNCHANGED <<session, notices, leaving, initialized, authenticating, tasks>>

Next ==
    \/ Initialize \/ Retry \/ Login \/ Logout \/ SignedOut \/ SignOutFails \/ OtherTab \/ Noticed
    \/ Ask \/ SessionRead \/ Responded
    \/ \E t \in tasks : TaskStep(t)

-----------------------------------------------------------------------------
TypeOK ==
    /\ session \in Users \union {None} /\ user \in Users \union {None} /\ epoch \in 0..MaxEpoch
    /\ status \in {"loading", "anonymous", "authenticated", "error"}
    /\ pageOwner \in Users \union {None} /\ {initialized, authenticating, ending, leaving} \subseteq BOOLEAN
    /\ \A t \in tasks : t.epoch \in 0..epoch /\ t.who \in Users \union {None}

\* The pages show the signed-in user's answers and nobody else's, however logins, sign-outs
\* and the changes of other tabs interleave with requests; and a user is shown only while
\* signed in.
AnswersStayPrivate ==
    /\ pageOwner # None => status = "authenticated" /\ pageOwner = user
    /\ user # None => status = "authenticated"
=============================================================================
