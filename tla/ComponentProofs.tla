--------------------------- MODULE ComponentProofs ---------------------------
(***************************************************************************)
(* Proofs about components of MCComponents, for every size of their        *)
(* instances: about access, the publication of a project, the session of   *)
(* the web client, the model profiles and their leases, and the grants of  *)
(* a preview; about checks, the sessions that look for a verdict, their    *)
(* retries, their clock, the replayed programs and where those come from.  *)
(* Each has an inductive invariant of its own; a behaviour of MCComponents *)
(* is one component's, so they do not meet.                                *)
(***************************************************************************)
EXTENDS MCComponents, Sequences, WellFoundedInduction, TLAPS

-----------------------------------------------------------------------------
(* PublishedApp: what is served, and what a refused deletion leaves.         *)

\* The release that a link leads to is one whole eligible version.
Whole(l) == l # None => l.files = l.record /\ l.record \in eligible
\* A publication under way: its revision is eligible, and what it is about to link is the
\* build of that revision.
Publication(call) ==
    call # None =>
        /\ call = [step |-> call.step, revision |-> call.revision, built |-> call.built]
        /\ call.revision \in eligible
        /\ call.step = "swap" => call.built = call.revision
ReleaseInv ==
    /\ died \in Nat
    /\ deleting = [step |-> deleting.step, left |-> deleting.left]
    /\ publishing = [p \in Publishers |-> publishing[p]]
    /\ \A p \in Publishers : Publication(publishing[p])
    /\ Whole(link)
    /\ aside # None => Whole(aside.link)

\* What a step must not do to a release whose deletion was refused.
Refused ==
    deleting.step = "rows" /\ deleting'.step = "no" /\ died' = died /\ aside # None
        /\ ~blocked' => link' = aside.link

\* Nothing is published at first.
LEMMA InitRelease == Init => ReleaseInv
BY DEF Init, Published!Init, ReleaseInv, Publication, Whole

\* A step that leaves the publications alone and no version ineligible.
LEMMA PublicationsKept ==
    ASSUME ReleaseInv, publishing' = publishing, eligible \subseteq eligible'
    PROVE  /\ publishing' = [p \in Publishers |-> publishing'[p]]
           /\ \A p \in Publishers : Publication(publishing[p])'
BY DEF ReleaseInv, Publication

\* Tasks and previews of the project come and go: a version may become eligible.
LEMMA ProjectKeeps ==
    ASSUME ReleaseInv,
           Published!TaskBegins \/ Published!TaskEnds \/ Published!PreviewSleeps
    PROVE  ReleaseInv' /\ Refused
<1>1. /\ eligible \subseteq eligible' /\ publishing' = publishing
      /\ link' = link /\ aside' = aside /\ deleting' = deleting /\ died' = died
  BY DEF Published!TaskBegins, Published!TaskEnds, Published!PreviewSleeps, Published!files
<1>2. QED
  BY <1>1, PublicationsKept DEF ReleaseInv, Whole, Refused

\* A publication takes one step: its own entry changes.
LEMMA PublisherKeeps ==
    ASSUME ReleaseInv,
           \/ Published!Publish \/ Published!ReadBuild \/ Published!Stage
           \/ Published!Swap \/ Published!PublishFails
    PROVE  ReleaseInv' /\ Refused
<1>1. /\ eligible' = eligible /\ aside' = aside /\ deleting' = deleting /\ died' = died
  BY DEF Published!Publish, Published!ReadBuild, Published!Stage, Published!Swap,
         Published!PublishFails, Published!files, Published!project
<1>2. PICK p, call :
        /\ p \in Publishers /\ Publication(call)
        /\ publishing' = [publishing EXCEPT ![p] = call]
        /\ link' # link => link' = [files |-> publishing[p].built,
                                    record |-> publishing[p].revision]
                           /\ publishing[p] # None /\ publishing[p].step = "swap"
  <2>1. CASE Published!Publish
    BY <2>1 DEF Published!Publish, Published!Publishes, Published!Eligible, Publication,
                Published!files
  <2>2. CASE Published!ReadBuild
    BY <2>2 DEF Published!ReadBuild, Published!Publishes, ReleaseInv, Publication,
                Published!files
  <2>3. CASE Published!Stage
    BY <2>3 DEF Published!Stage, Published!Publishes, Published!Matches, ReleaseInv,
                Publication, Published!files
  <2>4. CASE Published!Swap
    BY <2>4 DEF Published!Swap, Published!Publishes, Publication
  <2>5. CASE Published!PublishFails
    BY <2>5 DEF Published!PublishFails, Published!Publishes, Publication, Published!files
  <2>6. QED
    BY <2>1, <2>2, <2>3, <2>4, <2>5
<1>3. /\ publishing' = [q \in Publishers |-> publishing'[q]]
      /\ \A q \in Publishers : Publication(publishing[q])'
  BY <1>1, <1>2 DEF ReleaseInv, Publication
<1>4. Whole(link)'
  BY <1>1, <1>2 DEF ReleaseInv, Publication, Whole
<1>5. QED
  BY <1>1, <1>3, <1>4 DEF ReleaseInv, Whole, Refused

\* A deletion moves the release aside, and puts back what it took.
LEMMA DeletionKeeps ==
    ASSUME ReleaseInv,
           \/ Published!Delete \/ Published!DestroyPreview \/ Published!stageDelete
           \/ Published!RemoveRows \/ Published!PutBack \/ Published!CleanUp
    PROVE  ReleaseInv' /\ Refused
<1>1. publishing' = publishing /\ eligible' = eligible /\ died' = died
  BY DEF Published!Delete, Published!DestroyPreview, Published!stageDelete,
         Published!RemoveRows, Published!PutBack, Published!CleanUp, Published!project
<1>2. deleting' = [step |-> deleting'.step, left |-> deleting'.left]
  BY DEF ReleaseInv, Published!Delete, Published!DestroyPreview, Published!stageDelete,
         Published!RemoveRows, Published!PutBack, Published!CleanUp, Published!Moves
<1>3. Whole(link)' /\ (aside # None => Whole(aside.link))'
  BY <1>1 DEF ReleaseInv, Whole, Published!Delete, Published!DestroyPreview,
         Published!stageDelete, Published!RemoveRows, Published!PutBack, Published!CleanUp,
         Published!Restored, Published!files
<1>4. Refused
  BY DEF Refused, ReleaseInv, Published!Delete, Published!DestroyPreview,
         Published!stageDelete, Published!RemoveRows, Published!PutBack, Published!CleanUp,
         Published!Moves, Published!Restored, Published!files
<1>5. QED
  BY <1>1, <1>2, <1>3, <1>4, PublicationsKept DEF ReleaseInv

\* The process dies and puts back what it had moved aside.
LEMMA CrashKeeps == ASSUME ReleaseInv, Published!Restart PROVE ReleaseInv' /\ Refused
BY DEF ReleaseInv, Publication, Whole, Refused, Published!Restart, Published!files

\* Every step keeps the invariant, and none takes a refused deletion's release down.
LEMMA NextRelease ==
    ASSUME ReleaseInv, [Next]_vars
    PROVE  ReleaseInv' /\ (Refused \/ UNCHANGED Published!published)
<1>1. CASE Published!Next
  BY <1>1, ProjectKeeps, PublisherKeeps, DeletionKeeps, CrashKeeps DEF Published!Next
<1>2. CASE UNCHANGED PublishedVars
  BY <1>2 DEF PublishedVars, ReleaseInv, Publication, Whole, Published!published
<1>3. QED
  BY <1>1, <1>2 DEF Next, vars

\* What is served is one whole version that passed its check, however many publications
\* overlap; and a deletion that is refused leaves what was published as it was.
THEOREM ReleaseKept == Spec => ReleaseIsKept
<1>1. ReleaseInv => (part = "Published" => Published!ServedIsWhole)
  BY DEF ReleaseInv, Whole, Published!ServedIsWhole, Published!Eligible
<1>2. ReleaseInv /\ [Next]_vars => [Refused]_(Published!published)
  BY NextRelease
<1>3. QED
  BY <1>1, <1>2, InitRelease, NextRelease, PTL
     DEF Spec, ReleaseIsKept, Published!RefusedDeletionKeeps, Refused
-----------------------------------------------------------------------------
(* WorkspaceSession: whose answers the pages show.                           *)

\* Work of this epoch: at most one task, which is still to publish its user; and a
\* request for the user who is shown.
TasksInv ==
    /\ epoch \in Nat
    /\ \A t \in tasks : t.epoch \in Nat /\ t.epoch <= epoch
    /\ \A t, u \in tasks : t.epoch = u.epoch => t = u
    /\ \A t \in tasks : t.epoch = epoch => clientStatus = "loading" /\ user = None
RequestInv ==
    request # None =>
        /\ request = [at |-> request.at, owner |-> request.owner, epoch |-> request.epoch]
        /\ request.epoch \in Nat /\ request.epoch <= epoch
        /\ request.epoch = epoch => clientStatus = "authenticated" /\ request.owner = user
PrivateInv == TasksInv /\ RequestInv /\ Client!AnswersStayPrivate

\* Nobody is signed in at first.
LEMMA InitPrivate == (part = "Client" /\ Client!Init) => PrivateInv
BY DEF Client!Init, PrivateInv, TasksInv, RequestInv, Client!AnswersStayPrivate

\* A change of identity leaves nothing of this epoch behind.
LEMMA InvalidateKeeps ==
    ASSUME PrivateInv, NEW s, Client!Invalidate(s), tasks' \subseteq tasks
    PROVE  PrivateInv'
<1>1. epoch \in Nat /\ epoch' = epoch + 1 /\ user' = None /\ pageOwner' = None
      /\ (request' = request \/ request' = None)
  BY DEF Client!Invalidate, PrivateInv, TasksInv
<1>2. TasksInv'
  BY <1>1 DEF PrivateInv, TasksInv
<1>3. RequestInv'
  BY <1>1 DEF PrivateInv, RequestInv
<1>4. QED
  BY <1>1, <1>2, <1>3 DEF PrivateInv, Client!AnswersStayPrivate

\* One that starts a task starts it in the new epoch.
LEMMA BeginKeeps ==
    ASSUME PrivateInv, NEW sort, NEW at, NEW who,
           Client!Invalidate("loading"), Client!Begin(sort, at, who)
    PROVE  PrivateInv'
<1>1. /\ epoch \in Nat /\ epoch' = epoch + 1 /\ user' = None /\ pageOwner' = None
      /\ clientStatus' = "loading" /\ (request' = request \/ request' = None)
  BY DEF Client!Invalidate, PrivateInv, TasksInv
<1> DEFINE new == [kind |-> sort, at |-> at, who |-> who, epoch |-> epoch']
<1>2. tasks' = tasks \union {new} /\ new.epoch = epoch'
  BY DEF Client!Begin
<1> HIDE DEF new
<1>3. TasksInv'
  BY <1>1, <1>2 DEF PrivateInv, TasksInv
<1>4. RequestInv'
  BY <1>1 DEF PrivateInv, RequestInv
<1>5. QED
  BY <1>1, <1>3, <1>4 DEF PrivateInv, Client!AnswersStayPrivate

\* A step that leaves the snapshot, the request and the pages alone and starts no task.
LEMMA SnapshotKept ==
    ASSUME PrivateInv, UNCHANGED <<Client!snapshot, request, pageOwner>>, tasks' \subseteq tasks
    PROVE  PrivateInv'
BY DEF PrivateInv, TasksInv, RequestInv, Client!AnswersStayPrivate, Client!snapshot

\* A task that goes on stays of its epoch.
LEMMA MoveKeeps ==
    ASSUME PrivateInv, UNCHANGED <<Client!snapshot, request, pageOwner>>,
           NEW t \in tasks, NEW at, NEW who, Client!Moves(t, at, who)
    PROVE  PrivateInv'
<1> DEFINE new == [kind |-> t.kind, at |-> at, who |-> who, epoch |-> t.epoch]
<1>1. tasks' = (tasks \ {t}) \union {new} /\ new.epoch = t.epoch
  BY DEF Client!Moves
<1> HIDE DEF new
<1>2. QED
  BY <1>1 DEF PrivateInv, TasksInv, RequestInv, Client!AnswersStayPrivate, Client!snapshot

\* What a task of this epoch says in the end: nobody is signed in, or this user is.
LEMMA EndKeeps ==
    ASSUME PrivateInv, NEW t \in tasks, Client!Current(t), Client!Ends(t),
           UNCHANGED <<epoch, request, pageOwner>>,
           \/ clientStatus' = "anonymous" /\ user' = user
           \/ clientStatus' = "authenticated" /\ user' = t.who
    PROVE  PrivateInv'
<1>1. /\ clientStatus = "loading" /\ user = None /\ tasks' = tasks \ {t}
      /\ \A u \in tasks' : u.epoch # epoch
  BY DEF PrivateInv, TasksInv, Client!Current, Client!Ends
<1>2. QED
  BY <1>1 DEF PrivateInv, TasksInv, RequestInv, Client!AnswersStayPrivate

\* One await of a task: it is dropped, goes on, fails, or publishes what it found.
LEMMA TaskStepKeeps ==
    ASSUME PrivateInv, NEW t \in tasks, Client!TaskStep(t)
    PROVE  PrivateInv'
<1>1. CASE Client!Dropped(t)
  BY <1>1, SnapshotKept DEF Client!Dropped, Client!Ends
<1>2. CASE Client!BootSession(t)
  BY <1>1, <1>2, MoveKeeps, EndKeeps DEF Client!BootSession, Client!snapshot
<1>3. CASE Client!SignedIn(t)
  BY <1>1, <1>3, MoveKeeps DEF Client!SignedIn
<1>4. CASE Client!Verified(t)
  BY <1>1, <1>4, MoveKeeps DEF Client!Verified
<1>5. CASE Client!Published(t)
  BY <1>1, <1>5, EndKeeps DEF Client!Published
<1>6. CASE Client!Fails(t)
  <2>1. tasks' \subseteq tasks
    BY <1>6 DEF Client!Fails, Client!Ends
  <2>2. QED
    BY <1>6, <2>1, InvalidateKeeps, SnapshotKept DEF Client!Fails
<1>7. QED
  BY <1>2, <1>3, <1>4, <1>5, <1>6 DEF Client!TaskStep

\* A private request: asked for the user who is shown, and its answer is handed over only
\* in the epoch it was asked in.
LEMMA RequestKeeps ==
    ASSUME PrivateInv, Client!Ask \/ Client!SessionRead \/ Client!Responded
    PROVE  PrivateInv'
<1>1. CASE Client!Ask
  BY <1>1 DEF Client!Ask, PrivateInv, TasksInv, RequestInv, Client!AnswersStayPrivate,
              Client!snapshot
<1>2. CASE Client!SessionRead
  <2>1. request # None /\ tasks' = tasks
    BY <1>2 DEF Client!SessionRead
  <2>2. CASE /\ request' = [request EXCEPT !.at = "sent"]
             /\ UNCHANGED <<Client!snapshot, pageOwner>>
    BY <2>1, <2>2 DEF PrivateInv, TasksInv, RequestInv, Client!AnswersStayPrivate,
                      Client!snapshot
  <2>3. CASE request' = None /\ UNCHANGED <<Client!snapshot, pageOwner>>
    BY <2>1, <2>3 DEF PrivateInv, TasksInv, RequestInv, Client!AnswersStayPrivate,
                      Client!snapshot
  <2>4. CASE request' = None /\ epoch' = epoch + 1 /\ user' = None /\ pageOwner' = None
    BY <2>1, <2>4 DEF PrivateInv, TasksInv, RequestInv, Client!AnswersStayPrivate
  <2>5. QED
    BY <1>2, <2>2, <2>3, <2>4 DEF Client!SessionRead
<1>3. CASE Client!Responded
  <2>1. request # None /\ tasks' = tasks
    BY <1>3 DEF Client!Responded
  <2>2. CASE /\ request' = [request EXCEPT !.at = "refresh"]
             /\ UNCHANGED <<Client!snapshot, pageOwner>>
    BY <2>1, <2>2 DEF PrivateInv, TasksInv, RequestInv, Client!AnswersStayPrivate,
                      Client!snapshot
  <2>3. CASE /\ request' = None /\ UNCHANGED Client!snapshot
             /\ pageOwner' = IF Client!Current(request) THEN request.owner ELSE pageOwner
    BY <2>1, <2>3 DEF PrivateInv, TasksInv, RequestInv, Client!AnswersStayPrivate,
                      Client!snapshot, Client!Current
  <2>4. CASE request' = None /\ UNCHANGED <<Client!snapshot, pageOwner>>
    BY <2>1, <2>4 DEF PrivateInv, TasksInv, RequestInv, Client!AnswersStayPrivate,
                      Client!snapshot
  <2>5. CASE Client!Invalidate("anonymous")
    BY <2>1, <2>5, InvalidateKeeps
  <2>6. QED
    BY <1>3, <2>2, <2>3, <2>4, <2>5 DEF Client!Responded, Client!RequestFails
<1>4. QED
  BY <1>1, <1>2, <1>3

\* Every step of the client keeps its pages private.
LEMMA NextPrivate == ASSUME PrivateInv, Client!Next PROVE PrivateInv'
<1>1. CASE Client!Initialize \/ Client!Login
  BY <1>1, BeginKeeps DEF Client!Initialize, Client!Login
<1>2. CASE Client!Logout \/ Client!SignedOut
  BY <1>2, InvalidateKeeps DEF Client!Logout, Client!SignedOut
<1>3. CASE Client!SignOutFails
  BY <1>3, InvalidateKeeps, SnapshotKept DEF Client!SignOutFails
<1>4. CASE Client!Retry \/ Client!OtherTab
  BY <1>4, SnapshotKept DEF Client!Retry, Client!OtherTab
<1>5. CASE Client!Noticed
  BY <1>5, InvalidateKeeps, BeginKeeps, SnapshotKept DEF Client!Noticed
<1>6. QED
  BY <1>1, <1>2, <1>3, <1>4, <1>5, RequestKeeps, TaskStepKeeps DEF Client!Next

-----------------------------------------------------------------------------
(* ModelProfiles: what an accepted run was promised.                         *)

Records == [current : Nat, deleted : BOOLEAN, chosen : BOOLEAN]
Versions == [connection : Connections, passed : BOOLEAN]
Leases == [profile : Profiles, version : Nat, released : BOOLEAN]
Tests == [profile : Profiles \union {None}, connection : Connections,
          version : Nat \union {None}, step : {"tools", "vision"},
          samples : Nat, correct : Nat]
ModelTypes ==
    /\ saved \in [Profiles -> Records \union {None}]
    /\ versions \in [Profiles -> Seq(Versions)]
    /\ modelsKeys \in [Profiles -> SUBSET Nat]
    /\ leases \in [Refs -> Leases \union {None}]
    /\ test \in Tests \union {None} /\ proofs \subseteq Versions

\* What counts as tested was tested, in a version and in memory.
VersionsInv ==
    \A p \in Profiles : \A v \in 1..Len(versions[p]) :
        versions[p][v].passed => versions[p][v].connection \in modelsVerified
ProofsInv == \A t \in proofs : t.passed => t.connection \in modelsVerified
\* A test of a version is of the connection that version has, and keeps.
TestInv ==
    test # None /\ test.profile # None =>
        /\ test.version \in 1..Len(versions[test.profile])
        /\ versions[test.profile][test.version].connection = test.connection
ProfileInv(p) ==
    saved[p] # None => /\ saved[p].current \in 1..Len(versions[p])
                       /\ saved[p].deleted => modelsKeys[p] = Models!Held(p)
LeaseInv(r) ==
    leases[r] # None =>
        /\ leases[r].version \in 1..Len(versions[leases[r].profile])
        /\ ~leases[r].released =>
             /\ leases[r].version \in modelsKeys[leases[r].profile]
             /\ versions[leases[r].profile][leases[r].version].connection \in modelsVerified
ModelsInv ==
    /\ ModelTypes /\ VersionsInv /\ ProofsInv /\ TestInv
    /\ \A p \in Profiles : ProfileInv(p)
    /\ \A r \in Refs : LeaseInv(r)

\* No profile, lease or test at first.
LEMMA InitModels == (part = "Models" /\ Models!Init) => ModelsInv
BY DEF Models!Init, ModelsInv, ModelTypes, VersionsInv, ProofsInv, TestInv, ProfileInv, LeaseInv

\* The invariant says what an accepted run is promised.
LEMMA ModelsProperty == ModelsInv => Models!LeaseIsHonoured
BY DEF ModelsInv, ModelTypes, ProfileInv, LeaseInv, Records, Models!LeaseIsHonoured,
       Models!resolveLease, Models!Live

\* A draft's test is believed only where it passed.
LEMMA ProofBelieved ==
    ASSUME ModelsInv, NEW c \in Connections
    PROVE  Models!Proof(c) \in BOOLEAN /\ (Models!Proof(c) => c \in modelsVerified)
<1>1. CASE \E t \in proofs : t.connection = c
  <2>1. PICK t \in proofs : t.connection = c /\ t = CHOOSE x \in proofs : x.connection = c
    BY <1>1
  <2>2. t \in Versions /\ (t.passed => t.connection \in modelsVerified)
    BY DEF ModelsInv, ModelTypes, ProofsInv
  <2>3. Models!Proof(c) = t.passed
    BY <2>1 DEF Models!Proof
  <2>4. QED
    BY <2>1, <2>2, <2>3 DEF Versions
<1>2. CASE ~\E t \in proofs : t.connection = c
  BY <1>2 DEF Models!Proof
<1>3. QED
  BY <1>1, <1>2

\* A step that touches no row: a test goes on, or what is remembered is forgotten.
LEMMA RowsSame ==
    ASSUME ModelsInv, UNCHANGED <<saved, versions, modelsKeys, leases, modelsVerified>>,
           proofs' \subseteq proofs, test' \in Tests \union {None}, TestInv'
    PROVE  ModelsInv'
<1>1. \A p \in Profiles : Models!Held(p)' = Models!Held(p)
  BY DEF Models!Held
<1>2. QED
  BY <1>1 DEF ModelsInv, ModelTypes, VersionsInv, ProofsInv, ProfileInv, LeaseInv

\* A profile takes a new version; it is not a deleted one.
LEMMA VersionSaved ==
    ASSUME ModelsInv, NEW p \in Profiles, NEW c \in Connections, NEW passed \in BOOLEAN,
           passed => c \in modelsVerified, Models!saveVersion(p, c, passed),
           saved' \in [Profiles -> Records \union {None}],
           saved'[p] # None => /\ saved'[p].current \in 1..(Len(versions[p]) + 1)
                               /\ ~saved'[p].deleted,
           \A q \in Profiles \ {p} : saved'[q] # None =>
               /\ saved[q] # None /\ saved'[q].current = saved[q].current
               /\ saved'[q].deleted = saved[q].deleted,
           UNCHANGED <<leases, test, proofs, modelsVerified>>
    PROVE  ModelsInv'
<1>1. /\ ModelTypes /\ versions[p] \in Seq(Versions) /\ Len(versions[p]) \in Nat
      /\ modelsKeys[p] \in SUBSET Nat
  BY DEF ModelsInv, ModelTypes
<1>2. PICK fresh : fresh = [connection |-> c, passed |-> passed]
  OBVIOUS
<1>3. fresh \in Versions /\ fresh.connection = c /\ fresh.passed = passed
  BY <1>2 DEF Versions
<1>4. /\ versions' = [versions EXCEPT ![p] = Append(@, fresh)]
      /\ modelsKeys' = [modelsKeys EXCEPT ![p] = @ \cup {Len(versions[p]) + 1}]
  BY <1>2 DEF Models!saveVersion
<1>5. /\ versions' \in [Profiles -> Seq(Versions)] /\ versions'[p] = Append(versions[p], fresh)
      /\ \A q \in Profiles : q # p => versions'[q] = versions[q]
  BY <1>1, <1>3, <1>4 DEF ModelTypes
<1>6. /\ Len(versions'[p]) = Len(versions[p]) + 1
      /\ versions'[p][Len(versions[p]) + 1] = fresh
      /\ \A v \in 1..Len(versions[p]) : versions'[p][v] = versions[p][v]
  BY <1>1, <1>3, <1>5
<1>7. \A q \in Profiles : /\ Len(versions[q]) \in Nat /\ Len(versions'[q]) \in Nat
                          /\ Len(versions[q]) <= Len(versions'[q])
                          /\ \A v \in 1..Len(versions[q]) : /\ v \in 1..Len(versions'[q])
                                                            /\ versions'[q][v] = versions[q][v]
  <2> TAKE q \in Profiles
  <2>1. versions[q] \in Seq(Versions) /\ Len(versions[q]) \in Nat
    BY <1>1 DEF ModelTypes
  <2>2. CASE q = p
    BY <1>1, <1>6, <2>2
  <2>3. CASE q # p
    BY <1>5, <2>1, <2>3
  <2>4. QED
    BY <2>2, <2>3
<1>8. /\ modelsKeys' \in [Profiles -> SUBSET Nat]
      /\ \A q \in Profiles : /\ modelsKeys[q] \subseteq modelsKeys'[q]
                             /\ q # p => modelsKeys'[q] = modelsKeys[q]
  BY <1>1, <1>4 DEF ModelTypes
<1>9. ModelTypes'
  BY <1>1, <1>5, <1>8 DEF ModelTypes
<1>10. VersionsInv' /\ ProofsInv'
  <2>1. ASSUME NEW q \in Profiles, NEW v \in 1..Len(versions'[q]), versions'[q][v].passed
        PROVE  versions'[q][v].connection \in modelsVerified
    <3>1. CASE v \in 1..Len(versions[q])
      BY <1>7, <2>1, <3>1 DEF ModelsInv, VersionsInv
    <3>2. CASE v \notin 1..Len(versions[q])
      <4>1. q = p
        BY <1>5, <2>1, <3>2
      <4>2. v = Len(versions[p]) + 1
        BY <1>1, <1>6, <2>1, <3>2, <4>1
      <4>3. QED
        BY <1>3, <1>6, <2>1, <4>1, <4>2
    <3>3. QED
      BY <3>1, <3>2
  <2>2. QED
    BY <2>1 DEF ModelsInv, VersionsInv, ProofsInv
<1>11. TestInv'
  BY <1>1, <1>7 DEF ModelsInv, ModelTypes, TestInv, Tests
<1>12. ASSUME NEW q \in Profiles PROVE ProfileInv(q)'
  <2>1. Models!Held(q)' = Models!Held(q)
    BY DEF Models!Held
  <2>2. CASE q = p
    BY <1>6, <2>2 DEF ProfileInv
  <2>3. CASE q # p
    BY <1>5, <1>8, <2>1, <2>3 DEF ModelsInv, ProfileInv
  <2>4. QED
    BY <2>2, <2>3
<1>13. ASSUME NEW r \in Refs PROVE LeaseInv(r)'
  BY <1>1, <1>7, <1>8 DEF ModelsInv, ModelTypes, LeaseInv, Leases
<1>14. QED
  BY <1>9, <1>10, <1>11, <1>12, <1>13 DEF ModelsInv

\* A profile is made, with its first version; it may take the default from another.
LEMMA CreateKeeps == ASSUME ModelsInv, Models!create PROVE ModelsInv'
<1>1. PICK p \in Profiles, c \in Connections, wanted \in {TRUE, FALSE, None} :
        LET chosen == IF wanted = None THEN Models!Live = {} ELSE wanted IN
        /\ saved[p] = None
        /\ saved' = [[q \in Profiles |-> IF chosen THEN Models!Unchosen(q) ELSE saved[q]]
                        EXCEPT ![p] = [current |-> 1, deleted |-> FALSE, chosen |-> chosen]]
        /\ Models!saveVersion(p, c, Models!Proof(c))
        /\ UNCHANGED <<leases, test, tests, proofs, modelsVerified>>
  BY DEF Models!create
<1>2. PICK chosen \in BOOLEAN :
        saved' = [[q \in Profiles |-> IF chosen THEN Models!Unchosen(q) ELSE saved[q]]
                        EXCEPT ![p] = [current |-> 1, deleted |-> FALSE, chosen |-> chosen]]
  <2>1. CASE wanted = None
    <3>1. (Models!Live = {}) \in BOOLEAN
      OBVIOUS
    <3>2. QED
      BY <1>1, <2>1, <3>1
  <2>2. CASE wanted # None
    BY <1>1, <2>2
  <2>3. QED
    BY <2>1, <2>2
<1>3. ModelTypes /\ saved \in [Profiles -> Records \union {None}] /\ Len(versions[p]) \in Nat
  BY DEF ModelsInv, ModelTypes
<1>4. \A x \in Records : /\ [x EXCEPT !.chosen = FALSE] \in Records
                         /\ [x EXCEPT !.chosen = FALSE].current = x.current
                         /\ [x EXCEPT !.chosen = FALSE].deleted = x.deleted
  BY DEF Records
<1> PICK fresh : fresh = [current |-> 1, deleted |-> FALSE, chosen |-> chosen]
  OBVIOUS
<1>5. fresh \in Records /\ fresh.current = 1 /\ ~fresh.deleted
  BY DEF Records
<1>6. \A q \in Profiles : /\ Models!Unchosen(q) \in Records \union {None}
                          /\ Models!Unchosen(q) # None =>
                               /\ saved[q] # None
                               /\ Models!Unchosen(q).current = saved[q].current
                               /\ Models!Unchosen(q).deleted = saved[q].deleted
  BY <1>3, <1>4 DEF Models!Unchosen
<1>7. /\ saved' \in [Profiles -> Records \union {None}] /\ saved'[p] = fresh
      /\ \A q \in Profiles \ {p} : saved'[q] = IF chosen THEN Models!Unchosen(q) ELSE saved[q]
  BY <1>2, <1>3, <1>5, <1>6
<1>8. 1 \in 1..(Len(versions[p]) + 1)
  BY <1>3
<1>9. PICK passed \in BOOLEAN : /\ passed = Models!Proof(c)
                                /\ passed => c \in modelsVerified
  BY ProofBelieved
<1>10. Models!saveVersion(p, c, passed) /\ UNCHANGED <<leases, test, proofs, modelsVerified>>
  BY <1>1, <1>9
<1>11. /\ saved'[p] # None => /\ saved'[p].current \in 1..(Len(versions[p]) + 1)
                              /\ ~saved'[p].deleted
       /\ \A q \in Profiles \ {p} : saved'[q] # None =>
               /\ saved[q] # None /\ saved'[q].current = saved[q].current
               /\ saved'[q].deleted = saved[q].deleted
  BY <1>5, <1>6, <1>7, <1>8
<1>12. QED
  BY <1>7, <1>9, <1>10, <1>11, VersionSaved

\* A profile is edited: a new version keeps the test of an unchanged connection only.
LEMMA UpdateKeeps == ASSUME ModelsInv, Models!update PROVE ModelsInv'
<1>1. PICK p \in Models!Live, edits \in BOOLEAN, wanted \in {TRUE, FALSE, None} :
        /\ edits \/ wanted # None
        /\ saved' = [[q \in Profiles |-> IF wanted = TRUE THEN Models!Unchosen(q) ELSE saved[q]]
                        EXCEPT ![p] = [current |-> saved[p].current + (IF edits THEN 1 ELSE 0),
                                       deleted |-> FALSE,
                                       chosen |-> IF wanted = None THEN saved[p].chosen
                                                  ELSE wanted]]
        /\ IF edits THEN /\ Len(versions[p]) < MaxVersions
                         /\ \E c \in Connections :
                               Models!saveVersion(p, c, Models!CarriedTest(p, c))
           ELSE UNCHANGED <<versions, modelsKeys>>
        /\ UNCHANGED <<leases, test, tests, proofs, modelsVerified>>
  BY DEF Models!update
<1>2. /\ ModelTypes /\ saved \in [Profiles -> Records \union {None}]
      /\ p \in Profiles /\ saved[p] # None /\ saved[p] \in Records /\ ~saved[p].deleted
      /\ saved[p].current \in 1..Len(versions[p]) /\ versions[p] \in Seq(Versions)
  BY DEF ModelsInv, ModelTypes, Models!Live, ProfileInv
<1> DEFINE on == IF wanted = None THEN saved[p].chosen ELSE wanted
           place == saved[p].current + (IF edits THEN 1 ELSE 0)
<1>3. on \in BOOLEAN /\ place \in Nat
  <2>1. saved[p].chosen \in BOOLEAN /\ saved[p].current \in Nat
    BY <1>2 DEF Records
  <2>2. wanted # None => wanted \in BOOLEAN
    OBVIOUS
  <2>3. on \in BOOLEAN
    BY <2>1, <2>2
  <2>4. QED
    BY <2>1, <2>3
<1>4. PICK fresh : fresh = [current |-> place, deleted |-> FALSE, chosen |-> on]
  OBVIOUS
<1>5. fresh \in Records /\ ~fresh.deleted /\ fresh.current = place
  <2> HIDE DEF on, place
  <2> QED
    BY <1>3, <1>4 DEF Records
<1>6. saved' = [[q \in Profiles |-> IF wanted = TRUE THEN Models!Unchosen(q) ELSE saved[q]]
                    EXCEPT ![p] = fresh]
  BY <1>1, <1>4
<1>7. \A x \in Records : /\ [x EXCEPT !.chosen = FALSE] \in Records
                         /\ [x EXCEPT !.chosen = FALSE].current = x.current
                         /\ [x EXCEPT !.chosen = FALSE].deleted = x.deleted
  BY DEF Records
<1>8. \A q \in Profiles : /\ Models!Unchosen(q) \in Records \union {None}
                          /\ Models!Unchosen(q) # None =>
                               /\ saved[q] # None
                               /\ Models!Unchosen(q).current = saved[q].current
                               /\ Models!Unchosen(q).deleted = saved[q].deleted
  BY <1>2, <1>7 DEF Models!Unchosen
<1>9. /\ saved' \in [Profiles -> Records \union {None}] /\ saved'[p] = fresh
      /\ \A q \in Profiles \ {p} :
           saved'[q] = IF wanted = TRUE THEN Models!Unchosen(q) ELSE saved[q]
  BY <1>2, <1>5, <1>6, <1>8
<1>10. \A q \in Profiles \ {p} : saved'[q] # None =>
           /\ saved[q] # None /\ saved'[q].current = saved[q].current
           /\ saved'[q].deleted = saved[q].deleted
  BY <1>8, <1>9
<1>11. CASE edits
  <2>1. PICK c \in Connections : Models!saveVersion(p, c, Models!CarriedTest(p, c))
    BY <1>1, <1>11
  <2>2. versions[p][saved[p].current] \in Versions
    BY <1>2
  <2>3. versions[p][saved[p].current].passed =>
            versions[p][saved[p].current].connection \in modelsVerified
    BY <1>2 DEF ModelsInv, VersionsInv
  <2>4. /\ Models!CarriedTest(p, c) \in BOOLEAN
        /\ Models!CarriedTest(p, c) => c \in modelsVerified
    <3>1. CASE c = versions[p][saved[p].current].connection
      BY <2>2, <2>3, <3>1 DEF Models!CarriedTest, Models!Current, Versions
    <3>2. CASE c # versions[p][saved[p].current].connection
      BY <3>2, ProofBelieved DEF Models!CarriedTest, Models!Current
    <3>3. QED
      BY <3>1, <3>2
  <2>5. fresh.current \in 1..(Len(versions[p]) + 1)
    BY <1>2, <1>5, <1>11
  <2>6. PICK passed \in BOOLEAN : passed = Models!CarriedTest(p, c)
    BY <2>4
  <2>7. Models!saveVersion(p, c, passed)
    BY <2>1, <2>6
  <2>8. saved'[p] # None => /\ saved'[p].current \in 1..(Len(versions[p]) + 1)
                            /\ ~saved'[p].deleted
    BY <1>5, <1>9, <2>5
  <2>9. UNCHANGED <<leases, test, proofs, modelsVerified>> /\ (passed => c \in modelsVerified)
    BY <1>1, <2>4, <2>6
  <2>10. QED
    BY <1>2, <1>9, <1>10, <2>7, <2>8, <2>9, VersionSaved
<1>12. CASE ~edits
  <2>1. UNCHANGED <<versions, modelsKeys, leases, test, proofs, modelsVerified>>
    BY <1>1, <1>12
  <2>2. \A q \in Profiles : Models!Held(q)' = Models!Held(q)
    BY <2>1 DEF Models!Held
  <2>3. fresh.current = saved[p].current
    BY <1>2, <1>5, <1>12
  <2>4. \A q \in Profiles : ProfileInv(q)'
    BY <1>2, <1>5, <1>9, <1>10, <2>1, <2>2, <2>3 DEF ModelsInv, ProfileInv
  <2>5. QED
    BY <1>2, <1>9, <2>1, <2>4
       DEF ModelsInv, ModelTypes, VersionsInv, ProofsInv, TestInv, LeaseInv
<1>13. QED
  BY <1>11, <1>12

\* A profile is deleted: the keys that its leases hold stay.
LEMMA RemoveKeeps == ASSUME ModelsInv, Models!remove PROVE ModelsInv'
<1>1. PICK p \in Models!Live :
        /\ saved' = [saved EXCEPT ![p].deleted = TRUE, ![p].chosen = FALSE]
        /\ modelsKeys' = [modelsKeys EXCEPT ![p] = Models!reclaimed(p, TRUE, Models!Held(p))]
        /\ UNCHANGED <<versions, leases, test, tests, proofs, modelsVerified>>
  BY DEF Models!remove
<1>2. /\ ModelTypes /\ p \in Profiles /\ saved[p] # None /\ saved[p] \in Records
      /\ saved[p].current \in 1..Len(versions[p])
  BY DEF ModelsInv, ModelTypes, Models!Live, ProfileInv
<1>3. PICK gone : gone = [saved[p] EXCEPT !.deleted = TRUE, !.chosen = FALSE]
  OBVIOUS
<1>4. gone \in Records /\ gone.current = saved[p].current /\ gone.deleted
  BY <1>2, <1>3 DEF Records
<1>5. saved' = [saved EXCEPT ![p] = gone]
  BY <1>1, <1>3
<1>6. /\ saved' \in [Profiles -> Records \union {None}] /\ saved'[p] = gone
      /\ \A q \in Profiles : q # p => saved'[q] = saved[q]
  BY <1>2, <1>4, <1>5 DEF ModelTypes
<1>7. Models!Held(p) \subseteq modelsKeys[p]
  BY DEF ModelsInv, LeaseInv, Models!Held
<1>8. /\ modelsKeys' \in [Profiles -> SUBSET Nat] /\ modelsKeys'[p] = Models!Held(p)
      /\ \A q \in Profiles : q # p => modelsKeys'[q] = modelsKeys[q]
  BY <1>1, <1>2, <1>7 DEF ModelTypes, Models!reclaimed
<1>9. \A q \in Profiles : Models!Held(q)' = Models!Held(q)
  BY <1>1 DEF Models!Held
<1>10. ASSUME NEW q \in Profiles PROVE ProfileInv(q)'
  <2>1. CASE q = p
    <3>1. modelsKeys'[q] = Models!Held(q)'
      BY <1>8, <1>9, <2>1
    <3>2. /\ saved'[q].current \in 1..Len(versions[q])
          /\ versions' = versions
      BY <1>1, <1>2, <1>4, <1>6, <2>1
    <3>3. QED
      BY <3>1, <3>2 DEF ProfileInv
  <2>2. CASE q # p
    <3>1. /\ ProfileInv(q) /\ Models!Held(q)' = Models!Held(q)
          /\ saved'[q] = saved[q] /\ modelsKeys'[q] = modelsKeys[q] /\ versions' = versions
      BY <1>1, <1>6, <1>8, <1>9, <2>2 DEF ModelsInv
    <3>2. QED
      BY <3>1 DEF ProfileInv
  <2>3. QED
    BY <2>1, <2>2
<1>11. ASSUME NEW r \in Refs PROVE LeaseInv(r)'
  <2>1. CASE leases[r] # None /\ leases[r].profile = p /\ ~leases[r].released
    <3>1. leases[r].version \in Models!Held(p)
      BY <2>1 DEF Models!Held
    <3>2. QED
      BY <1>1, <1>8, <2>1, <3>1 DEF ModelsInv, LeaseInv
  <2>2. CASE ~(leases[r] # None /\ leases[r].profile = p /\ ~leases[r].released)
    <3>1. leases[r] # None => leases[r].profile \in Profiles
      BY <1>2 DEF ModelTypes, Leases
    <3>2. QED
      BY <1>1, <1>8, <2>2, <3>1 DEF ModelsInv, LeaseInv
  <2>3. QED
    BY <2>1, <2>2
<1>12. QED
  BY <1>1, <1>2, <1>6, <1>8, <1>10, <1>11
     DEF ModelsInv, ModelTypes, VersionsInv, ProofsInv, TestInv

\* A run is accepted on a version that passed and can be opened.
LEMMA FreezeKeeps == ASSUME ModelsInv, Models!freezeInTransaction PROVE ModelsInv'
<1>1. PICK r \in Refs, p \in Models!Live :
        /\ leases[r] = None /\ Models!Current(p).passed
        /\ saved[p].current \in modelsKeys[p]
        /\ leases' = [leases EXCEPT ![r] = [profile |-> p, version |-> saved[p].current,
                                            released |-> FALSE]]
        /\ UNCHANGED <<saved, versions, modelsKeys, test, tests, proofs, modelsVerified>>
  BY DEF Models!freezeInTransaction
<1>2. /\ ModelTypes /\ p \in Profiles /\ saved[p] # None /\ saved[p] \in Records
      /\ ~saved[p].deleted /\ saved[p].current \in 1..Len(versions[p])
      /\ Len(versions[p]) \in Nat
  BY DEF ModelsInv, ModelTypes, Models!Live, ProfileInv
<1>3. versions[p][saved[p].current].connection \in modelsVerified
  BY <1>1, <1>2 DEF ModelsInv, VersionsInv, Models!Current
<1>4. PICK fresh : fresh = [profile |-> p, version |-> saved[p].current, released |-> FALSE]
  OBVIOUS
<1>5. /\ fresh \in Leases /\ fresh.profile = p /\ fresh.version = saved[p].current
      /\ ~fresh.released
  BY <1>2, <1>4 DEF Leases, Records
<1>6. /\ leases' \in [Refs -> Leases \union {None}] /\ leases'[r] = fresh
      /\ \A x \in Refs : x # r => leases'[x] = leases[x]
  BY <1>1, <1>2, <1>4, <1>5 DEF ModelTypes
<1>7. ASSUME NEW q \in Profiles, q # p PROVE Models!Held(q)' = Models!Held(q)
  BY <1>1, <1>5, <1>6, <1>7 DEF Models!Held
<1>8. \A q \in Profiles : ProfileInv(q)'
  BY <1>1, <1>2, <1>7 DEF ModelsInv, ProfileInv
<1>9. \A x \in Refs : LeaseInv(x)'
  BY <1>1, <1>2, <1>3, <1>5, <1>6 DEF ModelsInv, LeaseInv
<1>10. QED
  BY <1>1, <1>2, <1>6, <1>8, <1>9
     DEF ModelsInv, ModelTypes, VersionsInv, ProofsInv, TestInv

\* A run ends: what other runs hold stays.
LEMMA ReleaseKeeps == ASSUME ModelsInv, Models!releaseInTransaction PROVE ModelsInv'
<1>1. PICK r \in Refs :
        /\ leases[r] # None
        /\ leases' = [leases EXCEPT ![r].released = TRUE]
        /\ LET p == leases[r].profile
               stillHeld == {leases[x].version : x \in {y \in Refs \ {r} :
                                  leases[y] # None
                                  /\ leases[y].profile = p /\ ~leases[y].released}}
           IN modelsKeys' = [modelsKeys EXCEPT ![p] =
                                 Models!reclaimed(p, saved[p].deleted, stillHeld)]
        /\ UNCHANGED <<saved, versions, test, tests, proofs, modelsVerified>>
  BY DEF Models!releaseInTransaction
<1> PICK p : p = leases[r].profile
  OBVIOUS
<1> DEFINE others == {y \in Refs \ {r} : leases[y] # None /\ leases[y].profile = p
                                         /\ ~leases[y].released}
<1>2. PICK heldYet : heldYet = {leases[x].version : x \in others}
  OBVIOUS
<1>3. modelsKeys' = [modelsKeys EXCEPT ![p] = Models!reclaimed(p, saved[p].deleted, heldYet)]
  BY <1>1, <1>2
<1>4. ModelTypes /\ leases[r] \in Leases /\ p \in Profiles
  BY <1>1 DEF ModelsInv, ModelTypes, Leases
<1>5. PICK over : over = [leases[r] EXCEPT !.released = TRUE]
  OBVIOUS
<1>6. /\ over \in Leases /\ over.profile = p /\ over.version = leases[r].version
      /\ over.released
  BY <1>4, <1>5 DEF Leases
<1>7. /\ leases' \in [Refs -> Leases \union {None}] /\ leases'[r] = over
      /\ \A x \in Refs : x # r => leases'[x] = leases[x]
  BY <1>1, <1>4, <1>5, <1>6 DEF ModelTypes
<1>8. ASSUME NEW q \in Profiles, q = p PROVE Models!Held(q)' = heldYet
  BY <1>2, <1>6, <1>7, <1>8 DEF Models!Held
<1>9. ASSUME NEW q \in Profiles, q # p PROVE Models!Held(q)' = Models!Held(q)
  BY <1>4, <1>6, <1>7, <1>9 DEF Models!Held
<1>10. heldYet \subseteq Models!Held(p)
  BY <1>2 DEF Models!Held
<1>11. /\ modelsKeys' \in [Profiles -> SUBSET Nat]
       /\ saved[p].deleted => modelsKeys'[p] = modelsKeys[p] \cap heldYet
       /\ ~saved[p].deleted => modelsKeys'[p] = modelsKeys[p]
       /\ \A q \in Profiles : q # p => modelsKeys'[q] = modelsKeys[q]
  BY <1>3, <1>4 DEF ModelTypes, Models!reclaimed
<1>12. ASSUME NEW q \in Profiles PROVE ProfileInv(q)'
  <2>1. CASE q = p
    <3>1. Models!Held(q)' = heldYet /\ heldYet \subseteq Models!Held(q)
      BY <1>8, <1>10, <2>1
    <3>2. QED
      <4>1. ProfileInv(q) /\ UNCHANGED <<saved, versions>>
        BY <1>1 DEF ModelsInv
      <4>2. saved[q] # None /\ saved[q].deleted => modelsKeys[q] = Models!Held(q)
        BY <4>1 DEF ProfileInv
      <4>3. saved[q] # None /\ saved[q].deleted => modelsKeys'[q] = heldYet
        <5> SUFFICES ASSUME saved[q] # None, saved[q].deleted PROVE modelsKeys'[q] = heldYet
          OBVIOUS
        <5>1. modelsKeys'[q] = modelsKeys[q] \cap heldYet
          BY <1>11, <2>1
        <5>2. heldYet \subseteq modelsKeys[q]
          BY <3>1, <4>2
        <5>3. QED
          BY <5>1, <5>2
      <4>4. QED
        BY <3>1, <4>1, <4>3 DEF ProfileInv
  <2>2. CASE q # p
    BY <1>1, <1>9, <1>11, <2>2 DEF ModelsInv, ProfileInv
  <2>3. QED
    BY <2>1, <2>2
<1>13. ASSUME NEW x \in Refs PROVE LeaseInv(x)'
  <2>1. LeaseInv(x) /\ (leases[x] # None => leases[x].profile \in Profiles)
    BY <1>4 DEF ModelsInv, ModelTypes, Leases
  <2>2. CASE x = r
    BY <1>1, <1>6, <1>7, <2>1, <2>2 DEF LeaseInv
  <2>3. CASE x # r
    <3>1. leases[x] # None /\ leases[x].profile = p /\ ~leases[x].released
              => leases[x].version \in heldYet
      BY <1>2, <2>3
    <3>2. QED
      BY <1>1, <1>7, <1>11, <2>1, <2>3, <3>1 DEF LeaseInv
  <2>4. QED
    BY <2>2, <2>3
<1>14. QED
  BY <1>1, <1>4, <1>7, <1>11, <1>12, <1>13
     DEF ModelsInv, ModelTypes, VersionsInv, ProofsInv, TestInv

\* A test ends, and its answer is written where the connection is the one it tested.
LEMMA ConcludedKeeps ==
    ASSUME ModelsInv, test # None, NEW passed \in BOOLEAN, Models!Concluded(passed)
    PROVE  ModelsInv'
<1>1. PICK done : done = test
  OBVIOUS
<1>2. /\ ModelTypes /\ done \in Tests /\ test' = None
      /\ UNCHANGED <<saved, modelsKeys, leases>>
  BY <1>1 DEF ModelsInv, ModelTypes, Models!Concluded
<1>3. PICK fresh : fresh = [connection |-> done.connection, passed |-> passed]
  OBVIOUS
<1>4. fresh \in Versions /\ fresh.connection = done.connection /\ fresh.passed = passed
  BY <1>2, <1>3 DEF Tests, Versions
<1>5. /\ proofs' = {t \in proofs : t.connection # done.connection} \cup {fresh}
      /\ modelsVerified' = IF passed THEN modelsVerified \cup {done.connection}
                           ELSE modelsVerified
  BY <1>1, <1>3 DEF Models!Concluded
<1>6. /\ modelsVerified \subseteq modelsVerified'
      /\ passed => done.connection \in modelsVerified'
  BY <1>5
<1>7. proofs' \subseteq Versions /\ ProofsInv'
  BY <1>2, <1>4, <1>5, <1>6 DEF ModelsInv, ModelTypes, ProofsInv
<1>8. /\ versions' \in [Profiles -> Seq(Versions)]
      /\ \A q \in Profiles :
           /\ Len(versions'[q]) = Len(versions[q])
           /\ \A v \in 1..Len(versions[q]) :
                /\ versions'[q][v].connection = versions[q][v].connection
                /\ \/ versions'[q][v] = versions[q][v]
                   \/ /\ versions[q][v].connection = done.connection
                      /\ versions'[q][v].passed = passed
  <2>1. CASE done.profile = None
    <3>1. versions' = versions
      BY <1>1, <2>1 DEF Models!Concluded
    <3>2. QED
      BY <1>2, <3>1 DEF ModelTypes
  <2>2. CASE done.profile # None
    <3>1. /\ done.profile \in Profiles /\ versions[done.profile] \in Seq(Versions)
          /\ done.version \in 1..Len(versions[done.profile])
          /\ versions[done.profile][done.version].connection = done.connection
      BY <1>1, <1>2, <2>2 DEF ModelsInv, ModelTypes, Tests, TestInv
    <3>2. PICK marked : marked = [versions[done.profile][done.version] EXCEPT !.passed = passed]
      OBVIOUS
    <3>3. marked \in Versions /\ marked.connection = done.connection /\ marked.passed = passed
      <4>1. versions[done.profile][done.version] \in Versions
        BY <3>1
      <4>2. QED
        BY <3>1, <3>2, <4>1 DEF Versions
    <3>4. PICK vs : vs = [versions[done.profile] EXCEPT ![done.version] = marked]
      OBVIOUS
    <3>5. /\ vs \in Seq(Versions) /\ Len(vs) = Len(versions[done.profile])
          /\ vs[done.version] = marked
          /\ \A v \in 1..Len(vs) : v # done.version => vs[v] = versions[done.profile][v]
      BY <3>1, <3>3, <3>4
    <3>6. versions' = [versions EXCEPT ![done.profile] = vs]
      BY <1>1, <2>2, <3>2, <3>4 DEF Models!Concluded
    <3>7. /\ versions' \in [Profiles -> Seq(Versions)] /\ versions'[done.profile] = vs
          /\ \A q \in Profiles : q # done.profile => versions'[q] = versions[q]
      BY <1>2, <3>1, <3>5, <3>6 DEF ModelTypes
    <3>8. QED
      BY <3>1, <3>3, <3>5, <3>7
  <2>3. QED
    BY <2>1, <2>2
<1>9. VersionsInv'
  BY <1>6, <1>8 DEF ModelsInv, VersionsInv
<1>10. ASSUME NEW q \in Profiles PROVE ProfileInv(q)'
  <2>1. Models!Held(q)' = Models!Held(q)
    BY <1>2 DEF Models!Held
  <2>2. QED
    BY <1>2, <1>8, <2>1 DEF ModelsInv, ProfileInv
<1>11. ASSUME NEW r \in Refs PROVE LeaseInv(r)'
  <2>1. leases[r] # None => leases[r].profile \in Profiles
    BY <1>2 DEF ModelTypes, Leases
  <2>2. QED
    BY <1>2, <1>6, <1>8, <2>1 DEF ModelsInv, LeaseInv
<1>12. QED
  BY <1>2, <1>7, <1>8, <1>9, <1>10, <1>11 DEF ModelsInv, ModelTypes, TestInv

\* Every step keeps the promise of the leases.
LEMMA NextModels == ASSUME ModelsInv, Models!Next PROVE ModelsInv'
<1>1. /\ ModelTypes /\ test \in Tests \union {None} /\ 0 \in Nat
  BY DEF ModelsInv, ModelTypes
<1>2. ASSUME UNCHANGED <<saved, versions, modelsKeys, leases, modelsVerified>>,
             proofs' \subseteq proofs, test' \in Tests \union {None},
             test' = None
             \/ (test # None /\ test'.profile = test.profile /\ test'.version = test.version
                  /\ test'.connection = test.connection)
      PROVE  ModelsInv'
  <2>1. TestInv'
    BY <1>2 DEF ModelsInv, TestInv
  <2>2. QED
    BY <1>2, <2>1, RowsSame
<1>3. CASE Models!testDraft
  <2>1. PICK c \in Connections : Models!StartTest(None, c, None)
    BY <1>3 DEF Models!testDraft
  <2>2. PICK fresh : fresh = [profile |-> None, connection |-> c, version |-> None,
                              step |-> "tools", samples |-> 0, correct |-> 0]
    OBVIOUS
  <2>3. fresh \in Tests /\ fresh.profile = None
    BY <2>2 DEF Tests
  <2>4. /\ test' = fresh
        /\ UNCHANGED <<saved, versions, modelsKeys, leases, proofs, modelsVerified>>
    BY <2>1, <2>2 DEF Models!StartTest, Models!rows
  <2>5. TestInv'
    BY <2>3, <2>4 DEF TestInv
  <2>6. QED
    BY <2>3, <2>4, <2>5, RowsSame
<1>4. CASE Models!testSaved
  <2>1. PICK p \in Models!Live :
            Models!StartTest(p, Models!Current(p).connection, saved[p].current)
    BY <1>4 DEF Models!testSaved
  <2>2. /\ p \in Profiles /\ saved[p] # None /\ saved[p].current \in 1..Len(versions[p])
        /\ versions[p] \in Seq(Versions)
    BY <1>1 DEF ModelsInv, ModelTypes, Models!Live, ProfileInv
  <2>3. PICK c \in Connections : c = versions[p][saved[p].current].connection
    <3>1. versions[p][saved[p].current] \in Versions
      BY <2>2
    <3>2. QED
      BY <3>1 DEF Versions
  <2>4. PICK n \in Nat : n = saved[p].current
    BY <2>2
  <2>5. PICK fresh : fresh = [profile |-> p, connection |-> c, version |-> n,
                              step |-> "tools", samples |-> 0, correct |-> 0]
    OBVIOUS
  <2>6. fresh \in Tests /\ fresh.profile = p /\ fresh.connection = c /\ fresh.version = n
    BY <2>2, <2>5 DEF Tests
  <2>7. /\ test' = fresh
        /\ UNCHANGED <<saved, versions, modelsKeys, leases, proofs, modelsVerified>>
    BY <2>1, <2>3, <2>4, <2>5 DEF Models!StartTest, Models!rows, Models!Current
  <2>8. TestInv'
    BY <2>2, <2>3, <2>4, <2>6, <2>7 DEF TestInv
  <2>9. QED
    BY <2>6, <2>7, <2>8, RowsSame
<1>5. CASE Models!ToolsPass
  <2>1. /\ test \in Tests /\ test' = [test EXCEPT !.step = "vision"]
        /\ UNCHANGED <<saved, versions, modelsKeys, leases, proofs, modelsVerified>>
    BY <1>1, <1>5 DEF Models!ToolsPass, Models!rows
  <2>2. /\ test' \in Tests /\ test'.profile = test.profile /\ test'.version = test.version
        /\ test'.connection = test.connection
    BY <2>1 DEF Tests
  <2>3. QED
    BY <1>2, <1>5, <2>1, <2>2 DEF Models!ToolsPass
<1>6. CASE Models!VisionSample
  <2>1. test # None /\ test \in Tests
    BY <1>1, <1>6 DEF Models!VisionSample
  <2>2. CASE Models!Concluded(TRUE)
    BY <2>1, <2>2, ConcludedKeeps
  <2>3. CASE ~Models!Concluded(TRUE)
    <3>1. PICK named \in BOOLEAN :
            /\ test' = [test EXCEPT !.samples = @ + 1,
                                    !.correct = IF named THEN @ + 1 ELSE @]
            /\ UNCHANGED <<saved, versions, modelsKeys, leases, tests, proofs, modelsVerified>>
      BY <1>6, <2>3 DEF Models!VisionSample, Models!rows
    <3>2. PICK n \in Nat, m \in Nat : /\ n = test.samples + 1
                                      /\ m = IF named THEN test.correct + 1 ELSE test.correct
      BY <2>1 DEF Tests
    <3>3. test' = [test EXCEPT !.samples = n, !.correct = m]
      BY <3>1, <3>2
    <3>4. /\ test' \in Tests /\ test'.profile = test.profile /\ test'.version = test.version
          /\ test'.connection = test.connection
      BY <2>1, <3>3 DEF Tests
    <3>5. QED
      BY <1>2, <2>1, <3>1, <3>4
  <2>4. QED
    BY <2>2, <2>3
<1>7. CASE Models!TestFails
  BY <1>7, ConcludedKeeps DEF Models!TestFails
<1>8. CASE Models!MinutePasses
  BY <1>1, <1>2, <1>8 DEF Models!MinutePasses, Models!rows
<1>9. CASE Models!ProofExpires
  <2>1. /\ UNCHANGED <<saved, versions, modelsKeys, leases, modelsVerified, test>>
        /\ proofs' \subseteq proofs
    BY <1>9 DEF Models!ProofExpires, Models!rows
  <2>2. QED
    BY <1>1, <1>2, <2>1
<1>10. CASE Models!Restart
  BY <1>1, <1>2, <1>10 DEF Models!Restart, Models!rows
<1>11. QED
  BY <1>3, <1>4, <1>5, <1>6, <1>7, <1>8, <1>9, <1>10, CreateKeeps, UpdateKeeps, RemoveKeeps,
     FreezeKeeps, ReleaseKeeps DEF Models!Next

-----------------------------------------------------------------------------
(* PreviewGateway: one grant for each session, and none lost.                *)

Grants == [token : Nat, session : Sessions]
Entries == [sandbox : Sandboxes, revoked : BOOLEAN, grants : SUBSET Grants]
Calls == [entry : Nat, session : Sessions, looked : SUBSET Grants,
          about : Grants \union {None}, was : BOOLEAN, ended : SUBSET Sessions]
GatewayTypes ==
    /\ tokens \in Nat /\ signedIn \subseteq Sessions /\ entries \in Seq(Entries)
    /\ issuing \in [Issuers -> Calls \union {None}]

\* An entry has one grant for a session, and one for a token.
OneEach(grants) ==
    \A g, h \in grants : g.session = h.session \/ g.token = h.token => g = h
Made(grants) == \A g \in grants : g.token <= tokens
\* A call that goes on is of a session that had not ended; so is every grant it has had an
\* answer about, unless that grant is gone.
CallInv(call) ==
    /\ call.entry \in 1..Len(entries)
    /\ \A s \in signedIn : s \notin call.ended
    /\ call.about = None => call.looked = {} /\ (call.was => call.session \notin call.ended)
    /\ call.about # None => /\ call.session \notin call.ended
                            /\ call.was => call.about.session \notin call.ended
    /\ \A g \in call.looked :
         /\ g.token <= tokens
         /\ g \in entries[call.entry].grants /\ g # call.about => g.session \notin call.ended
\* What was answered is there while it may be used.
AnswerInv(a) ==
    /\ a.pruned /\ a.entry \in 1..Len(entries)
    /\ a.session \in signedIn /\ a.entry = Len(entries) /\ ~entries[Len(entries)].revoked
          => \E g \in entries[Len(entries)].grants : g.token = a.token /\ g.session = a.session
GrantsInv ==
    /\ GatewayTypes
    /\ \A e \in 1..Len(entries) : OneEach(entries[e].grants) /\ Made(entries[e].grants)
    /\ \A i \in Issuers : issuing[i] # None => CallInv(issuing[i])
    /\ \A a \in answered : AnswerInv(a)

\* No entry, grant or call at first.
LEMMA InitGrants == (part = "Gateway" /\ Gateway!Init) => GrantsInv
BY DEF Gateway!Init, GrantsInv, GatewayTypes

\* One grant for a session and one for a token: what was answered is the one there.
LEMMA GrantsProperty == GrantsInv => Gateway!GrantsHold
<1> SUFFICES ASSUME GrantsInv PROVE Gateway!GrantsHold
  OBVIOUS
<1>1. /\ entries \in Seq(Entries) /\ Len(entries) \in Nat /\ DOMAIN entries = 1..Len(entries)
      /\ \A e \in 1..Len(entries) : entries[e] \in Entries
  BY DEF GrantsInv, GatewayTypes
<1>2. ASSUME NEW a \in answered, a.session \in signedIn, a.entry = Len(entries),
             ~entries[Len(entries)].revoked
      PROVE  Gateway!Grant(Len(entries), a.token) = {[token |-> a.token, session |-> a.session]}
  <2>1. PICK g \in entries[Len(entries)].grants : g.token = a.token /\ g.session = a.session
    BY <1>2 DEF GrantsInv, AnswerInv
  <2>2. Len(entries) \in 1..Len(entries)
    BY <1>2 DEF GrantsInv, AnswerInv
  <2>3. OneEach(entries[Len(entries)].grants) /\ g \in Grants
    BY <1>1, <2>1, <2>2 DEF GrantsInv, Entries
  <2>4. g = [token |-> a.token, session |-> a.session]
    BY <2>1, <2>3 DEF Grants
  <2>5. \A h \in entries[Len(entries)].grants : h.token = a.token => h = g
    BY <2>1, <2>3 DEF OneEach
  <2>6. QED
    BY <2>1, <2>4, <2>5 DEF Gateway!Grant
<1>3. \A e \in DOMAIN entries : \A g, h \in entries[e].grants : g.session = h.session => g = h
  BY <1>1 DEF GrantsInv, OneEach
<1>4. \A a \in answered : a.pruned
  BY DEF GrantsInv, AnswerInv
<1>5. QED
  BY <1>2, <1>3, <1>4 DEF Gateway!GrantsHold, Gateway!current

\* What no step does: it does not forget a token or an entry, nor bring a grant back.
Tame ==
    /\ GatewayTypes' /\ tokens <= tokens' /\ signedIn' \subseteq signedIn
    /\ Len(entries) <= Len(entries')
    /\ \A e \in 1..Len(entries) : \A g \in entries'[e].grants :
           g \in entries[e].grants \/ g.token > tokens

\* What a call under way knows stays true, whatever others do meanwhile.
LEMMA CallKept ==
    ASSUME GrantsInv, Tame, NEW call \in Calls, CallInv(call)
    PROVE  CallInv(call)'
<1>1. /\ call.entry \in 1..Len(entries) /\ call.entry \in 1..Len(entries')
      /\ \A g \in call.looked : g.token \in Nat
  BY DEF GrantsInv, Tame, GatewayTypes, CallInv, Calls, Grants
<1>2. \A g \in call.looked : g.token <= tokens'
  BY <1>1 DEF GrantsInv, Tame, GatewayTypes, CallInv
<1>3. ASSUME NEW g \in call.looked, g \in entries'[call.entry].grants, g # call.about
      PROVE  g.session \notin call.ended
  BY <1>1, <1>3 DEF CallInv, Tame, GrantsInv, GatewayTypes
<1>4. QED
  BY <1>1, <1>2, <1>3 DEF CallInv, Tame

\* An answer is kept while the grants of live sessions are.
LEMMA AnswerKept ==
    ASSUME GatewayTypes, NEW a, AnswerInv(a), signedIn' \subseteq signedIn,
           Len(entries') = Len(entries),
           entries[Len(entries)].revoked => entries'[Len(entries)].revoked,
           ~entries'[Len(entries)].revoked =>
               \A g \in entries[Len(entries)].grants :
                   g.token = a.token /\ g.session \in signedIn
                       => g \in entries'[Len(entries)].grants
    PROVE  AnswerInv(a)'
BY DEF AnswerInv

\* A write to one entry's grants.
LEMMA SetGrants ==
    ASSUME GatewayTypes, NEW e \in 1..Len(entries), NEW grants \in SUBSET Grants,
           entries' = [entries EXCEPT ![e].grants = grants]
    PROVE  /\ entries' \in Seq(Entries) /\ Len(entries') = Len(entries)
           /\ entries'[e].grants = grants
           /\ \A x \in 1..Len(entries) : /\ entries'[x].revoked = entries[x].revoked
                                         /\ x # e => entries'[x] = entries[x]
<1>1. entries \in Seq(Entries) /\ entries[e] \in Entries
  BY DEF GatewayTypes
<1>2. [entries[e] EXCEPT !.grants = grants] \in Entries
  BY <1>1 DEF Entries
<1>3. entries' = [entries EXCEPT ![e] = [entries[e] EXCEPT !.grants = grants]]
  OBVIOUS
<1>4. /\ entries' \in Seq(Entries) /\ Len(entries') = Len(entries)
      /\ \A x \in 1..Len(entries) : x # e => entries'[x] = entries[x]
      /\ entries'[e] = [entries[e] EXCEPT !.grants = grants]
  BY <1>1, <1>2, <1>3
<1>5. /\ [entries[e] EXCEPT !.grants = grants].grants = grants
      /\ [entries[e] EXCEPT !.grants = grants].revoked = entries[e].revoked
  BY <1>1 DEF Entries
<1>6. QED
  BY <1>4, <1>5

\* A step that touches no grant and no answer.
LEMMA GrantsSame ==
    ASSUME GrantsInv, UNCHANGED <<entries, tokens, answered>>, signedIn' \subseteq signedIn,
           issuing' \in [Issuers -> Calls \union {None}],
           \A i \in Issuers : issuing'[i] # None =>
               issuing'[i] = issuing[i] \/ CallInv(issuing'[i])
    PROVE  GrantsInv'
<1>1. Tame
  BY DEF GrantsInv, Tame, GatewayTypes
<1>2. \A i \in Issuers : issuing'[i] # None => CallInv(issuing'[i]) /\ issuing'[i] \in Calls
  BY DEF GrantsInv
<1>3. \A i \in Issuers : issuing'[i] # None => CallInv(issuing[i])'
  BY <1>1, <1>2, CallKept
<1>4. \A a \in answered : AnswerInv(a)'
  BY DEF GrantsInv, AnswerInv
<1>5. QED
  BY <1>1, <1>3, <1>4 DEF GrantsInv, Tame, Made

\* A request writes the grants of its entry: some are pruned, whose sessions have ended,
\* and one may be new.
LEMMA GrantsWritten ==
    ASSUME GrantsInv, NEW e \in 1..Len(entries), NEW grants \in SUBSET Grants,
           entries' = [entries EXCEPT ![e].grants = grants], UNCHANGED signedIn,
           issuing' \in [Issuers -> Calls \union {None}],
           tokens' \in Nat, tokens <= tokens', OneEach(grants),
           \A g \in grants : /\ g.token <= tokens'
                             /\ g \in entries[e].grants \/ g.token > tokens,
           \A g \in entries[e].grants : g \in grants \/ g.session \notin signedIn
    PROVE  /\ Tame /\ \A a \in answered : AnswerInv(a)'
           /\ (\A x \in 1..Len(entries) : OneEach(entries[x].grants) /\ Made(entries[x].grants))'
           /\ Len(entries') = Len(entries) /\ entries'[e].grants = grants
<1>1. /\ GatewayTypes /\ entries \in Seq(Entries) /\ Len(entries) \in Nat /\ tokens \in Nat
      /\ signedIn \subseteq Sessions
  BY DEF GrantsInv, GatewayTypes
<1>2. /\ entries' \in Seq(Entries) /\ Len(entries') = Len(entries)
      /\ entries'[e].grants = grants
      /\ \A x \in 1..Len(entries) : /\ entries'[x].revoked = entries[x].revoked
                                    /\ x # e => entries'[x] = entries[x]
  BY <1>1, SetGrants
<1>3. Tame
  BY <1>1, <1>2 DEF Tame, GatewayTypes
<1>4. ASSUME NEW x \in 1..Len(entries)
      PROVE  OneEach(entries'[x].grants) /\ \A g \in entries'[x].grants : g.token <= tokens'
  <2>1. /\ OneEach(entries[x].grants) /\ entries[x] \in Entries
        /\ \A g \in entries[x].grants : g.token <= tokens
    BY <1>1 DEF GrantsInv, Made
  <2>2. \A g \in entries[x].grants : g.token \in Nat
    BY <2>1 DEF Entries, Grants
  <2>3. QED
    BY <1>1, <1>2, <2>1, <2>2
<1>5. ASSUME NEW a \in answered
      PROVE  AnswerInv(a)'
  <2>1. AnswerInv(a)
    BY DEF GrantsInv
  <2>2. ASSUME NEW n, n = Len(entries), NEW g \in entries[n].grants, g.session \in signedIn
        PROVE  g \in entries'[n].grants
    <3>1. CASE entries = <<>>
      BY <1>2, <2>2, <3>1
    <3>2. CASE entries # <<>>
      BY <1>1, <1>2, <2>2, <3>2
    <3>3. QED
      BY <3>1, <3>2
  <2>3. Len(entries) \in 1..Len(entries)
    BY <1>1
  <2>4. entries[Len(entries)].revoked => entries'[Len(entries)].revoked
    BY <1>2, <2>3
  <2>5. QED
    BY <1>1, <1>2, <2>1, <2>2, <2>4, AnswerKept
<1>6. (\A x \in 1..Len(entries) : OneEach(entries[x].grants) /\ Made(entries[x].grants))'
  BY <1>2, <1>4 DEF Made, OneEach
<1>7. QED
  BY <1>2, <1>3, <1>5, <1>6

\* What is known of a session is a truth value.
LEMMA Known == ASSUME NEW s, NEW S PROVE \E k \in BOOLEAN : k = (s \in S)
<1>1. (s \in S) \in BOOLEAN
  OBVIOUS
<1> WITNESS (s \in S) \in BOOLEAN
<1>2. QED
  OBVIOUS

\* A request goes on over the grants that are left, for its session had not ended.
LEMMA RequestGoesOn ==
    ASSUME NoGrantAssumption, GrantsInv, NEW i \in Issuers, NEW call \in Calls,
           issuing[i] = call, issuing[i] # None,
           NEW grants \in SUBSET Grants, grants \subseteq entries[call.entry].grants,
           call.session \notin call.ended,
           \A g \in call.looked : g \in grants => g.session \notin call.ended,
           \A g \in entries[call.entry].grants : g \in grants \/ g.session \notin signedIn,
           UNCHANGED signedIn, Gateway!GoesOn(i, call, grants)
    PROVE  GrantsInv'
<1> DEFINE others == {g \in grants \ call.looked : g.session # call.session}
           mine == Gateway!Own(grants, call)
<1>1. /\ GatewayTypes /\ CallInv(call) /\ call.entry \in 1..Len(entries)
      /\ tokens \in Nat /\ OneEach(entries[call.entry].grants)
      /\ \A g \in entries[call.entry].grants : g.token <= tokens
  BY DEF GrantsInv, GatewayTypes, CallInv, Made
<1>2. /\ OneEach(grants) /\ \A g \in grants : g.token \in Nat /\ g.token <= tokens
  BY <1>1 DEF OneEach, Grants
<1>3. CASE others # {}
  <2>1. PICK g \in others :
            /\ issuing' = [issuing EXCEPT ![i] =
                    [call EXCEPT !.about = g, !.was = g.session \in signedIn,
                                 !.looked = @ \union {g}]]
            /\ entries' = [entries EXCEPT ![call.entry].grants = grants]
            /\ UNCHANGED <<tokens, answered>>
    BY <1>3 DEF Gateway!GoesOn
  <2> PICK known \in BOOLEAN : known = (g.session \in signedIn)
    BY Known
  <2>2. call.looked \union {g} \in SUBSET Grants
    BY DEF Calls
  <2> PICK also \in SUBSET Grants : also = call.looked \union {g}
    BY <2>2
  <2>3. PICK next : next = [call EXCEPT !.about = g, !.was = known, !.looked = also]
    OBVIOUS
  <2>4. /\ next \in Calls /\ next.entry = call.entry /\ next.session = call.session
        /\ next.looked = call.looked \union {g} /\ next.about = g
        /\ next.was = (g.session \in signedIn) /\ next.ended = call.ended
    <3>1. g \in Grants
      OBVIOUS
    <3>2. next \in Calls
      BY <2>3, <3>1 DEF Calls
    <3>3. /\ next.entry = call.entry /\ next.session = call.session /\ next.looked = also
          /\ next.about = g /\ next.ended = call.ended
      BY <2>3 DEF Calls
    <3>4. next.was = known
      BY <2>3 DEF Calls
    <3>5. QED
      BY <3>2, <3>3, <3>4
  <2>5. issuing' = [issuing EXCEPT ![i] = next]
    BY <2>1, <2>3
  <2>6. issuing' \in [Issuers -> Calls \union {None}]
    BY <1>1, <2>4, <2>5 DEF GatewayTypes
  <2>7. /\ Tame /\ \A a \in answered : AnswerInv(a)'
        /\ (\A x \in 1..Len(entries) : OneEach(entries[x].grants) /\ Made(entries[x].grants))'
        /\ Len(entries') = Len(entries) /\ entries'[call.entry].grants = grants
    <3>1. /\ tokens' \in Nat /\ tokens <= tokens'
          /\ \A h \in grants : /\ h.token <= tokens'
                               /\ h \in entries[call.entry].grants \/ h.token > tokens
      BY <1>1, <1>2, <2>1
    <3>2. QED
      BY <1>1, <1>2, <2>1, <2>6, <3>1, GrantsWritten
  <2>8. g # None /\ g.session \in Sessions /\ g.token <= tokens'
    BY <1>2, <2>1, NoGrantAssumption DEF NoGrantAssumption, Grants
  <2>9. CallInv(next)'
    BY <1>1, <1>2, <2>1, <2>4, <2>7, <2>8 DEF CallInv
  <2>10. \A j \in Issuers : issuing'[j] # None => CallInv(issuing[j])'
    <3> TAKE j \in Issuers
    <3> HAVE issuing'[j] # None
    <3>1. \A c \in Calls : CallInv(c) => CallInv(c)'
      BY <2>7, CallKept
    <3>2. j # i => issuing'[j] \in Calls /\ CallInv(issuing'[j])
      BY <2>5, <1>1 DEF GatewayTypes, GrantsInv
    <3>3. j = i => issuing'[j] = next
      BY <2>5, <1>1 DEF GatewayTypes
    <3>4. QED
      BY <2>9, <3>1, <3>2, <3>3
  <2>11. QED
    BY <2>1, <2>7, <2>10 DEF GrantsInv, Tame
<1>4. CASE others = {}
  <2>1. issuing' = [issuing EXCEPT ![i] = None]
    BY <1>4 DEF Gateway!GoesOn
  <2>2. /\ issuing' \in [Issuers -> Calls \union {None}]
        /\ \A j \in Issuers : issuing'[j] # None =>
               issuing'[j] \in Calls /\ CallInv(issuing'[j])
    BY <1>1, <2>1 DEF GatewayTypes, GrantsInv
  <2>3. \A g \in grants : g.session \notin call.ended
    BY <1>4
  <2>4. Tame => \A j \in Issuers : issuing'[j] # None => CallInv(issuing[j])'
    <3>1. Tame => \A c \in Calls : CallInv(c) => CallInv(c)'
      BY CallKept
    <3>2. QED
      BY <2>2, <3>1
  <2>5. ASSUME NEW g \in mine, answered' = Gateway!Answered(grants, call, g.token),
               entries' = [entries EXCEPT ![call.entry].grants = grants], UNCHANGED tokens
        PROVE  GrantsInv'
    <3>1. /\ tokens' \in Nat /\ tokens <= tokens'
          /\ \A h \in grants : /\ h.token <= tokens'
                               /\ h \in entries[call.entry].grants \/ h.token > tokens
      BY <1>1, <1>2, <2>5
    <3>2. /\ Tame /\ \A a \in answered : AnswerInv(a)'
          /\ (\A x \in 1..Len(entries) : OneEach(entries[x].grants) /\ Made(entries[x].grants))'
          /\ Len(entries') = Len(entries) /\ entries'[call.entry].grants = grants
      BY <1>1, <1>2, <2>2, <2>5, <3>1, GrantsWritten
    <3>3. PICK b : b = [entry |-> call.entry, session |-> call.session, token |-> g.token,
                        pruned |-> \A h \in grants : h.session \notin call.ended]
      OBVIOUS
    <3>4. answered' = answered \union {b}
      BY <2>5, <3>3 DEF Gateway!Answered
    <3>5. /\ b.pruned /\ b.entry = call.entry /\ b.session = call.session
          /\ b.token = g.token
      BY <2>3, <3>3
    <3>6. g \in grants /\ g.session = call.session
      BY <2>5 DEF Gateway!Own
    <3>7. AnswerInv(b)'
      BY <1>1, <3>2, <3>5, <3>6 DEF AnswerInv
    <3>8. QED
      BY <2>4, <3>2, <3>4, <3>7 DEF GrantsInv, Tame
  <2>6. ASSUME mine = {}, tokens' = tokens + 1,
               answered' = Gateway!Answered(grants, call, tokens'),
               entries' = [entries EXCEPT ![call.entry].grants =
                              grants \union {[token |-> tokens', session |-> call.session]}]
        PROVE  GrantsInv'
    <3>1. PICK fresh : fresh = [token |-> tokens', session |-> call.session]
      OBVIOUS
    <3>2. /\ fresh \in Grants /\ fresh.token = tokens + 1 /\ fresh.session = call.session
      BY <1>1, <2>6, <3>1 DEF Grants, Calls
    <3>3. PICK more : more = grants \union {fresh}
      OBVIOUS
    <3>4. \A g \in grants : g.session # call.session
      BY <2>6 DEF Gateway!Own
    <3>5. OneEach(more)
      BY <1>1, <1>2, <3>2, <3>3, <3>4 DEF OneEach
    <3>6. entries' = [entries EXCEPT ![call.entry].grants = more]
      BY <2>6, <3>1, <3>3
    <3>7. /\ more \in SUBSET Grants /\ tokens' \in Nat /\ tokens <= tokens'
          /\ \A g \in more : /\ g.token <= tokens'
                             /\ g \in entries[call.entry].grants \/ g.token > tokens
          /\ \A g \in entries[call.entry].grants : g \in more \/ g.session \notin signedIn
      BY <1>1, <1>2, <2>6, <3>2, <3>3
    <3>8. /\ Tame /\ \A a \in answered : AnswerInv(a)'
          /\ (\A x \in 1..Len(entries) : OneEach(entries[x].grants) /\ Made(entries[x].grants))'
          /\ Len(entries') = Len(entries) /\ entries'[call.entry].grants = more
      BY <1>1, <2>2, <3>5, <3>6, <3>7, GrantsWritten
    <3>9. PICK b : b = [entry |-> call.entry, session |-> call.session, token |-> tokens',
                        pruned |-> \A h \in grants : h.session \notin call.ended]
      OBVIOUS
    <3>10. answered' = answered \union {b}
      BY <2>6, <3>9 DEF Gateway!Answered
    <3>11. /\ b.pruned /\ b.entry = call.entry /\ b.session = call.session
           /\ b.token = fresh.token /\ fresh \in more
      BY <2>3, <2>6, <3>2, <3>3, <3>9
    <3>12. AnswerInv(b)'
      BY <1>1, <3>2, <3>8, <3>11 DEF AnswerInv
    <3>13. QED
      BY <2>4, <3>8, <3>10, <3>12 DEF GrantsInv, Tame
  <2>7. QED
    BY <1>4, <2>5, <2>6 DEF Gateway!GoesOn
<1>5. QED
  BY <1>3, <1>4

\* What was asked about the session of the request, or of a grant, is answered.
LEMMA SessionAnsweredKeeps ==
    ASSUME NoGrantAssumption, GrantsInv, NEW i \in Issuers, Gateway!SessionAnswered(i)
    PROVE  GrantsInv'
<1>1. PICK call \in Calls : call = issuing[i] /\ CallInv(call)
  BY DEF Gateway!SessionAnswered, GrantsInv, GatewayTypes
<1> DEFINE grants == entries[call.entry].grants
           subject == IF call.about = None THEN call.session ELSE call.about.session
<1>2. PICK live \in Gateway!Answers(call.was, subject) :
          IF call.about = None /\ ~live
          THEN /\ issuing' = [issuing EXCEPT ![i] = None]
               /\ UNCHANGED <<entries, tokens, answered>>
          ELSE Gateway!GoesOn(i, call, IF live THEN grants ELSE grants \ {call.about})
  BY <1>1 DEF Gateway!SessionAnswered
<1>3. /\ UNCHANGED signedIn /\ GatewayTypes /\ issuing[i] # None
      /\ call.entry \in 1..Len(entries) /\ entries \in Seq(Entries)
  BY <1>1 DEF Gateway!SessionAnswered, GrantsInv, GatewayTypes, CallInv
<1> entries[call.entry] \in Entries
  BY <1>3
<1> grants \in SUBSET Grants
  BY DEF Entries
<1>4. /\ live => subject \in signedIn \/ call.was
      /\ ~live => subject \notin signedIn
  BY <1>2 DEF Gateway!Answers
<1>5. CASE call.about = None /\ ~live
  <2>1. /\ issuing' = [issuing EXCEPT ![i] = None]
        /\ UNCHANGED <<entries, tokens, answered>>
    BY <1>2, <1>5
  <2>2. /\ issuing' \in [Issuers -> Calls \union {None}]
        /\ \A j \in Issuers : issuing'[j] # None => issuing'[j] = issuing[j]
    BY <1>3, <2>1 DEF GatewayTypes
  <2>3. QED
    BY <1>3, <2>1, <2>2, GrantsSame
<1>6. CASE call.about # None \/ live
  <2>1. call.session \notin call.ended
    BY <1>1, <1>4, <1>6 DEF CallInv
  <2>2. CASE live
    <3>1. Gateway!GoesOn(i, call, grants)
      BY <1>2, <2>2
    <3>2. \A g \in call.looked : g \in grants => g.session \notin call.ended
      BY <1>1, <1>4, <2>2 DEF CallInv
    <3> HIDE DEF grants
    <3>3. grants \subseteq entries[call.entry].grants
      BY DEF grants
    <3>4. \A g \in entries[call.entry].grants : g \in grants \/ g.session \notin signedIn
      BY DEF grants
    <3>5. QED
      BY <1>1, <1>3, <2>1, <3>1, <3>2, <3>3, <3>4, RequestGoesOn
  <2>3. CASE ~live
    <3>1. Gateway!GoesOn(i, call, grants \ {call.about})
      BY <1>2, <1>6, <2>3
    <3>2. \A g \in call.looked : g \in grants \ {call.about} => g.session \notin call.ended
      BY <1>1 DEF CallInv
    <3>3. \A g \in grants : g \in grants \ {call.about} \/ g.session \notin signedIn
      BY <1>4, <1>6, <2>3
    <3>4. PICK remaining \in SUBSET Grants : remaining = grants \ {call.about}
      BY <1>3
    <3>5. QED
      BY <1>1, <1>3, <2>1, <3>1, <3>2, <3>3, <3>4, RequestGoesOn
  <2>4. QED
    BY <2>2, <2>3
<1>7. QED
  BY <1>5, <1>6

\* A request is made: its session may have ended just now.
LEMMA IssueKeeps ==
    ASSUME GrantsInv, NEW i \in Issuers, NEW s \in Sessions, Gateway!issueGrant(i, s)
    PROVE  GrantsInv'
<1>1. /\ GatewayTypes /\ entries \in Seq(Entries) /\ signedIn \subseteq Sessions
      /\ Len(entries) \in Nat /\ entries # <<>>
  BY DEF GrantsInv, GatewayTypes, Gateway!issueGrant, Gateway!Ready
<1> PICK known \in BOOLEAN : known = (s \in signedIn)
  BY Known
<1>2. known => s \in signedIn
  OBVIOUS
<1>3. PICK call : call = [entry |-> Len(entries), session |-> s, looked |-> {},
                          about |-> None, was |-> known, ended |-> Sessions \ signedIn]
  OBVIOUS
<1>4. /\ call \in Calls /\ call.entry = Len(entries) /\ call.session = s /\ call.looked = {}
      /\ call.about = None /\ call.was = known /\ call.ended = Sessions \ signedIn
  BY <1>1, <1>3 DEF Calls
<1>5. issuing' = [issuing EXCEPT ![i] = call]
  BY <1>3 DEF Gateway!issueGrant, Gateway!current
<1>6. UNCHANGED <<entries, tokens, answered>> /\ signedIn' = signedIn
  BY DEF Gateway!issueGrant
<1>7. CallInv(call)
  BY <1>1, <1>2, <1>4 DEF CallInv
<1>8. /\ issuing' \in [Issuers -> Calls \union {None}]
      /\ \A j \in Issuers : issuing'[j] # None =>
             issuing'[j] = issuing[j] \/ CallInv(issuing'[j])
  BY <1>1, <1>4, <1>5, <1>7 DEF GatewayTypes
<1>9. QED
  BY <1>6, <1>8, GrantsSame

\* The entry is taken away, with its grants.
LEMMA RevokeKeeps == ASSUME GrantsInv, Gateway!revoke PROVE GrantsInv'
<1>1. /\ GatewayTypes /\ entries \in Seq(Entries) /\ Len(entries) \in 1..Len(entries)
      /\ entries[Len(entries)] \in Entries /\ tokens \in Nat
  BY DEF GrantsInv, GatewayTypes, Gateway!revoke
<1>2. PICK gone \in Entries : /\ gone = [entries[Len(entries)] EXCEPT !.revoked = TRUE,
                                                                     !.grants = {}]
                              /\ gone.revoked /\ gone.grants = {}
  <2>1. \A x \in Entries : /\ [x EXCEPT !.revoked = TRUE, !.grants = {}] \in Entries
                           /\ [x EXCEPT !.revoked = TRUE, !.grants = {}].revoked
                           /\ [x EXCEPT !.revoked = TRUE, !.grants = {}].grants = {}
    BY DEF Entries
  <2>2. QED
    BY <1>1, <2>1
<1>3. /\ entries' = [entries EXCEPT ![Len(entries)] = gone]
      /\ UNCHANGED <<signedIn, tokens, issuing, answered>>
  BY <1>2 DEF Gateway!revoke, Gateway!current
<1>4. /\ entries' \in Seq(Entries) /\ Len(entries') = Len(entries)
      /\ entries'[Len(entries)] = gone
      /\ \A x \in 1..Len(entries) : x # Len(entries) => entries'[x] = entries[x]
  BY <1>1, <1>3
<1>5. Tame
  BY <1>1, <1>2, <1>3, <1>4 DEF Tame, GatewayTypes
<1>6. \A x \in 1..Len(entries) : OneEach(entries[x].grants)' /\ Made(entries[x].grants)'
  BY <1>2, <1>3, <1>4 DEF GrantsInv, OneEach, Made
<1>7. \A i \in Issuers : issuing'[i] # None => CallInv(issuing[i])'
  <2>1. \A c \in Calls : CallInv(c) => CallInv(c)'
    BY <1>5, CallKept
  <2>2. QED
    BY <1>1, <1>3, <2>1 DEF GrantsInv, GatewayTypes
<1>8. \A a \in answered : AnswerInv(a)'
  BY <1>1, <1>2, <1>3, <1>4 DEF GrantsInv, AnswerInv
<1>9. QED
  BY <1>1, <1>3, <1>4, <1>5, <1>6, <1>7, <1>8 DEF GrantsInv, Tame

\* A new entry takes the place of the one before: what was answered was for that one.
LEMMA RegisterKeeps == ASSUME GrantsInv, Gateway!register PROVE GrantsInv'
<1>1. /\ GatewayTypes /\ entries \in Seq(Entries) /\ Len(entries) \in Nat /\ tokens \in Nat
      /\ DOMAIN entries = 1..Len(entries)
      /\ UNCHANGED <<signedIn, tokens, issuing, answered>>
  BY DEF GrantsInv, GatewayTypes, Gateway!register
<1>2. PICK box \in Sandboxes :
         entries' = Append([e \in DOMAIN entries |->
                              IF e = Len(entries) /\ entries[e].sandbox # box
                              THEN [entries[e] EXCEPT !.revoked = TRUE] ELSE entries[e]],
                           [sandbox |-> box, revoked |-> FALSE, grants |-> {}])
  BY DEF Gateway!register, Gateway!current
<1> DEFINE old == [e \in DOMAIN entries |->
                     IF e = Len(entries) /\ entries[e].sandbox # box
                     THEN [entries[e] EXCEPT !.revoked = TRUE] ELSE entries[e]]
           fresh == [sandbox |-> box, revoked |-> FALSE, grants |-> {}]
<1>3. \A x \in 1..Len(entries) : old[x] \in Entries /\ old[x].grants = entries[x].grants
  <2> TAKE x \in 1..Len(entries)
  <2>1. entries[x] \in Entries
    BY <1>1
  <2>2. /\ [entries[x] EXCEPT !.revoked = TRUE] \in Entries
        /\ [entries[x] EXCEPT !.revoked = TRUE].grants = entries[x].grants
    BY <2>1 DEF Entries
  <2>3. QED
    BY <1>1, <2>1, <2>2
<1>4. old \in Seq(Entries) /\ Len(old) = Len(entries) /\ fresh \in Entries /\ fresh.grants = {}
  BY <1>1, <1>3 DEF Entries
<1> HIDE DEF old, fresh
<1>5. entries' = Append(old, fresh)
  BY <1>2 DEF old, fresh
<1>6. /\ entries' \in Seq(Entries) /\ Len(entries') = Len(entries) + 1
      /\ \A x \in 1..Len(entries) : entries'[x].grants = entries[x].grants
      /\ entries'[Len(entries) + 1].grants = {}
  BY <1>1, <1>3, <1>4, <1>5
<1>7. Tame
  BY <1>1, <1>6 DEF Tame, GatewayTypes
<1>8. \A x \in 1..(Len(entries) + 1) : OneEach(entries[x].grants)' /\ Made(entries[x].grants)'
  <2> TAKE x \in 1..(Len(entries) + 1)
  <2>1. CASE x = Len(entries) + 1
    BY <1>6, <2>1 DEF OneEach, Made
  <2>2. CASE x \in 1..Len(entries)
    BY <1>1, <1>6, <2>2 DEF GrantsInv, OneEach, Made
  <2>3. QED
    BY <1>1, <2>1, <2>2
<1>9. \A i \in Issuers : issuing'[i] # None => CallInv(issuing[i])'
  <2>1. \A c \in Calls : CallInv(c) => CallInv(c)'
    BY <1>7, CallKept
  <2>2. QED
    BY <1>1, <2>1 DEF GrantsInv, GatewayTypes
<1>10. \A a \in answered : AnswerInv(a)'
  BY <1>1, <1>6 DEF GrantsInv, AnswerInv
<1>11. QED
  BY <1>1, <1>6, <1>7, <1>8, <1>9, <1>10 DEF GrantsInv, Tame

\* A browser gives its cookie up: nobody is promised that grant any more.
LEMMA ClearKeeps ==
    ASSUME GrantsInv, NEW s \in Sessions, Gateway!Clear(s) PROVE GrantsInv'
<1>1. /\ GatewayTypes /\ entries \in Seq(Entries) /\ Len(entries) \in Nat /\ tokens \in Nat
      /\ UNCHANGED <<signedIn, tokens, issuing>>
      /\ answered' = {g \in answered : g.token # cookie[s]}
  BY DEF GrantsInv, GatewayTypes, Gateway!Clear
<1>2. CASE entries = <<>>
  <2>1. entries' = entries
    BY <1>2 DEF Gateway!Clear
  <2>2. Tame
    BY <1>1, <2>1 DEF Tame, GatewayTypes
  <2>3. \A i \in Issuers : issuing'[i] # None => CallInv(issuing[i])'
    <3>1. \A c \in Calls : CallInv(c) => CallInv(c)'
      BY <2>2, CallKept
    <3>2. QED
      BY <1>1, <3>1 DEF GrantsInv, GatewayTypes
  <2>4. \A a \in answered' : AnswerInv(a)'
    BY <1>1, <2>1 DEF GrantsInv, AnswerInv
  <2>5. QED
    BY <1>1, <2>1, <2>2, <2>3, <2>4 DEF GrantsInv, Tame, Made
<1>3. CASE entries # <<>>
  <2>1. Len(entries) \in 1..Len(entries) /\ entries[Len(entries)] \in Entries
    BY <1>1, <1>3
  <2>2. PICK grants \in SUBSET Grants :
            grants = entries[Len(entries)].grants
                        \ {g \in entries[Len(entries)].grants : g.token = cookie[s]}
    BY <2>1 DEF Entries
  <2>3. entries' = [entries EXCEPT ![Len(entries)].grants = grants]
    BY <1>3, <2>2 DEF Gateway!Clear, Gateway!Grant, Gateway!current
  <2>4. /\ entries' \in Seq(Entries) /\ Len(entries') = Len(entries)
        /\ entries'[Len(entries)].grants = grants
        /\ \A x \in 1..Len(entries) : /\ entries'[x].revoked = entries[x].revoked
                                      /\ x # Len(entries) => entries'[x] = entries[x]
    BY <1>1, <2>1, <2>3, SetGrants
  <2>5. \A x \in 1..Len(entries) : entries'[x].grants \subseteq entries[x].grants
    BY <2>2, <2>4
  <2>6. Tame
    BY <1>1, <2>4, <2>5 DEF Tame, GatewayTypes
  <2>7. \A x \in 1..Len(entries) : OneEach(entries[x].grants)' /\ Made(entries[x].grants)'
    BY <1>1, <2>4, <2>5 DEF GrantsInv, OneEach, Made
  <2>8. \A i \in Issuers : issuing'[i] # None => CallInv(issuing[i])'
    <3>1. \A c \in Calls : CallInv(c) => CallInv(c)'
      BY <2>6, CallKept
    <3>2. QED
      BY <1>1, <3>1 DEF GrantsInv, GatewayTypes
  <2>9. ASSUME NEW a \in answered' PROVE AnswerInv(a)'
    <3>1. a \in answered /\ a.token # cookie[s] /\ AnswerInv(a)
      BY <1>1 DEF GrantsInv
    <3>2. \A g \in entries[Len(entries)].grants : g.token = a.token => g \in grants
      BY <2>2, <3>1
    <3>3. QED
      BY <1>1, <2>1, <2>4, <3>1, <3>2 DEF AnswerInv
  <2>10. QED
    BY <1>1, <2>4, <2>6, <2>7, <2>8, <2>9 DEF GrantsInv, Tame
<1>4. QED
  BY <1>2, <1>3

\* Every step keeps the grants.
LEMMA NextGrants ==
    ASSUME NoGrantAssumption, GrantsInv, Gateway!Next PROVE GrantsInv'
<1>1. GatewayTypes
  BY DEF GrantsInv
<1>2. ASSUME UNCHANGED <<entries, tokens, answered, issuing>>, signedIn' \subseteq signedIn
      PROVE  GrantsInv'
  <2>1. /\ issuing' \in [Issuers -> Calls \union {None}]
        /\ \A i \in Issuers : issuing'[i] # None => issuing'[i] = issuing[i]
    BY <1>1, <1>2 DEF GatewayTypes
  <2>2. QED
    BY <1>2, <2>1, GrantsSame
<1>3. ASSUME NEW s \in Sessions, Gateway!SignOut(s) PROVE GrantsInv'
  BY <1>2, <1>3 DEF Gateway!SignOut
<1>4. ASSUME NEW s \in Sessions, Gateway!Exchange(s) PROVE GrantsInv'
  BY <1>2, <1>4 DEF Gateway!Exchange
<1>5. CASE Gateway!renew
  BY <1>2, <1>5 DEF Gateway!renew
<1>6. CASE Gateway!Expires
  BY <1>2, <1>6 DEF Gateway!Expires
<1>7. QED
  BY <1>3, <1>4, <1>5, <1>6, ClearKeeps, RegisterKeeps, RevokeKeeps, IssueKeeps,
     SessionAnsweredKeeps DEF Gateway!Next

-----------------------------------------------------------------------------
(* What access follows, in the component of the behaviour.                   *)

AccessInv ==
    /\ part = "Client" => PrivateInv
    /\ part = "Models" => ModelsInv
    /\ part = "Gateway" => GrantsInv

\* A behaviour starts with one component's initial state.
LEMMA InitAccess == Init => AccessInv
BY InitPrivate, InitModels, InitGrants DEF Init, AccessInv

\* A component of another behaviour stays as it is.
LEMMA StutterAccess ==
    /\ UNCHANGED ClientVars /\ PrivateInv => PrivateInv'
    /\ UNCHANGED ModelsVars /\ ModelsInv => ModelsInv'
    /\ UNCHANGED GatewayVars /\ GrantsInv => GrantsInv'
<1>1. UNCHANGED ClientVars /\ PrivateInv => PrivateInv'
  BY SnapshotKept DEF ClientVars, Client!snapshot
<1>2. UNCHANGED ModelsVars /\ ModelsInv => ModelsInv'
  <2> SUFFICES ASSUME UNCHANGED ModelsVars, ModelsInv PROVE ModelsInv'
    OBVIOUS
  <2>1. TestInv'
    BY DEF ModelsVars, ModelsInv, TestInv
  <2>2. QED
    BY <2>1, RowsSame DEF ModelsVars, ModelsInv, ModelTypes
<1>3. UNCHANGED GatewayVars /\ GrantsInv => GrantsInv'
  BY GrantsSame DEF GatewayVars, GrantsInv, GatewayTypes
<1>4. QED
  BY <1>1, <1>2, <1>3

\* A step is one of the behaviour's component.
LEMMA NextAccess == ASSUME NoGrantAssumption, AccessInv, [Next]_vars PROVE AccessInv'
<1>1. CASE Next
  BY <1>1, NextPrivate, NextModels, NextGrants DEF Next, AccessInv
<1>2. CASE UNCHANGED vars
  BY <1>2, StutterAccess DEF vars, AccessInv
<1>3. QED
  BY <1>1, <1>2

\* A page never shows what was loaded for another user; an accepted run can open the key of
\* its version, whose connection was tested, and a deleted profile keeps no other key; a
\* session has one grant, and the one it was answered is there while it may be used.
THEOREM AccessKept == Spec => []AccessIsKept
<1>1. AccessInv => AccessIsKept
  BY ModelsProperty, GrantsProperty DEF AccessInv, AccessIsKept, PrivateInv
<1>2. AccessInv /\ [Next]_vars => AccessInv'
  BY NoGrantAssumption, NextAccess
<1>3. QED
  BY <1>1, <1>2, InitAccess, PTL DEF Spec

-----------------------------------------------------------------------------
(* ReviewLoop: what a receipt says of what is still to be checked.           *)

Receipts(behaviors) ==
    [items : [behaviors -> {"passed", "failed", "blocked"}],
     marker : BOOLEAN, incomplete : BOOLEAN, infrastructure : BOOLEAN, shown : BOOLEAN]
LoopKinds == {"queue", "review", "prepare", "scripted", "model", "verify", "receipt", "finish", "done"}
\* A receipt is about exactly what no saved continuation passed; a verdict ends the loop.
LoopInv ==
    /\ loopAt \in LoopKinds /\ ledger \subseteq LoopBehaviors
    /\ loopAt \in {"scripted", "model", "verify", "receipt", "finish"} =>
          loopReceipt \in Receipts(LoopBehaviors \ ledger)
    /\ verdict \in {"none", "passed", "failed", "blocked", "error"}
    /\ loopAt # "done" => verdict = "none"
    /\ Loop!AcceptedIsWhole

\* Nothing is checked at first.
LEMMA InitLoop == (part = "Loop" /\ Loop!Init) => LoopInv
BY DEF Loop!Init, LoopInv, LoopKinds, Loop!AcceptedIsWhole

\* A session under way: what it hands on is a receipt for what is pending.
LEMMA SessionKeeps ==
    ASSUME LoopInv,
           \/ Loop!queueReviewer \/ Loop!Admit \/ Loop!Prepare \/ Loop!RunScripted
           \/ Loop!RunModel \/ Loop!VerifyVersion \/ Loop!Interrupt
    PROVE  LoopInv'
<1>1. /\ loopAt # "done" /\ verdict = "none" /\ UNCHANGED <<ledger, verdict>>
      /\ loopAt' \in LoopKinds \ {"done"}
  BY DEF LoopInv, LoopKinds, Loop!queueReviewer, Loop!Admit, Loop!Prepare, Loop!RunScripted,
         Loop!RunModel, Loop!VerifyVersion, Loop!Interrupt, Loop!Keep, Loop!SessionKinds
<1>2. loopAt' \in {"scripted", "model", "verify", "receipt", "finish"} =>
          loopReceipt' \in Receipts(LoopBehaviors \ ledger)
  <2>1. CASE Loop!queueReviewer \/ Loop!Admit
    BY <2>1 DEF Loop!queueReviewer, Loop!Admit
  <2>2. CASE Loop!Prepare \/ Loop!Interrupt
    <3>1. PICK inc \in BOOLEAN, infra \in BOOLEAN :
             loopReceipt' = [items |-> [b \in LoopBehaviors \ ledger |-> "blocked"], marker |-> FALSE,
                             incomplete |-> inc, infrastructure |-> infra, shown |-> TRUE]
      BY <2>2 DEF Loop!Prepare, Loop!Interrupt, Loop!Receipt, Loop!pending
    <3>2. [b \in LoopBehaviors \ ledger |-> "blocked"]
             \in [LoopBehaviors \ ledger -> {"passed", "failed", "blocked"}]
      OBVIOUS
    <3>3. QED
      BY <3>1, <3>2 DEF Receipts
  <2>3. CASE Loop!RunScripted \/ Loop!RunModel
    <3>1. loopReceipt \in Receipts(LoopBehaviors \ ledger)
      BY <2>3 DEF LoopInv, Loop!RunScripted, Loop!RunModel
    <3>2. CASE loopReceipt' = loopReceipt
      BY <3>1, <3>2
    <3>3. CASE Loop!Reported
      <4>1. PICK i \in [LoopBehaviors \ ledger -> {"passed", "failed", "blocked"}],
                 inc \in BOOLEAN, cited \in BOOLEAN :
               loopReceipt' = [loopReceipt EXCEPT !.items = i, !.incomplete = @ \/ inc, !.shown = cited]
        BY <3>3 DEF Loop!Reported, Loop!pending
      <4>2. (loopReceipt.incomplete \/ inc) \in BOOLEAN
        BY <3>1 DEF Receipts
      <4>3. QED
        BY <3>1, <4>1, <4>2 DEF Receipts
    <3>4. QED
      BY <2>3, <3>2, <3>3 DEF Loop!RunScripted, Loop!RunModel
  <2>4. CASE Loop!VerifyVersion
    BY <2>4 DEF LoopInv, Loop!VerifyVersion, Receipts
  <2>5. QED
    BY <2>1, <2>2, <2>3, <2>4
<1>3. QED
  BY <1>1, <1>2 DEF LoopInv, LoopKinds, Loop!AcceptedIsWhole

\* After a receipt: another session, with what passed in the ledger, or the end.
LEMMA RouteKeeps ==
    ASSUME LoopInv,
           \/ Loop!Throw \/ Loop!retryReviewer \/ Loop!continueReviewer \/ Loop!Leave
           \/ Loop!WindowEnds \/ Loop!Repair
    PROVE  LoopInv'
<1>1. CASE Loop!Throw
  BY <1>1 DEF LoopInv, LoopKinds, Loop!Throw, Loop!AcceptedIsWhole
<1>2. CASE Loop!retryReviewer
  BY <1>2 DEF LoopInv, LoopKinds, Loop!retryReviewer, Loop!AcceptedIsWhole
<1>3. CASE Loop!continueReviewer
  <2>1. loopReceipt \in Receipts(LoopBehaviors \ ledger)
    BY <1>3 DEF LoopInv, Loop!continueReviewer
  <2>2. Loop!passedIn(loopReceipt.items) \subseteq LoopBehaviors
    BY <2>1 DEF Loop!passedIn, Receipts
  <2>3. ledger' \subseteq LoopBehaviors
    BY <1>3, <2>2 DEF LoopInv, Loop!continueReviewer
  <2>4. QED
    BY <1>3, <2>3 DEF LoopInv, LoopKinds, Loop!continueReviewer, Loop!AcceptedIsWhole
<1>4. CASE Loop!Leave
  BY <1>4 DEF LoopInv, LoopKinds, Loop!Leave, Loop!AcceptedIsWhole
<1>5. CASE Loop!WindowEnds
  BY <1>5 DEF LoopInv, LoopKinds, Loop!WindowEnds, Loop!AcceptedIsWhole
<1>6. CASE Loop!Repair
  BY <1>6 DEF LoopInv, LoopKinds, Loop!Repair, Loop!AcceptedIsWhole
<1>7. QED
  BY <1>1, <1>2, <1>3, <1>4, <1>5, <1>6

\* The verdict is read off the ledger and the last receipt.
LEMMA VerdictKeeps == ASSUME LoopInv, Loop!finishReview PROVE LoopInv'
<1>1. /\ loopReceipt \in Receipts(LoopBehaviors \ ledger) /\ verdict' = Loop!Outcome
      /\ loopReceipt.shown /\ loopAt' = "done"
      /\ UNCHANGED <<ledger, loopReceipt, loopLate>>
  BY DEF LoopInv, Loop!finishReview, Loop!Supported
<1>2. verdict' \in {"passed", "failed", "blocked"}
  BY <1>1 DEF Loop!Outcome
<1>3. ASSUME Loop!Outcome = "passed"
      PROVE  /\ loopReceipt.marker /\ ~loopReceipt.incomplete /\ ~loopLate
             /\ \A b \in LoopRequired : b \in ledger \/ loopReceipt.items[b] = "passed"
  <2>1. /\ loopReceipt.marker /\ ~loopReceipt.incomplete /\ ~loopLate
        /\ \A b \in LoopRequired : Loop!result[b] \notin {"blocked", "failed"}
    BY <1>3 DEF Loop!Outcome
  <2>2. ASSUME NEW b \in LoopRequired, b \notin ledger PROVE loopReceipt.items[b] = "passed"
    <3>1. b \in LoopBehaviors \ ledger
      BY <2>2, PlanAssumption
    <3>2. loopReceipt.items[b] \in {"passed", "failed", "blocked"}
      BY <1>1, <3>1 DEF Receipts
    <3>3. Loop!result[b] = loopReceipt.items[b]
      BY <3>1 DEF Loop!result
    <3>4. QED
      BY <2>1, <3>2, <3>3
  <2>3. QED
    BY <2>1, <2>2
<1>4. Loop!AcceptedIsWhole'
  BY <1>1, <1>3 DEF Loop!AcceptedIsWhole
<1>5. QED
  BY <1>1, <1>2, <1>4 DEF LoopInv, LoopKinds

\* Every step of the loop keeps the invariant.
LEMMA NextLoop == ASSUME LoopInv, Loop!Next PROVE LoopInv'
BY SessionKeeps, RouteKeeps, VerdictKeeps DEF Loop!Next
LEMMA LoopSame == UNCHANGED LoopVars /\ LoopInv => LoopInv'
BY DEF LoopVars, LoopInv, Loop!AcceptedIsWhole

-----------------------------------------------------------------------------
(* CheckSession: a result, and the source and the browser it was found with. *)

CheckInv ==
    /\ source \in {"bound", "changed"}
    /\ checkAt \in {"admit", "connect", "renew", "renewing", "verify", "work"} => checkResult # "found"
    /\ checkAt \in {"work", "renewing", "verifyAgain"} => connected = TRUE /\ checkChrome = "open"
    /\ checkAt \in {"verify", "renew"} => connected = TRUE
    \* A source that is bound was bound when the result was found.
    /\ checkAt = "verifyAgain" => basis \in {"bound", "changed"} /\ (source = "bound" => basis = "bound")
    /\ checkAt \in {"close", "release", "confirm", "done"} /\ failure # "thrown" /\ checkResult = "found" =>
          /\ checkMarker /\ basis = "bound"
          /\ IF checkAt = "close" THEN connected /\ checkChrome = "open" ELSE checkChrome = "closed"
    /\ checkReceipt = "found" => checkAt = "done" /\ failure # "thrown" /\ checkResult = "found"

\* Nothing is found at first.
LEMMA InitCheck == (part = "Check" /\ Check!Init) => CheckInv
BY NoNameAssumption DEF Check!Init, CheckInv

\* The clocks, and what the run and the sandbox do meanwhile.
LEMMA ClockKeeps ==
    ASSUME CheckInv, Check!WorkTimer \/ Check!DeadlineTimer \/ Check!Meanwhile PROVE CheckInv'
<1>1. /\ source' \in {source, "changed"}
      /\ UNCHANGED <<checkAt, connected, checkChrome, checkResult, checkMarker, failure, basis, checkReceipt>>
  BY DEF Check!WorkTimer, Check!DeadlineTimer, Check!Meanwhile, Check!found
<1>2. QED
  BY <1>1 DEF CheckInv

\* Before there is a result.
LEMMA WorkingKeeps ==
    ASSUME CheckInv,
           \/ Check!Admit \/ Check!Connect \/ Check!Event \/ Check!verifyVersion \/ Check!saveScreenshot
           \/ Check!ensureLease("renew", "verify") \/ Check!ensureLease("renewing", "work")
    PROVE  CheckInv'
<1>1. CASE Check!Admit
  BY <1>1 DEF CheckInv, Check!Admit, Check!Rest
<1>2. CASE Check!Connect
  BY <1>2 DEF CheckInv, Check!Connect, Check!Rest, Check!found
<1>3. CASE Check!Event
  BY <1>3 DEF CheckInv, Check!Event, Check!Rest, Check!found
<1>4. CASE Check!verifyVersion
  BY <1>4 DEF CheckInv, Check!verifyVersion, Check!Rest, Check!found
<1>5. CASE Check!saveScreenshot
  BY <1>5 DEF CheckInv, Check!saveScreenshot, Check!Rest, Check!found
<1>6. CASE Check!ensureLease("renew", "verify") \/ Check!ensureLease("renewing", "work")
  BY <1>6 DEF CheckInv, Check!ensureLease, Check!Rest, Check!found
<1>7. QED
  BY <1>1, <1>2, <1>3, <1>4, <1>5, <1>6

\* An operation that fails, and what is made of it.
LEMMA FailureKeeps ==
    ASSUME CheckInv,
           \/ \E op \in Check!Operations, why \in {"signal", "remote", "passedOn"} : Check!Fails(op, why)
           \/ Check!Catch
    PROVE  CheckInv'
<1>1. CASE \E op \in Check!Operations, why \in {"signal", "remote", "passedOn"} : Check!Fails(op, why)
  BY <1>1 DEF CheckInv, Check!Operations, Check!Fails, Check!Rest, Check!found
<1>2. CASE Check!Catch
  BY <1>2 DEF CheckInv, Check!Catch, Check!Rest
<1>3. QED
  BY <1>1, <1>2

\* The result, the second look at the source, the close and the receipt.
LEMMA ResultKeeps ==
    ASSUME CheckInv,
           \/ Check!Work \/ Check!verifyAgain \/ Check!Close \/ Check!Release \/ Check!Confirm
    PROVE  CheckInv'
<1>1. CASE Check!Work
  BY <1>1 DEF CheckInv, Check!Work, Check!Rest
<1>2. CASE Check!verifyAgain
  BY <1>2 DEF CheckInv, Check!verifyAgain, Check!Rest
<1>3. CASE Check!Close
  BY <1>3 DEF CheckInv, Check!Close, Check!Rest, Check!found
<1>4. CASE Check!Release
  BY <1>4 DEF CheckInv, Check!Release, Check!Rest, Check!found
<1>5. CASE Check!Confirm
  BY <1>5 DEF CheckInv, Check!Confirm, Check!clock, Check!found
<1>6. QED
  BY <1>1, <1>2, <1>3, <1>4, <1>5

\* Every step of a check keeps the invariant.
LEMMA NextCheck == ASSUME CheckInv, Check!Next PROVE CheckInv'
<1>1. ASSUME \E op \in Check!Operations :
                \/ Check!Fails(op, "signal")
                \/ op # "renew" /\ Check!Fails(op, "remote")
                \/ op \in {"admit", "verify", "work", "verifyAgain"} /\ Check!Fails(op, "passedOn")
      PROVE  \E op \in Check!Operations, why \in {"signal", "remote", "passedOn"} : Check!Fails(op, why)
  BY <1>1
<1>2. QED
  BY <1>1, ClockKeeps, WorkingKeeps, FailureKeeps, ResultKeeps DEF Check!Next
LEMMA CheckProperty == ASSUME CheckInv PROVE Check!FoundIsBound
BY DEF CheckInv, Check!FoundIsBound
LEMMA CheckSame == UNCHANGED CheckVars /\ CheckInv => CheckInv'
BY DEF CheckVars, CheckInv

-----------------------------------------------------------------------------
(* VerificationPrograms: what is stored for a requirement, and what a plan   *)
(* has of it.                                                                *)

Slots == ProgramBehaviors \X Programs!Requirements
Assets == [ProgramBehaviors -> ProgramNames \union {None}]
\* The slot of the requirement that a behaviour stands for now.
Slot(b) == <<b, required[b]>>
\* What was run is stored as it was run; saves on their way hold programs.
TableInv ==
    /\ required \in [ProgramBehaviors -> Programs!Requirements]
    /\ programsStored \in [Slots -> ProgramNames \union {None}]
    /\ \A l \in programsLate : l[2] \in Assets
    /\ \A x \in programsUsed :
          <<x[1], x[2]>> \in Slots /\ x[3] # None /\ programsStored[<<x[1], x[2]>>] = x[3]
\* While a role checks, a plan holds what the table holds; what it lacks has failed, is
\* asked for or is left, one of the three.
Held == \A b \in ProgramBehaviors : plan[b] # None => plan[b] = programsStored[Slot(b)]
Accounted(gone, asks, later) ==
    /\ gone \union asks \union later = Programs!missing(plan)
    /\ gone \intersect asks = {} /\ (gone \union asks) \intersect later = {}
PlanInv ==
    /\ plan \in Assets
    /\ programsActive = 0 => programsAt = "idle"
    /\ programsAt \in {"chunk", "asked", "save", "ready"} => Held
    /\ programsAt = "load" => plan = Programs!NoPlan /\ failures = {} /\ programsPending = {}
    /\ programsAt \in {"chunk", "asked", "save"} => Accounted(failures, programsPending, rest)
    /\ programsAt = "ready" => failures = Programs!missing(plan)
    /\ programsAt = "save" =>
          reply \in Assets /\ \A b \in ProgramBehaviors : reply[b] # None => b \in programsPending
ProgramsInv == TableInv /\ programsSession \in Nat /\ PlanInv

\* Nothing is stored or planned at first.
LEMMA InitPrograms == (part = "Programs" /\ Programs!Init) => ProgramsInv
<1> SUFFICES ASSUME Programs!Init PROVE ProgramsInv
  OBVIOUS
<1>1. TableInv
  BY SizesAssumption DEF Programs!Init, TableInv, Programs!Requirements, Slots
<1>2. PlanInv /\ programsSession \in Nat
  BY DEF Programs!Init, PlanInv, Programs!NoPlan, Assets
<1>3. QED
  BY <1>1, <1>2 DEF ProgramsInv

\* An insert fills what is empty, and only for the requirements of now.
LEMMA Inserting ==
    ASSUME TableInv, NEW assets \in Assets
    PROVE  /\ Programs!Inserted(assets) \in [Slots -> ProgramNames \union {None}]
           /\ \A k \in Slots : programsStored[k] # None =>
                 Programs!Inserted(assets)[k] = programsStored[k]
           /\ \A b \in ProgramBehaviors :
                 /\ Slot(b) \in Slots
                 /\ Programs!Inserted(assets)[Slot(b)] =
                       IF programsStored[Slot(b)] = None THEN assets[b] ELSE programsStored[Slot(b)]
<1>1. \A k \in Slots : k[1] \in ProgramBehaviors
  BY DEF Slots
<1>2. Programs!Inserted(assets) \in [Slots -> ProgramNames \union {None}]
  BY <1>1 DEF TableInv, Assets, Programs!Inserted, Slots
<1>3. \A k \in Slots : Programs!Inserted(assets)[k] =
         IF k[2] = required[k[1]] /\ programsStored[k] = None THEN assets[k[1]] ELSE programsStored[k]
  BY DEF Programs!Inserted, Programs!verificationRequirementHash, Slots
<1>4. \A b \in ProgramBehaviors : Slot(b) \in Slots /\ Slot(b)[1] = b /\ Slot(b)[2] = required[b]
  BY DEF TableInv, Slots, Slot
<1>5. QED
  BY <1>2, <1>3, <1>4

\* A table that keeps what it holds keeps what was run and what is planned.
LEMMA TableGrows ==
    ASSUME TableInv, UNCHANGED <<required, programsUsed>>,
           programsStored' \in [Slots -> ProgramNames \union {None}],
           \A k \in Slots : programsStored[k] # None => programsStored'[k] = programsStored[k],
           \A l \in programsLate' : l[2] \in Assets
    PROVE  TableInv' /\ (plan \in Assets /\ Held /\ plan' = plan => Held')
<1>1. \A x \in programsUsed : programsStored'[<<x[1], x[2]>>] = x[3]
  BY DEF TableInv
<1>2. TableInv'
  BY <1>1 DEF TableInv, Slots, Programs!Requirements
<1>3. ASSUME Held, plan' = plan PROVE Held'
  <2>1. \A b \in ProgramBehaviors : Slot(b)' = Slot(b) /\ Slot(b) \in Slots
    BY DEF TableInv, Slot, Slots
  <2>2. ASSUME NEW b \in ProgramBehaviors, plan[b] # None PROVE plan[b] = programsStored'[Slot(b)]
    <3>1. plan[b] = programsStored[Slot(b)]
      BY <1>3, <2>2 DEF Held
    <3>2. QED
      BY <2>1, <2>2, <3>1
  <2>3. QED
    BY <1>3, <2>1, <2>2 DEF Held
<1>4. QED
  BY <1>2, <1>3

\* Between two sessions a requirement changes; a session begins and ends.
LEMMA RolesKeep ==
    ASSUME ProgramsInv,
           \/ \E b \in ProgramBehaviors : Programs!Revise(b)
           \/ Programs!startReviewer \/ Programs!finishRole
    PROVE  ProgramsInv'
<1>1. CASE \E b \in ProgramBehaviors : Programs!Revise(b)
  <2>1. PICK b \in ProgramBehaviors : Programs!Revise(b)
    BY <1>1
  <2>2. /\ programsAt = "idle" /\ required' = [required EXCEPT ![b] = @ + 1] /\ required[b] < ProgramRevised
        /\ UNCHANGED <<programsStored, programsActive, programsSession, programsAt, plan, programsLate,
                       programsUsed>>
    BY <2>1 DEF Programs!Revise, Programs!work, ProgramsInv, PlanInv
  <2>3. required[b] + 1 \in Programs!Requirements
    BY <2>2, SizesAssumption DEF ProgramsInv, TableInv, Programs!Requirements
  <2>4. required' \in [ProgramBehaviors -> Programs!Requirements]
    BY <2>2, <2>3 DEF ProgramsInv, TableInv
  <2>5. TableInv'
    BY <2>2, <2>4 DEF ProgramsInv, TableInv, Slots, Programs!Requirements
  <2>6. PlanInv' /\ programsSession' \in Nat
    BY <2>2 DEF ProgramsInv, PlanInv
  <2>7. QED
    BY <2>5, <2>6 DEF ProgramsInv
<1>2. CASE Programs!startReviewer
  <2>1. /\ programsActive' = programsSession + 1 /\ programsSession' = programsSession + 1
        /\ programsAt' = "load" /\ plan' = Programs!NoPlan /\ failures' = {} /\ programsPending' = {}
        /\ UNCHANGED <<required, programsStored, programsLate, programsUsed>>
    BY <1>2 DEF Programs!startReviewer, Programs!table
  <2>2. TableInv'
    BY <2>1 DEF ProgramsInv, TableInv, Slots, Programs!Requirements
  <2>3. programsSession' \in Nat /\ programsActive' # 0
    BY <2>1 DEF ProgramsInv
  <2>4. plan' \in Assets /\ plan' = Programs!NoPlan'
    BY <2>1 DEF Assets, Programs!NoPlan
  <2>5. PlanInv'
    BY <2>1, <2>3, <2>4 DEF PlanInv
  <2>6. QED
    BY <2>2, <2>3, <2>5 DEF ProgramsInv
<1>3. CASE Programs!finishRole
  <2>1. /\ programsAt' = "idle"
        /\ UNCHANGED <<required, programsStored, programsSession, plan, programsLate, programsUsed>>
    BY <1>3 DEF Programs!finishRole, Programs!table, Programs!work
  <2>2. TableInv' /\ PlanInv' /\ programsSession' \in Nat
    BY <2>1 DEF ProgramsInv, TableInv, PlanInv, Slots, Programs!Requirements
  <2>3. QED
    BY <2>2 DEF ProgramsInv
<1>4. QED
  BY <1>1, <1>2, <1>3

\* What the table holds is taken over.
LEMMA LoadKeeps == ASSUME ProgramsInv, Programs!Load PROVE ProgramsInv'
<1>1. /\ programsAt = "load" /\ plan' = Programs!applied(Programs!loadPrograms) /\ rest' = Programs!missing(plan')
      /\ programsAt' = IF Programs!missing(plan') = {} THEN "ready" ELSE "chunk"
      /\ UNCHANGED <<required, programsStored, programsActive, programsSession, programsPending, failures,
                     programsLate, programsUsed>>
  BY DEF Programs!Load, Programs!table
<1>2. /\ plan = Programs!NoPlan /\ failures = {} /\ programsPending = {} /\ programsActive # 0
      /\ plan \in Assets
  BY <1>1 DEF ProgramsInv, PlanInv
<1>3. \A b \in ProgramBehaviors : Slot(b) \in Slots /\ Programs!loadPrograms[b] = programsStored[Slot(b)]
  BY DEF ProgramsInv, TableInv, Slots, Slot, Programs!loadPrograms, Programs!verificationRequirementHash
<1>4. \A b \in ProgramBehaviors : plan'[b] = programsStored[Slot(b)]
  BY <1>1, <1>2, <1>3 DEF Programs!applied, Programs!NoPlan
<1>5. plan' \in Assets
  <2>1. plan' = [b \in ProgramBehaviors |-> plan'[b]]
    BY <1>1 DEF Programs!applied
  <2>2. \A b \in ProgramBehaviors : plan'[b] \in ProgramNames \union {None}
    BY <1>3, <1>4 DEF ProgramsInv, TableInv
  <2>3. QED
    BY <2>1, <2>2 DEF Assets
<1>6. TableInv'
  BY <1>1 DEF ProgramsInv, TableInv, Slots, Programs!Requirements
<1>7. Held'
  BY <1>1, <1>4 DEF Held, Slot
<1>8. Accounted(failures, programsPending, rest)'
  BY <1>1, <1>2 DEF Accounted, Programs!missing
<1>9. programsAt' = "ready" => failures' = Programs!missing(plan)'
  BY <1>1, <1>2 DEF Programs!missing
<1>10. PlanInv'
  BY <1>1, <1>2, <1>5, <1>7, <1>8, <1>9 DEF PlanInv, Accounted
<1>11. QED
  BY <1>1, <1>6, <1>10 DEF ProgramsInv

\* The next chunk, a request and its answer: what is pending is settled or given up.
LEMMA ChunkKeeps ==
    ASSUME ProgramsInv, Programs!NextChunk \/ Programs!Request \/ Programs!Answer PROVE ProgramsInv'
<1>1. /\ programsAt \in {"chunk", "asked"} /\ programsActive # 0
      /\ UNCHANGED <<required, programsStored, programsActive, programsSession, plan, programsLate,
                     programsUsed>>
  BY DEF Programs!NextChunk, Programs!Request, Programs!Answer, Programs!table, ProgramsInv, PlanInv
<1>2. TableInv' /\ Held' /\ programsSession' \in Nat /\ plan' \in Assets
  BY <1>1 DEF ProgramsInv, TableInv, PlanInv, Slots, Programs!Requirements, Held, Slot
<1>3. Accounted(failures, programsPending, rest)
  BY <1>1 DEF ProgramsInv, PlanInv
<1>4. Programs!missing(plan)' = Programs!missing(plan)
  BY <1>1 DEF Programs!missing
<1>5. CASE Programs!NextChunk
  <2>1. failures' = failures \union programsPending
    BY <1>5 DEF Programs!NextChunk
  <2>2. CASE rest = {}
    <3>1. programsAt' = "ready"
      BY <1>5, <2>2 DEF Programs!NextChunk
    <3>2. failures' = Programs!missing(plan)
      BY <1>3, <2>1, <2>2 DEF Accounted
    <3>3. PlanInv'
      BY <1>1, <1>2, <1>4, <3>1, <3>2 DEF PlanInv
    <3>4. QED
      BY <1>2, <3>3 DEF ProgramsInv
  <2>3. CASE rest # {}
    <3>1. /\ programsAt' = programsAt /\ programsAt = "chunk"
          /\ \E c \in SUBSET rest : programsPending' = c /\ rest' = rest \ c
      BY <1>5, <2>3 DEF Programs!NextChunk
    <3>2. Accounted(failures', programsPending', rest')
      BY <1>3, <2>1, <3>1 DEF Accounted
    <3>3. Accounted(failures, programsPending, rest)'
      BY <1>4, <3>2 DEF Accounted
    <3>4. PlanInv'
      BY <1>1, <1>2, <3>1, <3>3 DEF PlanInv
    <3>5. QED
      BY <1>2, <3>4 DEF ProgramsInv
  <2>4. QED
    BY <2>2, <2>3
<1>6. CASE Programs!Request
  <2>1. /\ programsAt' \in {"over", "asked"} /\ UNCHANGED <<programsPending, rest, failures>>
    BY <1>6 DEF Programs!Request
  <2>2. Accounted(failures, programsPending, rest)'
    BY <1>3, <1>4, <2>1 DEF Accounted
  <2>3. PlanInv'
    BY <1>1, <1>2, <2>1, <2>2 DEF PlanInv
  <2>4. QED
    BY <1>2, <2>3 DEF ProgramsInv
<1>7. CASE Programs!Answer
  <2>1. UNCHANGED <<programsPending, rest, failures>>
    BY <1>7 DEF Programs!Answer
  <2>2. Accounted(failures, programsPending, rest)'
    BY <1>3, <1>4, <2>1 DEF Accounted
  <2>3. CASE programsAt' = "chunk"
    <3>1. PlanInv'
      BY <1>1, <1>2, <2>2, <2>3 DEF PlanInv
    <3>2. QED
      BY <1>2, <3>1 DEF ProgramsInv
  <2>4. CASE programsAt' # "chunk"
    <3>1. PICK taken \in SUBSET programsPending \ {{}} : \E of \in [taken -> ProgramNames] :
            /\ programsAt' = "save"
            /\ reply' = [b \in ProgramBehaviors |-> IF b \in taken THEN of[b] ELSE None]
      BY <1>7, <2>4 DEF Programs!Answer
    <3>2. PICK of \in [taken -> ProgramNames] :
            /\ programsAt' = "save"
            /\ reply' = [b \in ProgramBehaviors |-> IF b \in taken THEN of[b] ELSE None]
      BY <3>1
    <3>3. reply' \in Assets /\ \A b \in ProgramBehaviors : reply'[b] # None => b \in programsPending'
      BY <2>1, <3>2 DEF Assets
    <3>4. PlanInv'
      BY <1>1, <1>2, <2>2, <3>2, <3>3 DEF PlanInv
    <3>5. QED
      BY <1>2, <3>4 DEF ProgramsInv
  <2>5. QED
    BY <2>3, <2>4
<1>8. QED
  BY <1>5, <1>6, <1>7

\* A chunk is stored; a program that was there already wins.
LEMMA StoreKeeps == ASSUME ProgramsInv, Programs!Save PROVE ProgramsInv'
<1> DEFINE winners == [b \in ProgramBehaviors |-> IF reply[b] = None THEN None ELSE programsStored'[Slot(b)]]
<1>1. /\ programsAt = "save" /\ programsStored' = Programs!Inserted(reply)
      /\ plan' = Programs!applied(winners)
      /\ programsPending' = {b \in programsPending : reply[b] = None} /\ programsAt' = "chunk"
      /\ UNCHANGED <<required, programsActive, programsSession, rest, failures, programsLate, programsUsed>>
  BY DEF Programs!Save, Slot, Programs!verificationRequirementHash
<1>2. /\ reply \in Assets /\ (\A b \in ProgramBehaviors : reply[b] # None => b \in programsPending)
      /\ Held /\ Accounted(failures, programsPending, rest) /\ programsActive # 0 /\ plan \in Assets
      /\ TableInv
  BY <1>1 DEF ProgramsInv, PlanInv
<1>3. /\ programsStored' \in [Slots -> ProgramNames \union {None}]
      /\ \A k \in Slots : programsStored[k] # None => programsStored'[k] = programsStored[k]
      /\ \A b \in ProgramBehaviors :
            /\ Slot(b) \in Slots
            /\ programsStored'[Slot(b)] =
                  IF programsStored[Slot(b)] = None THEN reply[b] ELSE programsStored[Slot(b)]
  BY <1>1, <1>2, Inserting
<1>4. TableInv'
  <2>1. \A l \in programsLate' : l[2] \in Assets
    BY <1>1, <1>2 DEF TableInv
  <2>2. QED
    BY <1>1, <1>2, <1>3, <2>1, TableGrows
<1>5. \A b \in ProgramBehaviors :
        plan'[b] = IF plan[b] # None \/ reply[b] = None THEN plan[b] ELSE programsStored'[Slot(b)]
  BY <1>1 DEF Programs!applied
<1>6. plan' \in Assets
  <2>1. plan' = [b \in ProgramBehaviors |-> plan'[b]]
    BY <1>1 DEF Programs!applied
  <2>2. \A b \in ProgramBehaviors : plan'[b] \in ProgramNames \union {None}
    BY <1>2, <1>3, <1>5 DEF Assets
  <2>3. QED
    BY <2>1, <2>2 DEF Assets
<1>7. Held'
  <2>1. ASSUME NEW b \in ProgramBehaviors, plan'[b] # None PROVE plan'[b] = programsStored'[Slot(b)]
    <3>1. CASE plan[b] # None
      <4>1. plan[b] = programsStored[Slot(b)]
        BY <1>2, <3>1 DEF Held
      <4>2. QED
        BY <1>3, <1>5, <3>1, <4>1
    <3>2. CASE plan[b] = None
      BY <1>5, <2>1, <3>2
    <3>3. QED
      BY <3>1, <3>2
  <2>2. QED
    BY <1>1, <2>1 DEF Held, Slot
<1>8. Programs!missing(plan)' = {b \in Programs!missing(plan) : reply[b] = None}
  <2>1. ASSUME NEW b \in ProgramBehaviors
        PROVE  plan'[b] = None <=> plan[b] = None /\ reply[b] = None
    BY <1>3, <1>5
  <2>2. QED
    BY <2>1 DEF Programs!missing
<1>9. Accounted(failures, programsPending, rest)'
  <2>1. \A b \in failures \union rest : reply[b] = None
    BY <1>2 DEF Accounted, Programs!missing
  <2>2. failures' \union programsPending' \union rest' = Programs!missing(plan)'
    BY <1>1, <1>2, <1>8, <2>1 DEF Accounted
  <2>3. failures' \intersect programsPending' = {} /\ (failures' \union programsPending') \intersect rest' = {}
    BY <1>1, <1>2 DEF Accounted
  <2>4. QED
    BY <2>2, <2>3 DEF Accounted
<1>10. PlanInv'
  BY <1>1, <1>2, <1>6, <1>7, <1>9 DEF PlanInv
<1>11. QED
  BY <1>1, <1>4, <1>10 DEF ProgramsInv

\* A session that is over; its save may still arrive; the programs are run.
LEMMA OverKeeps ==
    ASSUME ProgramsInv, Programs!GiveUp \/ Programs!LateSave \/ Programs!RunPrograms PROVE ProgramsInv'
<1>1. CASE Programs!GiveUp
  <2>1. /\ programsAt' = "over" /\ programsAt # "idle"
        /\ UNCHANGED <<required, programsStored, programsActive, programsSession, plan, programsUsed>>
        /\ programsLate' = IF programsAt = "save" THEN programsLate \union {<<programsActive, reply>>}
                           ELSE programsLate
    BY <1>1 DEF Programs!GiveUp, Programs!table
  <2>2. \A l \in programsLate' : l[2] \in Assets
    BY <2>1 DEF ProgramsInv, TableInv, PlanInv
  <2>3. TableInv' /\ PlanInv' /\ programsSession' \in Nat
    BY <2>1, <2>2 DEF ProgramsInv, TableInv, PlanInv, Slots, Programs!Requirements
  <2>4. QED
    BY <2>3 DEF ProgramsInv
<1>2. CASE Programs!LateSave
  <2>1. PICK l \in programsLate :
            /\ programsStored' \in {programsStored,
                    IF l[1] = programsActive THEN Programs!Inserted(l[2]) ELSE programsStored}
            /\ programsLate' = programsLate \ {l}
    BY <1>2 DEF Programs!LateSave
  <2>2. UNCHANGED <<required, programsActive, programsSession, programsAt, plan, programsPending, rest,
                    failures, reply, programsUsed>>
    BY <1>2 DEF Programs!LateSave, Programs!work
  <2>3. l[2] \in Assets /\ (\A m \in programsLate' : m[2] \in Assets)
    BY <2>1 DEF ProgramsInv, TableInv
  <2>4. /\ programsStored' \in [Slots -> ProgramNames \union {None}]
        /\ \A k \in Slots : programsStored[k] # None => programsStored'[k] = programsStored[k]
    <3>1. /\ Programs!Inserted(l[2]) \in [Slots -> ProgramNames \union {None}]
          /\ \A k \in Slots : programsStored[k] # None =>
                Programs!Inserted(l[2])[k] = programsStored[k]
      BY <2>3, Inserting DEF ProgramsInv
    <3>2. QED
      BY <2>1, <3>1 DEF ProgramsInv, TableInv
  <2>5. TableInv' /\ (Held => Held')
    BY <2>2, <2>3, <2>4, TableGrows DEF ProgramsInv, PlanInv
  <2>6. Programs!missing(plan)' = Programs!missing(plan) /\ Programs!NoPlan' = Programs!NoPlan
    BY <2>2 DEF Programs!missing, Programs!NoPlan
  <2>7. PlanInv'
    BY <2>2, <2>5, <2>6 DEF ProgramsInv, PlanInv, Accounted
  <2>8. QED
    BY <2>2, <2>5, <2>7 DEF ProgramsInv
<1>3. CASE Programs!RunPrograms
  <2>1. /\ programsAt = "ready" /\ programsAt' = "over"
        /\ programsUsed' = programsUsed \union
              {<<b, required[b], plan[b]>> : b \in ProgramBehaviors \ Programs!missing(plan)}
        /\ UNCHANGED <<required, programsStored, programsActive, programsSession, plan, programsLate>>
    BY <1>3 DEF Programs!RunPrograms, Programs!table, Programs!work
  <2>2. ASSUME NEW x \in programsUsed'
        PROVE  <<x[1], x[2]>> \in Slots /\ x[3] # None /\ programsStored[<<x[1], x[2]>>] = x[3]
    <3>1. CASE x \in programsUsed
      BY <3>1 DEF ProgramsInv, TableInv
    <3>2. CASE x \notin programsUsed
      <4>1. PICK b \in ProgramBehaviors \ Programs!missing(plan) : x = <<b, required[b], plan[b]>>
        BY <2>1, <2>2, <3>2
      <4>2. plan[b] # None /\ plan[b] = programsStored[<<b, required[b]>>]
        BY <2>1, <4>1 DEF ProgramsInv, PlanInv, Held, Slot, Programs!missing
      <4>3. <<b, required[b]>> \in Slots
        BY <4>1 DEF ProgramsInv, TableInv, Slots
      <4>4. QED
        BY <4>1, <4>2, <4>3
    <3>3. QED
      BY <3>1, <3>2
  <2>3. TableInv'
    BY <2>1, <2>2 DEF ProgramsInv, TableInv, Slots, Programs!Requirements
  <2>4. PlanInv' /\ programsSession' \in Nat
    BY <2>1 DEF ProgramsInv, PlanInv
  <2>5. QED
    BY <2>3, <2>4 DEF ProgramsInv
<1>4. QED
  BY <1>1, <1>2, <1>3

\* Every step keeps the invariant; one requirement is judged by one program.
LEMMA NextPrograms == ASSUME ProgramsInv, Programs!Next PROVE ProgramsInv'
BY RolesKeep, LoadKeeps, ChunkKeeps, StoreKeeps, OverKeeps DEF Programs!Next
LEMMA ProgramsProperty == ASSUME ProgramsInv PROVE Programs!JudgedAlike
BY DEF ProgramsInv, TableInv, PlanInv, Programs!JudgedAlike
LEMMA ProgramsSame == UNCHANGED ProgramsVars /\ ProgramsInv => ProgramsInv'
<1> SUFFICES ASSUME UNCHANGED ProgramsVars, ProgramsInv PROVE ProgramsInv'
  OBVIOUS
<1>1. UNCHANGED <<required, programsStored, programsActive, programsSession, programsAt, plan,
                  programsPending, rest, failures, reply, programsLate, programsUsed>>
  BY DEF ProgramsVars
<1>2. TableInv' /\ programsSession' \in Nat
  BY <1>1 DEF ProgramsInv, TableInv, Slots, Programs!Requirements
<1>3. PlanInv'
  BY <1>1 DEF ProgramsInv, PlanInv, Held, Slot, Accounted, Programs!missing, Programs!NoPlan
<1>4. QED
  BY <1>2, <1>3 DEF ProgramsInv

-----------------------------------------------------------------------------
(* ReviewSession: what an item that is returned as passed rests on.          *)

ShownBy(b, it) ==
    it.verdict = "passed" =>
        /\ \E s \in it.shots, e \in it.cites :
              /\ sessionShots[s].delivered /\ sessionShots[s].obs = evidence[e].obs
              /\ Session!validAction(e) \/ b \in RenderBehaviors
        /\ b \notin failedInput /\ ~pageError
\* A decided session makes no further call; what it decided, and what it returned, is
\* shown by what it saw.
ShownInv ==
    /\ decision # None =>
          sessionTurn \in {"tools", "idle"} /\ \A b \in ReviewBehaviors : ShownBy(b, decision[b])
    /\ Session!PassedIsShown

\* Nothing is decided at first.
LEMMA InitShown == (part = "Session" /\ Session!Init) => ShownInv
BY DEF Session!Init, ShownInv, Session!PassedIsShown

\* An item without a problem is shown, in a state and in the one after it.
LEMMA ItemShown ==
    ASSUME NEW b, NEW it, Session!itemProblem(b, it, FALSE, pageError) = "none"
    PROVE  ShownBy(b, it)
<1> SUFFICES ASSUME it.verdict = "passed" PROVE ShownBy(b, it)
  BY DEF ShownBy
<1> DEFINE actions == {e \in it.cites : Session!validAction(e)}
           shownObs == {evidence[e].obs : e \in IF actions # {} THEN actions ELSE it.cites}
<1>1. /\ b \notin failedInput /\ ~pageError
      /\ actions = {} => b \in RenderBehaviors
      /\ \E s \in it.shots : sessionShots[s].delivered /\ sessionShots[s].obs \in shownObs
  BY DEF Session!itemProblem
<1>2. PICK s \in it.shots : sessionShots[s].delivered /\ sessionShots[s].obs \in shownObs
  BY <1>1
<1>3. PICK e \in IF actions # {} THEN actions ELSE it.cites : sessionShots[s].obs = evidence[e].obs
  BY <1>2
<1>4. e \in it.cites /\ (Session!validAction(e) \/ b \in RenderBehaviors)
  BY <1>1, <1>3
<1>5. QED
  BY <1>1, <1>2, <1>3, <1>4 DEF ShownBy
LEMMA ItemShownNext ==
    ASSUME NEW CONSTANT b, NEW CONSTANT it, (Session!itemProblem(b, it, FALSE, pageError) = "none")'
    PROVE  ShownBy(b, it)'
<1> SUFFICES ASSUME it.verdict = "passed" PROVE ShownBy(b, it)'
  BY DEF ShownBy
<1> DEFINE actions == {e \in it.cites : evidence'[e].act = "input"}
           shownObs == {evidence'[e].obs : e \in IF actions # {} THEN actions ELSE it.cites}
<1>1. /\ b \notin failedInput' /\ ~pageError'
      /\ actions = {} => b \in RenderBehaviors
      /\ \E s \in it.shots : sessionShots'[s].delivered /\ sessionShots'[s].obs \in shownObs
  BY DEF Session!itemProblem, Session!validAction
<1>2. PICK s \in it.shots : sessionShots'[s].delivered /\ sessionShots'[s].obs \in shownObs
  BY <1>1
<1>3. PICK e \in IF actions # {} THEN actions ELSE it.cites : sessionShots'[s].obs = evidence'[e].obs
  BY <1>2
<1>4. e \in it.cites /\ (evidence'[e].act = "input" \/ b \in RenderBehaviors)
  BY <1>1, <1>3
<1>5. QED
  BY <1>1, <1>2, <1>3, <1>4 DEF ShownBy, Session!validAction

\* What an error leaves of the drafts is shown.
LEMMA FailingShows ==
    ASSUME NEW code, Session!fail(code) PROVE Session!PassedIsShown'
<1>1. sessionOutcome' \in Session!caught(code)'
  BY DEF Session!fail
<1>2. CASE sessionOutcome' = [kind |-> "thrown"]
  BY <1>2 DEF Session!PassedIsShown
<1>3. CASE sessionOutcome' = [kind |-> "partial", items |-> [b \in ReviewBehaviors |-> Session!kept(b)']]
  <2>1. ASSUME NEW CONSTANT b \in ReviewBehaviors PROVE ShownBy(b, Session!kept(b))'
    <3>1. CASE drafts'[b] # None /\ (Session!itemProblem(b, drafts[b], FALSE, pageError) = "none")'
      <4>1. Session!kept(b)' = drafts'[b]
        BY <3>1 DEF Session!kept
      <4>2. ShownBy(b, drafts[b])'
        BY <3>1, ItemShownNext
      <4>3. QED
        BY <4>1, <4>2 DEF ShownBy
    <3>2. CASE ~(drafts'[b] # None /\ (Session!itemProblem(b, drafts[b], FALSE, pageError) = "none")')
      BY <3>2 DEF Session!kept, ShownBy
    <3>3. QED
      BY <3>1, <3>2
  <2>2. QED
    BY <1>3, <2>1 DEF ShownBy, Session!PassedIsShown
<1>4. QED
  BY <1>1, <1>2, <1>3 DEF Session!caught, Session!Thrown

\* A call that decides nothing, and fails or not.
LEMMA CallShows ==
    ASSUME decision = None, sessionOutcome = None, UNCHANGED decision,
           UNCHANGED sessionOutcome \/ \E code : Session!fail(code)
    PROVE  ShownInv'
<1>1. Session!PassedIsShown'
  BY FailingShows DEF Session!PassedIsShown
<1>2. QED
  BY <1>1 DEF ShownInv

\* The tools of the browser.
LEMMA BrowserShows ==
    ASSUME ShownInv,
           \/ \E b \in ReviewBehaviors :
                 \/ \E act \in {"input", "passive"} : Session!Act(b, act)
                 \/ Session!Reload(b) \/ Session!Form(b) \/ \E ok \in BOOLEAN : Session!KeyBatch(b, ok)
           \/ Session!Steps \/ Session!Reset \/ Session!Reopen \/ Session!Resize \/ Session!Observe
           \/ Session!Screenshot \/ Session!Logs \/ Session!Read \/ Session!Refuse \/ Session!Mistake
           \/ Session!BrowserFails
    PROVE  ShownInv'
<1>1. decision = None /\ sessionOutcome = None
  BY DEF Session!Act, Session!Reload, Session!Form, Session!KeyBatch, Session!Steps, Session!Reset,
         Session!Reopen, Session!Resize, Session!Observe, Session!Screenshot, Session!Logs,
         Session!Read, Session!Refuse, Session!Mistake, Session!BrowserFails, Session!Call
<1>2. UNCHANGED decision
  BY DEF Session!Act, Session!Reload, Session!Form, Session!KeyBatch, Session!Steps, Session!Reset,
         Session!Reopen, Session!Resize, Session!Observe, Session!Screenshot, Session!Logs,
         Session!Read, Session!Refuse, Session!Mistake, Session!BrowserFails
<1>3. UNCHANGED sessionOutcome \/ \E code : Session!fail(code)
  BY DEF Session!Act, Session!Reload, Session!Form, Session!KeyBatch, Session!Steps, Session!Reset,
         Session!Reopen, Session!Resize, Session!Observe, Session!Screenshot, Session!Logs,
         Session!Read, Session!Refuse, Session!Mistake, Session!BrowserFails
<1>4. QED
  BY <1>1, <1>2, <1>3, CallShows

\* A report, recorded behaviour by behaviour or submitted whole: it is decided when no
\* item of it has a problem.
LEMMA ReportShows ==
    ASSUME NEW CONSTANT items, sessionTurn' = "tools", UNCHANGED sessionOutcome, sessionOutcome = None,
           decision' = items, Session!reportAccepted(items, pageError)'
    PROVE  ShownInv'
<1>1. \A b \in ReviewBehaviors : (Session!itemProblem(b, items[b], FALSE, pageError) = "none")'
  BY DEF Session!reportAccepted
<1>2. ASSUME NEW CONSTANT b \in ReviewBehaviors PROVE ShownBy(b, items[b])'
  BY <1>1, ItemShownNext
<1>3. QED
  BY <1>2 DEF ShownInv, ShownBy, Session!PassedIsShown

\* What the page showed when the report was held to the rule, it shows afterwards.
LEMMA AcceptedStays ==
    ASSUME NEW CONSTANT items, UNCHANGED Session!page, Session!reportAccepted(items, pageError')
    PROVE  Session!reportAccepted(items, pageError)'
<1>1. UNCHANGED <<evidence, sessionShots, failedInput>>
  BY DEF Session!page
<1>2. ASSUME NEW CONSTANT b, NEW CONSTANT it, Session!itemProblem(b, it, FALSE, pageError') = "none"
      PROVE  (Session!itemProblem(b, it, FALSE, pageError) = "none")'
  BY <1>1, <1>2 DEF Session!itemProblem, Session!validAction
<1>3. \A b \in ReviewBehaviors :
         items[b] # None /\ Session!itemProblem(b, items[b], FALSE, pageError') = "none"
  BY DEF Session!reportAccepted
<1>4. \A b \in ReviewBehaviors :
         items[b] # None /\ (Session!itemProblem(b, items[b], FALSE, pageError) = "none")'
  BY <1>2, <1>3
<1>5. QED
  BY <1>4 DEF Session!reportAccepted
LEMMA RecordShows ==
    ASSUME ShownInv, NEW b \in ReviewBehaviors, NEW said, Session!record_behavior(b, said)
    PROVE  ShownInv'
<1> DEFINE it == Session!canonicalItem(b, said)
           now == [drafts EXCEPT ![b] = it]
           whole == \A c \in ReviewBehaviors : now[c] # None
<1>1. /\ decision = None /\ sessionOutcome = None /\ sessionTurn' = "tools" /\ UNCHANGED Session!page
      /\ \/ UNCHANGED decision /\ Session!invalid
         \/ /\ ~(whole /\ ~Session!reportAccepted(now, pageError'))
            /\ decision' = IF whole THEN now ELSE None
            /\ UNCHANGED sessionOutcome
  BY DEF Session!record_behavior, Session!Call
<1>2. CASE UNCHANGED decision /\ Session!invalid
  <2>1. UNCHANGED sessionOutcome \/ \E code : Session!fail(code)
    BY <1>2 DEF Session!invalid
  <2>2. QED
    BY <1>1, <1>2, <2>1, CallShows
<1>3. CASE ~whole /\ decision' = None /\ UNCHANGED sessionOutcome
  BY <1>1, <1>3, CallShows
<1>4. CASE whole /\ decision' = now /\ UNCHANGED sessionOutcome /\ Session!reportAccepted(now, pageError')
  <2> HIDE DEF now, whole
  <2>1. Session!reportAccepted(decision', pageError')
    BY <1>4
  <2>2. Session!reportAccepted(decision, pageError)'
    BY <1>1, <2>1, AcceptedStays
  <2>3. QED
    BY <1>1, <1>4, <2>2, ReportShows
<1>5. QED
  BY <1>1, <1>2, <1>3, <1>4
LEMMA SubmitShows ==
    ASSUME ShownInv, NEW said, Session!submit_review(said)
    PROVE  ShownInv'
<1> DEFINE items == [b \in ReviewBehaviors |-> Session!canonicalItem(b, said[b])]
<1>1. /\ decision = None /\ sessionOutcome = None /\ sessionTurn' = "tools" /\ UNCHANGED Session!page
      /\ IF Session!reportAccepted(items, pageError')
         THEN decision' = items /\ UNCHANGED sessionOutcome
         ELSE UNCHANGED decision /\ Session!invalid
  BY DEF Session!submit_review, Session!Call
<1>2. CASE UNCHANGED decision /\ Session!invalid
  <2>1. UNCHANGED sessionOutcome \/ \E code : Session!fail(code)
    BY <1>2 DEF Session!invalid
  <2>2. QED
    BY <1>1, <1>2, <2>1, CallShows
<1>3. CASE decision' = items /\ UNCHANGED sessionOutcome /\ Session!reportAccepted(items, pageError')
  <2> HIDE DEF items
  <2>1. Session!reportAccepted(decision', pageError')
    BY <1>3
  <2>2. Session!reportAccepted(decision, pageError)'
    BY <1>1, <2>1, AcceptedStays
  <2>3. QED
    BY <1>1, <1>3, <2>2, ReportShows
<1>4. QED
  BY <1>1, <1>2, <1>3

\* The turns of the model, the stops and the result.
LEMMA TurnShows ==
    ASSUME ShownInv,
           \/ Session!Request \/ Session!EndTurn \/ Session!Correct \/ Session!Complete
           \/ \E code \in Session!StopCodes : Session!Stop(code)
    PROVE  ShownInv'
<1>1. sessionOutcome = None /\ UNCHANGED decision
  BY DEF Session!Request, Session!EndTurn, Session!Correct, Session!Complete, Session!Stop
<1>2. CASE decision = None
  <2>1. UNCHANGED sessionOutcome \/ \E code : Session!fail(code)
    BY <1>2 DEF Session!Request, Session!EndTurn, Session!Correct, Session!Complete, Session!Stop
  <2>2. QED
    BY <1>1, <1>2, <2>1, CallShows
<1>3. CASE decision # None
  <2>1. /\ sessionTurn \in {"tools", "idle"} /\ \A b \in ReviewBehaviors : ShownBy(b, decision[b])
    BY <1>3 DEF ShownInv
  <2>2. UNCHANGED <<evidence, sessionShots, failedInput, pageError>> /\ sessionTurn' \in {"tools", "idle"}
    BY <1>3, <2>1 DEF Session!Request, Session!EndTurn, Session!Correct, Session!Complete,
       Session!Correctable, Session!Stop, Session!page
  <2>3. \A b \in ReviewBehaviors : ShownBy(b, decision[b])'
    BY <1>1, <2>1, <2>2 DEF ShownBy, Session!validAction
  <2>4. Session!PassedIsShown'
    <3>1. CASE Session!Request \/ Session!EndTurn \/ Session!Correct
      BY <1>1, <3>1 DEF Session!Request, Session!EndTurn, Session!Correct, Session!PassedIsShown
    <3>2. CASE \E code \in Session!StopCodes : Session!Stop(code)
      BY <3>2, FailingShows DEF Session!Stop
    <3>3. CASE Session!Complete
      <4>1. sessionOutcome' \in {[kind |-> "complete", items |-> decision], [kind |-> "thrown"]}
        BY <3>3 DEF Session!Complete, Session!Thrown
      <4>2. QED
        BY <1>1, <2>3, <4>1 DEF Session!PassedIsShown, ShownBy
    <3>4. QED
      BY <3>1, <3>2, <3>3
  <2>5. QED
    BY <2>2, <2>3, <2>4 DEF ShownInv, ShownBy
<1>4. QED
  BY <1>2, <1>3

\* Every step of a session keeps the invariant.
LEMMA NextShown == ASSUME ShownInv, Session!Next PROVE ShownInv'
<1>1. CASE \E b \in ReviewBehaviors, said \in Session!Items : Session!record_behavior(b, said)
  BY <1>1, RecordShows
<1>2. CASE \E said \in [ReviewBehaviors -> Session!Items] : Session!submit_review(said)
  BY <1>2, SubmitShows
<1>3. QED
  BY <1>1, <1>2, BrowserShows, TurnShows DEF Session!Next
LEMMA ShownSame == UNCHANGED SessionVars /\ ShownInv => ShownInv'
BY DEF SessionVars, ShownInv, ShownBy, Session!PassedIsShown, Session!validAction

-----------------------------------------------------------------------------
(* ScriptedReplay: what the results of a pass rest on.                       *)

Outcomes == {"passed", "failed", "blocked"}
Findings == {"held", "unseen", "broke", "thrown", None}
\* The assertions of a behaviour held of the page, as far as they say something of it.
ProvedBy(seenOf, b) == seenOf[b] = "held" \/ (seenOf[b] = "unseen" /\ Replay!UnwantedText(b))
ReplayTypes ==
    /\ selected \subseteq ReplayBehaviors /\ script \in [ReplayBehaviors -> ReplayScripts]
    /\ replayCurrent \in Nat
    /\ {replayItem, capture, judged, noted} \subseteq [ReplayBehaviors -> Outcomes \union {None}]
    /\ found \in [ReplayBehaviors -> Findings]
\* The pass goes through the behaviours in their order: those ahead have no result.
AheadInv ==
    /\ pass \in {"compile", "next", "steps", "inspect"} =>
          \A b \in ReplayBehaviors :
             b > replayCurrent \/ (pass \in {"steps", "inspect"} /\ b = replayCurrent) =>
                replayItem[b] = None /\ capture[b] = None /\ noted[b] = None
    /\ pass \in {"steps", "inspect"} => replayCurrent \in selected /\ Replay!Runnable(replayCurrent)
\* What passed so far was proved; what was announced is an item, or a capture that did
\* not pass.
SoFarInv ==
    pass # "scripted" => \A b \in ReplayBehaviors :
        /\ replayItem[b] = "passed" => ProvedBy(found, b) /\ ~Replay!Visual(b)
        /\ capture[b] = "passed" => ProvedBy(found, b) /\ Replay!Visual(b)
        /\ capture[b] # None => replayItem[b] = None
        /\ noted[b] # None =>
              noted[b] = replayItem[b] \/ (noted[b] = capture[b] /\ capture[b] # "passed")
\* Every capture that passed was judged, and no other.
JudgedInv == pass = "merge" => \A b \in selected : capture[b] = "passed" <=> judged[b] # None
ReplayInv ==
    /\ ReplayTypes /\ AheadInv /\ SoFarInv /\ JudgedInv
    /\ Replay!PassedIsProved /\ Replay!NotedIsKept

\* Nothing has run at first.
LEMMA InitReplay == (part = "Replay" /\ Replay!Init) => ReplayInv
<1> SUFFICES ASSUME Replay!Init PROVE ReplayInv
  OBVIOUS
<1>1. /\ replayItem = [b \in ReplayBehaviors |-> None] /\ capture = [b \in ReplayBehaviors |-> None]
      /\ judged = [b \in ReplayBehaviors |-> None] /\ noted = [b \in ReplayBehaviors |-> None]
      /\ found = [b \in ReplayBehaviors |-> None] /\ pass = "compile" /\ replayCurrent = 0
      /\ selected \subseteq ReplayBehaviors /\ script \in [ReplayBehaviors -> ReplayScripts]
  BY DEF Replay!Init, Replay!Blank
<1>2. ReplayTypes /\ AheadInv
  BY <1>1 DEF ReplayTypes, AheadInv, Findings
<1>3. SoFarInv /\ JudgedInv /\ Replay!PassedIsProved /\ Replay!NotedIsKept
  BY <1>1, NoNameAssumption DEF SoFarInv, JudgedInv, Replay!PassedIsProved, Replay!NotedIsKept
<1>4. QED
  BY <1>2, <1>3 DEF ReplayInv

\* A step that leaves the results alone, and the pass between the same places.
LEMMA ResultsSame ==
    ASSUME ReplayInv, UNCHANGED Replay!inputs, UNCHANGED Replay!results, UNCHANGED replayCurrent,
           pass \in {"compile", "next", "steps", "inspect"},
           \/ pass' = pass
           \/ pass' \in {"next", "fallback", "stopped"} /\ pass # "merge"
           \/ pass = "steps" /\ pass' = "inspect"
    PROVE  ReplayInv'
<1>1. UNCHANGED <<selected, script, setup, found, capture, judged, replayItem, noted, replayCurrent>>
  BY DEF Replay!inputs, Replay!results
<1>2. /\ ReplayTypes' /\ SoFarInv' /\ JudgedInv'
      /\ Replay!PassedIsProved' /\ Replay!NotedIsKept'
  BY <1>1 DEF ReplayInv, ReplayTypes, SoFarInv, JudgedInv, ProvedBy, Replay!UnwantedText, Replay!Visual,
     Replay!PassedIsProved, Replay!NotedIsKept
<1>3. Replay!Runnable(replayCurrent)' <=> Replay!Runnable(replayCurrent)
  BY <1>1 DEF Replay!Runnable
<1>4. AheadInv'
  BY <1>1, <1>3 DEF ReplayInv, AheadInv
<1>5. QED
  BY <1>2, <1>4 DEF ReplayInv

\* The behaviour at hand gets its result: a pass when it was proved.
LEMMA Settling ==
    ASSUME ReplayInv, UNCHANGED Replay!inputs, UNCHANGED <<replayCurrent, judged>>,
           pass \in {"steps", "inspect"}, pass' = "next",
           NEW v \in Outcomes, Replay!Settle(replayCurrent, v),
           NEW f \in Findings, found' = [found EXCEPT ![replayCurrent] = f],
           v = "passed" => f = "held" \/ (f = "unseen" /\ Replay!UnwantedText(replayCurrent))
    PROVE  ReplayInv'
<1> DEFINE c == replayCurrent
<1>1. /\ c \in ReplayBehaviors /\ c \in Nat /\ replayItem[c] = None /\ capture[c] = None /\ noted[c] = None
      /\ UNCHANGED <<selected, script, setup>>
  BY DEF ReplayInv, ReplayTypes, AheadInv, Replay!inputs
<1>2. /\ replayItem \in [ReplayBehaviors -> Outcomes \union {None}]
      /\ capture \in [ReplayBehaviors -> Outcomes \union {None}]
      /\ noted \in [ReplayBehaviors -> Outcomes \union {None}]
      /\ judged \in [ReplayBehaviors -> Outcomes \union {None}]
      /\ found \in [ReplayBehaviors -> Findings]
  BY DEF ReplayInv, ReplayTypes
<1>3. /\ IF Replay!Visual(c) THEN capture' = [capture EXCEPT ![c] = v] /\ replayItem' = replayItem
         ELSE replayItem' = [replayItem EXCEPT ![c] = v] /\ capture' = capture
      /\ IF Replay!Visual(c) /\ v = "passed" THEN noted' = noted ELSE noted' = [noted EXCEPT ![c] = v]
  BY DEF Replay!Settle, Replay!Checkpoint
<1>4. /\ replayItem' \in [ReplayBehaviors -> Outcomes \union {None}]
      /\ capture' \in [ReplayBehaviors -> Outcomes \union {None}]
      /\ noted' \in [ReplayBehaviors -> Outcomes \union {None}]
  BY <1>1, <1>2, <1>3
<1>5. found' \in [ReplayBehaviors -> Findings]
  BY <1>1, <1>2
<1>6. ReplayTypes'
  BY <1>1, <1>2, <1>4, <1>5 DEF ReplayInv, ReplayTypes
<1>7. \A b \in ReplayBehaviors : b # c =>
         /\ replayItem'[b] = replayItem[b] /\ capture'[b] = capture[b] /\ noted'[b] = noted[b]
         /\ found'[b] = found[b]
  BY <1>1, <1>2, <1>3
<1>8. \A b \in ReplayBehaviors : (Replay!Visual(b))' = Replay!Visual(b)
         /\ (Replay!UnwantedText(b))' = Replay!UnwantedText(b)
  BY <1>1 DEF Replay!Visual, Replay!Reason, Replay!UnwantedText
<1>9. AheadInv'
  <2>1. ASSUME NEW b \in ReplayBehaviors, b > c
        PROVE  replayItem'[b] = None /\ capture'[b] = None /\ noted'[b] = None
    <3>1. b # c /\ replayItem[b] = None /\ capture[b] = None /\ noted[b] = None
      BY <1>1, <2>1 DEF ReplayInv, AheadInv
    <3>2. QED
      BY <1>7, <3>1
  <2>2. QED
    BY <2>1 DEF AheadInv
<1>10. SoFarInv'
  <2>1. ASSUME NEW b \in ReplayBehaviors
        PROVE  /\ replayItem'[b] = "passed" => ProvedBy(found, b)' /\ ~(Replay!Visual(b))'
               /\ capture'[b] = "passed" => ProvedBy(found, b)' /\ (Replay!Visual(b))'
               /\ capture'[b] # None => replayItem'[b] = None
               /\ noted'[b] # None =>
                     noted'[b] = replayItem'[b] \/ (noted'[b] = capture'[b] /\ capture'[b] # "passed")
    <3>1. CASE b = c
      <4>1. found'[c] = f /\ (v = "passed" => ProvedBy(found, c)')
        BY <1>1, <1>2, <1>8 DEF ProvedBy
      <4>2. CASE Replay!Visual(c)
        <5>1. capture'[c] = v /\ replayItem'[c] = None /\ (v # "passed" => noted'[c] = v)
              /\ (v = "passed" => noted'[c] = None)
          BY <1>1, <1>2, <1>3, <4>2
        <5>2. QED
          BY <1>1, <1>8, <3>1, <4>1, <4>2, <5>1, NoNameAssumption
      <4>3. CASE ~Replay!Visual(c)
        <5>1. replayItem'[c] = v /\ capture'[c] = None /\ noted'[c] = v
          BY <1>1, <1>2, <1>3, <4>3
        <5>2. QED
          BY <1>1, <1>8, <3>1, <4>1, <4>3, <5>1, NoNameAssumption
      <4>4. QED
        BY <4>2, <4>3
    <3>2. CASE b # c
      <4>1. /\ replayItem[b] = "passed" => ProvedBy(found, b) /\ ~Replay!Visual(b)
            /\ capture[b] = "passed" => ProvedBy(found, b) /\ Replay!Visual(b)
            /\ capture[b] # None => replayItem[b] = None
            /\ noted[b] # None =>
                  noted[b] = replayItem[b] \/ (noted[b] = capture[b] /\ capture[b] # "passed")
        BY DEF ReplayInv, SoFarInv
      <4>2. ProvedBy(found, b)' <=> ProvedBy(found, b)
        BY <1>7, <1>8, <3>2 DEF ProvedBy
      <4>3. QED
        BY <1>7, <1>8, <3>2, <4>1, <4>2
    <3>3. QED
      BY <3>1, <3>2
  <2>2. QED
    BY <2>1 DEF SoFarInv, ProvedBy
<1>11. QED
  BY <1>6, <1>9, <1>10 DEF ReplayInv, JudgedInv, Replay!PassedIsProved, Replay!NotedIsKept

\* Numbers that are there have a least one.
LEMMA LeastOf ==
    ASSUME NEW T, T \subseteq Nat, T # {}
    PROVE  \E x \in T : \A y \in T : x <= y
<1> DEFINE less == {p \in Nat \X Nat : p[1] < p[2]}
<1>1. IsWellFoundedOn(less, Nat)
  BY NatLessThanWellFounded DEF OpToRel
<1>2. PICK x \in T : \A y \in T : ~(<<y, x>> \in less)
  <2> HIDE DEF less
  <2> QED
    BY <1>1, WFMin
<1>3. ASSUME NEW y \in T PROVE x <= y
  <2>1. <<y, x>> \in Nat \X Nat /\ ~(<<y, x>> \in less)
    BY <1>2
  <2>2. QED
    BY <2>1
<1>4. QED
  BY <1>3

\* The pass goes on to a behaviour ahead; one that cannot continue is blocked.
LEMMA NextKeeps == ASSUME ReplayInv, Replay!NextBehavior PROVE ReplayInv'
<1> DEFINE b == CHOOSE x \in selected : x > replayCurrent /\ \A c \in selected : c > replayCurrent => x <= c
<1>1. /\ pass = "next" /\ (\E x \in selected : x > replayCurrent)
      /\ selected \subseteq ReplayBehaviors /\ ReplayBehaviors \subseteq Nat /\ replayCurrent \in Nat
      /\ UNCHANGED <<selected, script, setup, judged, found, capture>>
  BY PlanAssumption DEF Replay!NextBehavior, Replay!inputs, Replay!results, ReplayInv, ReplayTypes
<1>2. b \in selected /\ b > replayCurrent
  <2> DEFINE T == {x \in selected : x > replayCurrent}
  <2>1. T \subseteq Nat /\ T # {}
    BY <1>1
  <2>2. PICK x \in T : \A y \in T : x <= y
    <3> HIDE DEF T
    <3> QED
      BY <2>1, LeastOf
  <2>3. x \in selected /\ x > replayCurrent /\ \A c \in selected : c > replayCurrent => x <= c
    BY <2>2
  <2>4. QED
    BY <2>3
<1>3. /\ replayCurrent' = b
      /\ \/ pass' = pass /\ UNCHANGED <<replayItem, noted>>
         \/ /\ pass' = pass
            /\ replayItem' = [replayItem EXCEPT ![b] = "blocked"] /\ noted' = [noted EXCEPT ![b] = "blocked"]
         \/ Replay!Runnable(b) /\ pass' = "steps" /\ UNCHANGED <<replayItem, noted>>
  BY DEF Replay!NextBehavior, Replay!results, Replay!Checkpoint
<1> HIDE DEF b
<1>4. b \in ReplayBehaviors /\ b \in Nat
  BY <1>1, <1>2
<1>5. \A x \in ReplayBehaviors : x > b \/ x = b =>
         x > replayCurrent /\ replayItem[x] = None /\ capture[x] = None /\ noted[x] = None
  <2>1. \A x \in ReplayBehaviors : x > b \/ x = b => x > replayCurrent
    <3>1. ASSUME NEW x \in ReplayBehaviors, x > b \/ x = b PROVE x > replayCurrent
      <4>1. x \in Nat /\ replayCurrent \in Nat
        BY <1>1
      <4>2. QED
        BY <1>2, <1>4, <3>1, <4>1
    <3>2. QED
      BY <3>1
  <2>2. QED
    BY <1>1, <2>1 DEF ReplayInv, AheadInv
<1>6. \A x \in ReplayBehaviors : (Replay!Visual(x))' = Replay!Visual(x)
         /\ (Replay!UnwantedText(x))' = Replay!UnwantedText(x)
         /\ (Replay!Runnable(x))' = Replay!Runnable(x)
  BY <1>1 DEF Replay!Visual, Replay!Reason, Replay!UnwantedText, Replay!Runnable
<1>7. /\ replayItem \in [ReplayBehaviors -> Outcomes \union {None}]
      /\ noted \in [ReplayBehaviors -> Outcomes \union {None}]
      /\ capture \in [ReplayBehaviors -> Outcomes \union {None}]
      /\ judged \in [ReplayBehaviors -> Outcomes \union {None}]
      /\ found \in [ReplayBehaviors -> Findings] /\ script \in [ReplayBehaviors -> ReplayScripts]
  BY DEF ReplayInv, ReplayTypes
<1>8. \A x \in ReplayBehaviors :
        /\ x # b => replayItem'[x] = replayItem[x] /\ noted'[x] = noted[x]
        /\ x = b => \/ replayItem'[x] = None /\ noted'[x] = None
                    \/ replayItem'[x] = "blocked" /\ noted'[x] = "blocked"
  BY <1>3, <1>4, <1>5, <1>7
<1>9. ReplayTypes'
  <2>1. /\ replayItem' \in [ReplayBehaviors -> Outcomes \union {None}]
        /\ noted' \in [ReplayBehaviors -> Outcomes \union {None}]
    BY <1>3, <1>4, <1>7 DEF Outcomes
  <2>2. QED
    BY <1>1, <1>3, <1>4, <1>7, <2>1 DEF ReplayTypes
<1>10. AheadInv'
  <2>1. \A x \in ReplayBehaviors : x > b => replayItem'[x] = None /\ capture'[x] = None /\ noted'[x] = None
    <3>1. ASSUME NEW x \in ReplayBehaviors, x > b
          PROVE  replayItem'[x] = None /\ capture'[x] = None /\ noted'[x] = None
      <4>1. x # b
        BY <1>1, <1>4, <3>1
      <4>2. QED
        BY <1>1, <1>5, <1>8, <3>1, <4>1
    <3>2. QED
      BY <3>1
  <2>2. CASE pass' = pass
    BY <1>1, <1>3, <2>1, <2>2 DEF AheadInv
  <2>3. CASE Replay!Runnable(b) /\ pass' = "steps" /\ UNCHANGED <<replayItem, noted>>
    <3>1. (Replay!Runnable(replayCurrent))'
      BY <1>1, <1>3, <2>3 DEF Replay!Runnable
    <3>2. replayItem'[b] = None /\ capture'[b] = None /\ noted'[b] = None
      BY <1>1, <1>4, <1>5, <2>3
    <3>3. QED
      BY <1>1, <1>2, <1>3, <2>1, <3>1, <3>2 DEF AheadInv
  <2>4. QED
    BY <1>3, <2>2, <2>3
<1>11. SoFarInv'
  <2>1. ASSUME NEW x \in ReplayBehaviors
        PROVE  /\ replayItem'[x] = "passed" => ProvedBy(found, x)' /\ ~(Replay!Visual(x))'
               /\ capture'[x] = "passed" => ProvedBy(found, x)' /\ (Replay!Visual(x))'
               /\ capture'[x] # None => replayItem'[x] = None
               /\ noted'[x] # None =>
                     noted'[x] = replayItem'[x] \/ (noted'[x] = capture'[x] /\ capture'[x] # "passed")
    <3>1. CASE x = b
      BY <1>1, <1>4, <1>5, <1>8, <3>1, NoNameAssumption
    <3>2. CASE x # b
      <4>1. /\ replayItem[x] = "passed" => ProvedBy(found, x) /\ ~Replay!Visual(x)
            /\ capture[x] = "passed" => ProvedBy(found, x) /\ Replay!Visual(x)
            /\ capture[x] # None => replayItem[x] = None
            /\ noted[x] # None =>
                  noted[x] = replayItem[x] \/ (noted[x] = capture[x] /\ capture[x] # "passed")
        BY <1>1 DEF ReplayInv, SoFarInv
      <4>2. ProvedBy(found, x)' <=> ProvedBy(found, x)
        BY <1>1, <1>6 DEF ProvedBy
      <4>3. QED
        BY <1>1, <1>6, <1>8, <3>2, <4>1, <4>2
    <3>3. QED
      BY <3>1, <3>2
  <2>2. QED
    BY <2>1 DEF SoFarInv, ProvedBy
<1>12. pass' \in {"next", "steps"}
  BY <1>1, <1>3
<1>13. QED
  BY <1>9, <1>10, <1>11, <1>12 DEF ReplayInv, JudgedInv, Replay!PassedIsProved, Replay!NotedIsKept

\* A stop ends the pass; the window's end blocks the behaviour at hand.
LEMMA AbortedKeeps == ASSUME ReplayInv, Replay!Aborted PROVE ReplayInv'
<1>1. /\ pass \in {"steps", "inspect"} /\ UNCHANGED Replay!inputs /\ UNCHANGED replayCurrent
      /\ \/ pass' = "stopped" /\ UNCHANGED Replay!results
         \/ pass' = "next" /\ Replay!Settle(replayCurrent, "blocked") /\ UNCHANGED <<found, judged>>
  BY DEF Replay!Aborted
<1>2. CASE pass' = "stopped" /\ UNCHANGED Replay!results
  BY <1>1, <1>2, ResultsSame
<1>3. CASE pass' = "next" /\ Replay!Settle(replayCurrent, "blocked") /\ UNCHANGED <<found, judged>>
  <2>1. /\ found' = [found EXCEPT ![replayCurrent] = found[replayCurrent]]
        /\ found[replayCurrent] \in Findings
    <3>1. found \in [ReplayBehaviors -> Findings] /\ replayCurrent \in ReplayBehaviors
      BY <1>1 DEF ReplayInv, ReplayTypes, AheadInv
    <3>2. QED
      BY <1>3, <3>1
  <2>2. "blocked" \in Outcomes
    BY DEF Outcomes
  <2>3. QED
    BY <1>1, <1>3, <2>1, <2>2, Settling
<1>4. QED
  BY <1>1, <1>2, <1>3

\* What throws blocks the behaviour at hand.
LEMMA ThrownKeeps == ASSUME ReplayInv, Replay!Thrown PROVE ReplayInv'
<1>1. /\ pass \in {"steps", "inspect"} /\ UNCHANGED Replay!inputs /\ UNCHANGED <<replayCurrent, judged>>
      /\ pass' = "next" /\ Replay!Settle(replayCurrent, "blocked")
      /\ found' = [found EXCEPT ![replayCurrent] = "thrown"]
  BY DEF Replay!Thrown
<1>2. "blocked" \in Outcomes /\ "thrown" \in Findings
  BY DEF Outcomes, Findings
<1>3. QED
  BY <1>1, <1>2, Settling

\* An assertion that held of the evidence is true of the page, but for a text that is
\* unwanted and beyond the window.
LEMMA HeldIsTrue ==
    ASSUME NEW a, NEW e, a.negated \in BOOLEAN,
           a.kind \in {"target-count", "target-text", "target-value", "text", "control", "console"},
           Replay!evaluateAssertion(a, e) = "held", ~Replay!Holds(a, e)
    PROVE  a.kind = "text" /\ a.negated
<1>1. CASE a.kind = "target-count"
  BY <1>1 DEF Replay!evaluateAssertion, Replay!Holds
<1>2. CASE a.kind = "text"
  BY <1>2 DEF Replay!evaluateAssertion, Replay!Holds
<1>3. CASE a.kind = "control"
  BY <1>3 DEF Replay!evaluateAssertion, Replay!Holds
<1>4. CASE a.kind = "console"
  BY <1>4 DEF Replay!evaluateAssertion, Replay!Holds
<1>5. CASE a.kind = "target-text"
  BY <1>5 DEF Replay!evaluateAssertion, Replay!Holds
<1>6. CASE a.kind = "target-value"
  BY <1>6 DEF Replay!evaluateAssertion, Replay!Holds
<1>7. QED
  BY <1>1, <1>2, <1>3, <1>4, <1>5, <1>6

\* The end of a program passes the behaviour only when its assertions held.
LEMMA FinishKeeps == ASSUME ReplayInv, Replay!FinishProgram PROVE ReplayInv'
<1> DEFINE c == replayCurrent
           a == script[c].assertion
           reads(e) == Replay!evaluateAssertion(a, e)
           f(e) == IF reads(e) = "broke" \/ ~Replay!Passable THEN "broke"
                   ELSE IF Replay!Holds(a, e) THEN "held" ELSE "unseen"
<1>1. PICK e \in Replay!Evidence :
        /\ found' = [found EXCEPT ![c] = f(e)]
        /\ Replay!Settle(c, "blocked") \/ Replay!Settle(c, Replay!Verdict(reads(e) = "held"))
  BY DEF Replay!FinishProgram
<1>2. /\ pass = "inspect" /\ pass' = "next" /\ UNCHANGED Replay!inputs
      /\ UNCHANGED <<replayCurrent, judged>>
  BY DEF Replay!FinishProgram
<1>3. /\ c \in ReplayBehaviors /\ Replay!Runnable(c) /\ script[c] \in ReplayScripts
  BY <1>2 DEF ReplayInv, AheadInv, ReplayTypes
<1>4. a # None
  BY <1>3 DEF Replay!Runnable, Replay!Reason
<1>5. /\ a.kind \in {"target-count", "target-text", "target-value", "text", "control", "console"}
      /\ a.negated \in BOOLEAN
  BY <1>3, <1>4, ScriptsAssumption
<1>6. CASE Replay!Settle(c, "blocked")
  <2>1. "blocked" \in Outcomes /\ f(e) \in Findings
    BY DEF Outcomes, Findings
  <2> HIDE DEF f
  <2>2. QED
    BY <1>1, <1>2, <1>6, <2>1, Settling
<1>7. CASE Replay!Settle(c, Replay!Verdict(reads(e) = "held"))
  <2> DEFINE v == Replay!Verdict(reads(e) = "held")
  <2>1. v \in Outcomes /\ f(e) \in Findings
    BY DEF Outcomes, Findings, Replay!Verdict
  <2>2. v = "passed" => Replay!Passable /\ reads(e) = "held"
    BY DEF Replay!Verdict
  <2>3. v = "passed" => f(e) = "held" \/ (f(e) = "unseen" /\ Replay!UnwantedText(c))
    <3>1. SUFFICES ASSUME v = "passed", f(e) # "held"
                   PROVE  f(e) = "unseen" /\ Replay!UnwantedText(c)
      OBVIOUS
    <3>2. f(e) = "unseen" /\ ~Replay!Holds(a, e) /\ reads(e) = "held"
      BY <2>2, <3>1
    <3>3. a.kind = "text" /\ a.negated
      BY <1>5, <3>2, HeldIsTrue
    <3>4. QED
      BY <3>2, <3>3 DEF Replay!UnwantedText
  <2> HIDE DEF v, f
  <2>4. Replay!Settle(c, v)
    BY <1>7 DEF v
  <2>5. QED
    BY <1>1, <1>2, <2>1, <2>3, <2>4, Settling
<1>8. QED
  BY <1>1, <1>6, <1>7

\* The captures that passed are judged, all of them and nothing else.
LEMMA JudgeKeeps == ASSUME ReplayInv, Replay!Judge PROVE ReplayInv'
<1> DEFINE asked0 == {b \in selected : capture[b] = "passed"}
<1>1. /\ pass = "next" /\ pass' = "merge"
      /\ UNCHANGED <<selected, script, setup, replayCurrent, found, capture, replayItem, noted>>
  BY DEF Replay!Judge, Replay!inputs
<1>2. \/ judged' = [b \in ReplayBehaviors |-> IF b \in asked0 THEN "blocked" ELSE None]
      \/ \E a \in [asked0 -> {"passed", "failed", "blocked"}] :
            judged' = [b \in ReplayBehaviors |-> IF b \in asked0 THEN a[b] ELSE None]
  BY DEF Replay!Judge
<1>3. /\ judged' \in [ReplayBehaviors -> Outcomes \union {None}]
      /\ \A b \in ReplayBehaviors : b \in asked0 <=> judged'[b] # None
  BY <1>2, NoNameAssumption DEF Outcomes
<1>4. selected \subseteq ReplayBehaviors
  BY DEF ReplayInv, ReplayTypes
<1>5. ReplayTypes' /\ AheadInv'
  BY <1>1, <1>3 DEF ReplayInv, ReplayTypes, AheadInv
<1>6. SoFarInv'
  BY <1>1 DEF ReplayInv, SoFarInv, ProvedBy, Replay!Visual, Replay!UnwantedText
<1>7. JudgedInv'
  BY <1>1, <1>3, <1>4 DEF JudgedInv
<1>8. QED
  BY <1>1, <1>5, <1>6, <1>7 DEF ReplayInv, Replay!PassedIsProved, Replay!NotedIsKept

\* The result takes a pass from a program, or from the judge of a capture that passed.
LEMMA MergeKeeps == ASSUME ReplayInv, Replay!Merge PROVE ReplayInv'
<1>1. /\ pass = "merge" /\ pass' = "scripted"
      /\ UNCHANGED <<selected, script, setup, replayCurrent, found, capture, judged>>
      /\ noted' = [b \in ReplayBehaviors |->
            IF capture[b] = "passed" /\ noted[b] = None THEN Replay!Merged(b) ELSE noted[b]]
  BY DEF Replay!Merge, Replay!inputs
<1>2. PICK kept : replayItem' = [b \in ReplayBehaviors |->
            IF b \notin selected THEN None ELSE IF b > kept THEN "blocked" ELSE Replay!Merged(b)]
  BY DEF Replay!Merge
<1>3. selected \subseteq ReplayBehaviors
  BY DEF ReplayInv, ReplayTypes
<1>4. \A b \in ReplayBehaviors : Replay!Merged(b) \in Outcomes \union {None}
  BY DEF ReplayInv, ReplayTypes, Replay!Merged, Outcomes
<1>5. ReplayTypes'
  <2>1. /\ replayItem' \in [ReplayBehaviors -> Outcomes \union {None}]
        /\ noted' \in [ReplayBehaviors -> Outcomes \union {None}]
    BY <1>1, <1>2, <1>4 DEF ReplayInv, ReplayTypes, Outcomes
  <2>2. QED
    BY <1>1, <2>1 DEF ReplayInv, ReplayTypes
<1>6. \A b \in selected : replayItem'[b] \in {"blocked", Replay!Merged(b)}
  BY <1>2, <1>3
<1>7. ASSUME NEW b \in selected, replayItem'[b] = "passed"
      PROVE  ProvedBy(found, b) /\ (Replay!Visual(b) => judged[b] = "passed")
  <2>1. Replay!Merged(b) = "passed"
    BY <1>6, <1>7
  <2>2. /\ replayItem[b] = "passed" => ProvedBy(found, b) /\ ~Replay!Visual(b)
        /\ capture[b] = "passed" => ProvedBy(found, b)
        /\ capture[b] = "passed" <=> judged[b] # None
    BY <1>1, <1>3 DEF ReplayInv, SoFarInv, JudgedInv
  <2>3. QED
    BY <2>1, <2>2 DEF Replay!Merged
<1>8. Replay!PassedIsProved'
  BY <1>1, <1>7 DEF Replay!PassedIsProved, ProvedBy, Replay!Visual, Replay!UnwantedText
<1>9. ASSUME NEW b \in selected, noted'[b] # None
      PROVE  noted'[b] = Replay!Merged(b)
  <2>1. /\ capture[b] # None => replayItem[b] = None
        /\ noted[b] # None =>
              noted[b] = replayItem[b] \/ (noted[b] = capture[b] /\ capture[b] # "passed")
    BY <1>1, <1>3 DEF ReplayInv, SoFarInv
  <2>2. noted'[b] = IF capture[b] = "passed" /\ noted[b] = None THEN Replay!Merged(b) ELSE noted[b]
    BY <1>1, <1>3
  <2>3. QED
    BY <1>9, <2>1, <2>2 DEF Replay!Merged
<1>10. Replay!NotedIsKept'
  BY <1>1, <1>6, <1>9 DEF Replay!NotedIsKept
<1>11. QED
  BY <1>1, <1>5, <1>8, <1>10 DEF ReplayInv, AheadInv, SoFarInv, JudgedInv

\* A step of the pass keeps all of it.
LEMMA NextReplay == ASSUME ReplayInv, Replay!Next PROVE ReplayInv'
<1>1. CASE Replay!Abort
  BY <1>1, ResultsSame DEF Replay!Abort
<1>2. CASE Replay!Compile
  BY <1>2, ResultsSame DEF Replay!Compile
<1>3. CASE Replay!NextBehavior
  BY <1>3, NextKeeps
<1>4. CASE Replay!Aborted
  BY <1>4, AbortedKeeps
<1>5. CASE Replay!Thrown
  BY <1>5, ThrownKeeps
<1>6. CASE Replay!Observe
  BY <1>6, ResultsSame DEF Replay!Observe
<1>7. CASE Replay!ExecuteProgram
  BY <1>7, ResultsSame DEF Replay!ExecuteProgram
<1>8. CASE Replay!StepsDone
  BY <1>8, ResultsSame DEF Replay!StepsDone
<1>9. CASE Replay!FinishProgram
  BY <1>9, FinishKeeps
<1>10. CASE Replay!Judge
  BY <1>10, JudgeKeeps
<1>11. CASE Replay!Merge
  BY <1>11, MergeKeeps
<1>12. QED
  BY <1>1, <1>2, <1>3, <1>4, <1>5, <1>6, <1>7, <1>8, <1>9, <1>10, <1>11 DEF Replay!Next

\* A step of another component leaves the pass alone.
LEMMA ReplaySame == ASSUME ReplayInv, UNCHANGED ReplayVars PROVE ReplayInv'
<1>1. UNCHANGED <<selected, script, setup, pass, replayCurrent, found, capture, judged, replayItem, noted>>
  BY DEF ReplayVars
<1>2. Replay!Runnable(replayCurrent)' <=> Replay!Runnable(replayCurrent)
  BY <1>1 DEF Replay!Runnable
<1>3. /\ ReplayTypes' /\ SoFarInv' /\ JudgedInv'
      /\ Replay!PassedIsProved' /\ Replay!NotedIsKept'
  BY <1>1 DEF ReplayInv, ReplayTypes, SoFarInv, JudgedInv, ProvedBy, Replay!UnwantedText, Replay!Visual,
     Replay!PassedIsProved, Replay!NotedIsKept
<1>4. AheadInv'
  BY <1>1, <1>2 DEF ReplayInv, AheadInv
<1>5. QED
  BY <1>3, <1>4 DEF ReplayInv

-----------------------------------------------------------------------------
(* What a pass rests on, in the component of the behaviour.                  *)

HonestInv ==
    /\ part = "Session" => ShownInv
    /\ part = "Loop" => LoopInv
    /\ part = "Check" => CheckInv
    /\ part = "Replay" => ReplayInv
    /\ part = "Programs" => ProgramsInv

\* A behaviour starts with one component's initial state.
LEMMA InitHonest == Init => HonestInv
<1> SUFFICES ASSUME Init PROVE HonestInv
  OBVIOUS
<1>1. /\ part = "Session" => Session!Init
      /\ part = "Loop" => Loop!Init
      /\ part = "Check" => Check!Init
      /\ part = "Replay" => Replay!Init
      /\ part = "Programs" => Programs!Init
  BY DEF Init
<1>2. QED
  BY <1>1, InitShown, InitLoop, InitCheck, InitReplay, InitPrograms DEF HonestInv

\* A step is one of the behaviour's component.
LEMMA NextHonest == ASSUME HonestInv, [Next]_vars PROVE HonestInv'
<1>1. CASE Next
  <2>1. /\ UNCHANGED part
        /\ part = "Session" => Session!Next
        /\ part = "Loop" => Loop!Next
        /\ part = "Check" => Check!Next
        /\ part = "Replay" => Replay!Next
        /\ part = "Programs" => Programs!Next
    BY <1>1 DEF Next
  <2>2. QED
    BY <2>1, NextShown, NextLoop, NextCheck, NextReplay, NextPrograms DEF HonestInv
<1>2. CASE UNCHANGED vars
  BY <1>2, ShownSame, LoopSame, CheckSame, ReplaySame, ProgramsSame DEF vars, HonestInv
<1>3. QED
  BY <1>1, <1>2

\* An item that passed rests on actions of its own behaviour and on an image that was shown
\* after them, a plan that is accepted was checked in whole, a result that is in time is of
\* the check's own source, a replayed pass is one its assertions held for, and a stored
\* program was judged like its requirement.
THEOREM ChecksAreHonestHolds == Spec => []ChecksAreHonest
<1>1. HonestInv => ChecksAreHonest
  BY CheckProperty, ProgramsProperty
     DEF HonestInv, ChecksAreHonest, ShownInv, LoopInv, ReplayInv
<1>2. HonestInv /\ [Next]_vars => HonestInv'
  BY NextHonest
<1>3. QED
  BY <1>1, <1>2, InitHonest, PTL DEF Spec
=============================================================================
