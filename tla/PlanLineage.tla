---------------------------- MODULE PlanLineage -----------------------------
(***************************************************************************)
(* What a project has promised, from version to version.  The plan of a    *)
(* run lists behaviours; the next plan has to keep what the plan of its    *)
(* base promised or replace it where the user asked for it                 *)
(* (packages/contracts/src/planning.ts).  A coordinator submits a whole    *)
(* plan or an increment that the service composes                          *)
(* (runtime/coordinator-plan.ts); the plan it is compared with was read    *)
(* when the request was accepted and again if the request was rebased      *)
(* (data/generation.ts).  Programs of behaviours are VerificationPrograms' *)
(* subject; titles and wording that is compared as equal are left out.     *)
(***************************************************************************)
EXTENDS Naturals, Sequences, FiniteSets, FiniteSetsExt, Functions

CONSTANTS Size,           \* ids, 99 in the code
          Groups,         \* G1 .. G5
          Texts,          \* what may be required of a behaviour
          TextBytes,      \* [Texts -> Nat], what a behaviour of that text takes of a plan
          LinkBytes,      \* what a replacement on record takes
          MostBehaviors, MostReplacements, MostBytes,   \* 80, 80 and 96 KiB in the code
          MaxVersions, None

Ids == 1..Size
Behaviour == [text : Texts, required : BOOLEAN, group : Groups]

VARIABLES versions,       \* what was saved: [base, plan, asked, accepted]
          current,        \* the current version, 0 for none
          waiting,        \* the queued request: [base, previous, expected, since, retryOf]
          work            \* the run that was dispatched: [base, previous, retryOf, asked, plan]
lineage == <<versions, current, waiting, work>>

\* A plan gives each id of its behaviours what it stands for and remembers which id took
\* the place of which.  Plans of old projects are flat; texts are only ever compared, so
\* that it does not matter which one an old plan has.
Flat(plan) == \E b \in DOMAIN plan.of : plan.of[b].group = None
Legacy == {[of |-> [b \in {1} |-> [text |-> x, required |-> r, group |-> None]],
            replaced |-> <<>>] : x \in {CHOOSE y \in Texts : TRUE}, r \in BOOLEAN}

\* No version; one made from a template, without a plan; one with a plan of old.
Init ==
    /\ versions \in {<<>>} \union {<<[base |-> 0, plan |-> p, asked |-> {}, accepted |-> TRUE]>> :
                                       p \in {None} \union Legacy}
    /\ current = Len(versions) /\ waiting = None /\ work = None

-----------------------------------------------------------------------------
\* Who stands for b in the end: reachesCurrent, with its chain.
Heir(plan, b) ==
    LET step(x) == IF x \in DOMAIN plan.replaced /\ x \notin DOMAIN plan.of
                   THEN plan.replaced[x] ELSE x
        heir[n \in 0..Size] == IF n = 0 THEN b ELSE step(heir[n - 1])
    IN  heir[Size]

PlanBytes(plan) ==
    FoldFunction(LAMBDA b, sum : TextBytes[b.text] + sum, 0, plan.of)
        + LinkBytes * Cardinality(DOMAIN plan.replaced)
\* Faulty variant: a plan as long as the schema allows is refused.
WithinSchemaStrictly(plan) ==
    /\ Cardinality(DOMAIN plan.of) < MostBehaviors
    /\ Cardinality(DOMAIN plan.replaced) < MostReplacements
    /\ PlanBytes(plan) <= MostBytes
WithinSchema(plan) ==
    /\ Cardinality(DOMAIN plan.of) <= MostBehaviors
    /\ Cardinality(DOMAIN plan.replaced) <= MostReplacements
    /\ PlanBytes(plan) <= MostBytes

\* GroupedPlanSchema: its limits hold, every group has something required, and what was
\* replaced is gone, has one heir of its own, and the last heir is there.
WellFormed(plan) ==
    /\ WithinSchema(plan)
    /\ \A g \in Groups : \E b \in DOMAIN plan.of : plan.of[b].group = g /\ plan.of[b].required
    /\ IsInjective(plan.replaced)
    /\ \A b \in DOMAIN plan.replaced :
          b \notin DOMAIN plan.of /\ Heir(plan, plan.replaced[b]) \in DOMAIN plan.of

sameObservableBehavior(x, y) == x.text = y.text /\ x.required = y.required
SameGroup(x, y) == y.group # None => x.group = y.group

\* The replacements on record stay as they are; a new one names an old behaviour that the
\* user asked to change and a new one as binding as that, in its group.
ReplacesWhatWasAsked(plan, previous, asked) ==
    \A b \in DOMAIN plan.replaced :
        LET heir == plan.replaced[b] IN
        \/ b \in DOMAIN previous.replaced
        \/ /\ b \in DOMAIN previous.of /\ b \in asked
           /\ heir \in DOMAIN plan.of \ DOMAIN previous.of
           /\ plan.of[heir].required = previous.of[b].required
           /\ SameGroup(plan.of[heir], previous.of[b])

preservesPreviousBehavior(plan, previous, asked) ==
    IF previous = None THEN DOMAIN plan.replaced = {}
    ELSE /\ \A b \in DOMAIN previous.replaced :
              b \in DOMAIN plan.replaced /\ plan.replaced[b] = previous.replaced[b]
         /\ ReplacesWhatWasAsked(plan, previous, asked)
         /\ \A b \in DOMAIN previous.of :
              IF b \in DOMAIN plan.of
              THEN sameObservableBehavior(plan.of[b], previous.of[b])
                   /\ SameGroup(plan.of[b], previous.of[b])
              ELSE previous.of[b].required => b \in DOMAIN plan.replaced

-----------------------------------------------------------------------------
\* Faulty variant: only the ids that are in the plan now are taken.
UsedNow(plan) == DOMAIN plan.of
Used(plan) == DOMAIN plan.of \union DOMAIN plan.replaced \union Range(plan.replaced)
Unused(plan) == Ids \ Used(plan)

\* composeCoordinatorIncrement: what is replaced gets the first unused id and keeps its
\* place, what is added gets the next one.
Replacing(plan, b, text) ==
    LET id == Min(Unused(plan))
    IN  [of |-> [x \in (DOMAIN plan.of \ {b}) \union {id} |->
                   IF x = id THEN [plan.of[b] EXCEPT !.text = text] ELSE plan.of[x]],
         replaced |-> [x \in DOMAIN plan.replaced \union {b} |->
                         IF x = b THEN id ELSE plan.replaced[x]]]
Adding(plan, item) ==
    [plan EXCEPT !.of = [x \in DOMAIN plan.of \union {Min(Unused(plan))} |->
                           IF x \in DOMAIN plan.of THEN plan.of[x] ELSE item]]

\* One part of a plan beside another.
Over(f, g) == [x \in DOMAIN f \union DOMAIN g |-> IF x \in DOMAIN f THEN f[x] ELSE g[x]]
\* The whole plans a model may propose on a previous one: it leaves a behaviour out, states
\* one anew, adds one (or makes the first two), and names heirs, old ones perhaps not again.
\* An id for something new is one that was given up or the next that nobody ever used.
Nothing == [of |-> <<>>, replaced |-> <<>>]
KeptBehaviors(previous, gone) ==
    LET rest == Restrict(previous.of, DOMAIN previous.of \ gone)
    IN  IF Flat(previous) THEN {[b \in DOMAIN rest |-> [rest[b] EXCEPT !.group = g]] : g \in Groups}
        ELSE {rest} \union {[rest EXCEPT ![b] = what] : b \in DOMAIN rest, what \in Behaviour}
NewIds(previous) ==
    LET few == IF Cardinality(DOMAIN previous.of) < 2 THEN 2 ELSE 1
        inOrder(f) == \A i \in f \intersect Unused(previous), j \in Unused(previous) : j < i => j \in f
    IN  {f \in SUBSET (Ids \ DOMAIN previous.of) : Cardinality(f) <= few /\ inOrder(f)}
Additions(previous) == UNION {[fresh -> Behaviour] : fresh \in NewIds(previous)}
Proposals(previous) ==
    IF previous = None THEN {[of |-> what, replaced |-> <<>>] : what \in Additions(Nothing)}
    ELSE UNION {
          {[of |-> Over(kept, what), replaced |-> Over(heirs, links)] :
              kept \in KeptBehaviors(previous, gone), links \in {previous.replaced, <<>>},
              heirs \in {<<>>} \union [gone -> DOMAIN what]} :
          gone \in {x \in SUBSET DOMAIN previous.of : Cardinality(x) <= 1},
          what \in Additions(previous)}

\* What the text of a request wants changed: at most one behaviour here.
Wishes(previous) == {{}} \union (IF previous = None THEN {} ELSE {{b} : b \in DOMAIN previous.of})
Decided(plan, asked) ==
    /\ asked \subseteq DOMAIN plan.replaced     \* a wish that is ignored is none
    /\ WellFormed(plan) /\ preservesPreviousBehavior(plan, work.previous, asked)
    /\ work' = [work EXCEPT !.plan = plan, !.asked = asked]

\* submitPlan, whole: the schema and the comparison, on the row that the service keeps.
SubmitPlan ==
    /\ work # None /\ work.plan = None
    /\ \E plan \in Proposals(work.previous), asked \in Wishes(work.previous) : Decided(plan, asked)
    /\ UNCHANGED <<versions, current, waiting>>

\* submit_increment, on a grouped plan only; it is refused when the ids run out.
Composed(previous, changed, text, added) ==
    LET plan == IF changed = {} THEN previous ELSE Replacing(previous, Min(changed), text)
    IN  IF added = None THEN plan ELSE Adding(plan, added)
Room(previous, changed, added) ==
    Cardinality(Unused(previous)) >= Cardinality(changed) + (IF added = None THEN 0 ELSE 1)
SubmitIncrement ==
    /\ work # None /\ work.plan = None /\ work.previous # None /\ ~Flat(work.previous)
    /\ \E changed \in Wishes(work.previous), asked \in Wishes(work.previous),
          text \in Texts, added \in Behaviour \union {None} :
          /\ Room(work.previous, changed, added)
          /\ Decided(Composed(work.previous, changed, text, added), asked)
    /\ UNCHANGED <<versions, current, waiting>>

\* getReviewRetryCandidate: the retry of a run whose check was blocked or did not come to
\* a verdict goes on with its saved candidate and submits its plan again, from the same
\* base, which dispatch may have moved; otherwise the coordinator plans anew.
Reusable(v) == v # 0 /\ ~versions[v].accepted /\ versions[v].base = work.base
SubmitReused ==
    /\ work # None /\ work.plan = None /\ Reusable(work.retryOf)
    /\ Decided(versions[work.retryOf].plan, versions[work.retryOf].asked)
    /\ UNCHANGED <<versions, current, waiting>>

-----------------------------------------------------------------------------
PlanOf(v) == IF v = 0 THEN None ELSE versions[v].plan

\* accept: the request is queued with the plan of what it starts from, the current version
\* or a saved candidate that was not accepted and has a plan.  The retry of a run that
\* saved a candidate starts from the current version.
Candidates == {v \in DOMAIN versions : ~versions[v].accepted /\ PlanOf(v) # None}
Accept ==
    /\ waiting = None /\ Len(versions) + (IF work = None THEN 0 ELSE 1) < MaxVersions
    /\ \E v \in {current} \union Candidates, failed \in {0} \union Candidates :
          /\ failed # 0 => v = current
          /\ waiting' = [base |-> v, previous |-> PlanOf(v), expected |-> current,
                         since |-> Len(versions), retryOf |-> failed]
    /\ UNCHANGED <<versions, current, work>>

Run(request) == [base |-> request.base, previous |-> request.previous,
                 retryOf |-> request.retryOf, asked |-> {}, plan |-> None]
\* Faulty variant: the base is moved and the plan to compare with is not read again.
RebasedBase(request) == [request EXCEPT !.base = current]
Rebased(request) == [request EXCEPT !.base = current, !.previous = PlanOf(current)]
\* prepareDispatch: when another version is current than was expected, a request goes on
\* from it if it was accepted while the request waited; otherwise, and always with a
\* candidate as its base, the request is parked.
Follows(request) == request.base = request.expected /\ current > request.since
prepareDispatch ==
    /\ waiting # None /\ work = None /\ waiting' = None
    /\ \/ waiting.expected = current /\ work' = Run(waiting)
       \/ waiting.expected # current /\ Follows(waiting) /\ work' = Run(Rebased(waiting))
       \/ waiting.expected # current /\ ~Follows(waiting) /\ UNCHANGED work
    /\ UNCHANGED <<versions, current>>

\* The run passes its check and its version is the current one; or a candidate is kept, or
\* nothing.
Saved(accepted) == Append(versions, [base |-> work.base, plan |-> work.plan,
                                     asked |-> work.asked, accepted |-> accepted])
FinishAccepted ==
    /\ work # None /\ work.plan # None /\ Len(versions) < MaxVersions
    /\ versions' = Saved(TRUE) /\ current' = Len(versions') /\ work' = None /\ UNCHANGED waiting
FinishCandidate ==
    /\ work # None /\ work.plan # None /\ Len(versions) < MaxVersions
    /\ versions' = Saved(FALSE) /\ work' = None /\ UNCHANGED <<current, waiting>>
FinishWithout ==
    /\ work # None /\ work' = None /\ UNCHANGED <<versions, current, waiting>>
Rollback ==
    /\ work = None /\ Len(versions) < MaxVersions
    /\ \E v \in DOMAIN versions : v # current /\ versions[v].accepted /\ current' = v
    /\ UNCHANGED <<versions, waiting, work>>

Next == SubmitPlan \/ SubmitIncrement \/ SubmitReused \/ Accept \/ prepareDispatch \/ FinishAccepted
        \/ FinishCandidate \/ FinishWithout \/ Rollback
Spec == Init /\ [][Next]_lineage

-----------------------------------------------------------------------------
Plans == {PlanOf(v) : v \in DOMAIN versions} \union (IF work = None THEN {} ELSE {work.plan})
TypeOK ==
    /\ current \in 0..Len(versions)
    /\ \A p \in Plans \ {None} :
          /\ DOMAIN p.of \subseteq Ids /\ DOMAIN p.replaced \subseteq Ids
          /\ Flat(p) \/ \A b \in DOMAIN p.of : p.of[b] \in Behaviour

Ancestors(v) ==
    LET line[n \in 0..Len(versions)] == IF n = 0 THEN {} ELSE {n} \union line[versions[n].base]
    IN  line[v]

\* Whatever a version required, every version that descends from it still does: by the
\* same behaviour, unchanged and in its group, or by one that took its place, in its
\* group and as binding, because somebody on the way asked for that.  Over any number of
\* runs, rollbacks, requests that waited and versions that were dropped.
PromisesKept ==
    \A v \in DOMAIN versions : \A a \in Ancestors(v) \ {v} :
        LET then == PlanOf(a)  now == PlanOf(v)
        IN  then # None => \A b \in {x \in DOMAIN then.of : then.of[x].required} :
              /\ now # None
              /\ IF b \in DOMAIN now.of
                 THEN sameObservableBehavior(now.of[b], then.of[b])
                      /\ SameGroup(now.of[b], then.of[b])
                 ELSE LET heir == Heir(now, b)
                      IN  /\ heir \in DOMAIN now.of /\ now.of[heir].required
                          /\ SameGroup(now.of[heir], then.of[b])
                          /\ \E w \in Ancestors(v) \ Ancestors(a) : b \in versions[w].asked

\* The way back is open: an increment that changes what the user asked for, or adds a
\* behaviour, is accepted as long as ids are left and the plan stays within the limits of
\* its schema, however often the plan was changed before.
Admits(previous, changed, added) ==
    /\ Room(previous, changed, added)
    /\ added # None => Cardinality(DOMAIN previous.of) < MostBehaviors
    /\ Cardinality(DOMAIN previous.replaced) + Cardinality(changed) <= MostReplacements
IncrementIsWhole ==
    work # None /\ work.plan = None =>
        \/ work.previous = None \/ Flat(work.previous)
        \/ \A changed \in Wishes(work.previous), text \in Texts, added \in Behaviour \union {None} :
              LET plan == Composed(work.previous, changed, text, added)
              IN  Admits(work.previous, changed, added) /\ PlanBytes(plan) <= MostBytes =>
                    WellFormed(plan) /\ preservesPreviousBehavior(plan, work.previous, changed)
=============================================================================
