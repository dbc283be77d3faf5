--------------------------- MODULE CapacityModel ---------------------------
(***************************************************************************)
(* The pre-flight that compares the work a plan implies with the limits    *)
(* its check will run under (runtime/capacity.ts, runtime/budgets.ts,      *)
(* called by generation/review.ts).  One state is a plan's size and the    *)
(* limits a caller lowers; one step assesses it.  Byte counts and calls    *)
(* are exact; the messages are left out.                                   *)
(***************************************************************************)
EXTENDS Naturals, Sequences, Functions

CONSTANTS MaxBehaviours,  \* plans up to this size are assessed
          Overrides,      \* for each batchable resource, the lowered limits a caller may try
          None

VARIABLES planned, lowered, assessment
capacity == <<planned, lowered, assessment>>

Least(a, b) == IF a < b THEN a ELSE b
Greatest(a, b) == IF a < b THEN b ELSE a

\* The headroom of capacity.ts is 3/2: eight calls for each 16/3 measured ones.
CallsPerBehavior == 8
WithHeadroom(work) == (3 * work + 1) \div 2

-----------------------------------------------------------------------------
\* budgets.ts: one review, and everything a run does, including two repairs.
reviewToolLimitForPlan(n) == Greatest(280, Least(n * CallsPerBehavior, 600))
generationToolLimitForPlan(n) ==
    Least(12 + 3 * (80 + 600), Greatest(384, 12 + 3 * (80 + reviewToolLimitForPlan(n))))

\* What each behaviour costs a check, and what a check costs whatever its behaviours.
Cost == [calls |-> CallsPerBehavior, fixedCalls |-> 3, coordinator |-> 12, builder |-> 64,
         entries |-> 7, bytes |-> 24 * 1024, artifacts |-> 1]
BehaviorPlanBytes == 128 + 27 + 9 * 37 + 5 * 52 + 20 + 19
PlanBytes(n) == 412 + n * (BehaviorPlanBytes + 7)
HandoffBytes(n) == PlanBytes(n) + 422 + 15053
rawEnvelope(n) ==
    [evidenceEntries |-> n * Cost.entries, evidenceBytes |-> n * Cost.bytes,
     artifacts |-> n * Cost.artifacts, planBytes |-> PlanBytes(n), handoffBytes |-> HandoffBytes(n)]

Batchable == {"reviewToolCalls", "evidenceEntries", "evidenceBytes", "artifacts"}
PlanWide == {"planBehaviours", "runToolCalls", "planBytes", "handoffBytes"}

currentLimits(n) ==
    [planBehaviours |-> 80, reviewToolCalls |-> reviewToolLimitForPlan(n),
     runToolCalls |-> generationToolLimitForPlan(n), evidenceEntries |-> 4096,
     evidenceBytes |-> 2 * 1024 * 1024, artifacts |-> 80,
     planBytes |-> 96 * 1024, handoffBytes |-> 160 * 1024]
required(n) ==
    LET raw == rawEnvelope(n)
        calls == n * Cost.calls + Cost.fixedCalls
        exact == [planBehaviours |-> n, reviewToolCalls |-> calls,
                  runToolCalls |-> Cost.coordinator + Cost.builder + calls]
    IN [r \in Batchable \cup PlanWide |->
           IF r \in DOMAIN raw THEN WithHeadroom(raw[r]) ELSE exact[r]]

\* The limits under test: what the caller lowers replaces what the code enforces.
LimitsUnder(n, over) ==
    [r \in Batchable \cup PlanWide |->
        IF r \in DOMAIN over /\ over[r] # None THEN over[r] ELSE currentLimits(n)[r]]
compare(n, over) ==
    {r \in Batchable \cup PlanWide : required(n)[r] > LimitsUnder(n, over)[r]}

\* A batch is checked against the limit a review of its own size runs under.
oneBatchFits(n, over) == compare(n, over) \cap Batchable = {}
largestBatch(over) ==
    LET fits == {size \in 1..80 : oneBatchFits(size, over)} IN
    IF fits = {} THEN 0 ELSE CHOOSE n \in fits : \A k \in fits : k <= n
splitIntoBatches(n, most) ==
    [i \in 1..((n + most - 1) \div most) |-> Least(most, n - (i - 1) * most)]

Verdict(over, most) ==
    IF over = {} THEN "ok"
    ELSE IF over \cap PlanWide # {} \/ most = 0 THEN "refuse" ELSE "batch"

Init ==
    /\ planned \in 1..MaxBehaviours /\ assessment = None
    /\ lowered \in UNION {[S -> Overrides] : S \in {{r} : r \in Batchable}}

\* In shadow mode nothing is refused: the caller logs the verdict and goes on.
preflightCapacity ==
    /\ assessment = None
    /\ LET over == compare(planned, lowered)
           most == largestBatch(lowered)
       IN assessment' = [verdict |-> Verdict(over, most),
                         batches |-> IF most = 0 THEN <<>> ELSE splitIntoBatches(planned, most)]
    /\ UNCHANGED <<planned, lowered>>

Next == preflightCapacity

-----------------------------------------------------------------------------
CapacityTypeOK ==
    /\ planned \in 1..MaxBehaviours
    /\ assessment = None \/ assessment.verdict \in {"ok", "batch", "refuse"}

Total(s) == FoldFunction(LAMBDA a, b : a + b, 0, s)

\* A recommended split can be carried out: its batches cover the plan, each of them,
\* the remainder included, fits every limit a review of its size runs under, and the
\* reviews it takes still fit what the whole run may spend; and no split is
\* recommended for work that only a smaller plan could fit.
SplitCanRun ==
    assessment # None /\ assessment.verdict = "batch" =>
        LET batches == assessment.batches
            calls == Total([i \in DOMAIN batches |-> required(batches[i]).reviewToolCalls])
        IN /\ Total(batches) = planned /\ Len(batches) > 1
           /\ \A i \in DOMAIN batches : oneBatchFits(batches[i], lowered)
           /\ required(planned).planBytes <= currentLimits(planned).planBytes
           /\ Cost.coordinator + Cost.builder + calls <= generationToolLimitForPlan(planned)
=============================================================================
