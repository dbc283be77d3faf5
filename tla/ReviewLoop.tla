----------------------------- MODULE ReviewLoop -----------------------------
(***************************************************************************)
(* The checks of one candidate: the loop of generation/executor.ts over    *)
(* sessions (generation/review.ts), the route of each receipt              *)
(* (generation/review-routing.ts) and what the repository retries,         *)
(* continues and finishes.  A session is given the behaviours that no      *)
(* earlier one passed and returns a receipt for exactly these.             *)
(***************************************************************************)
EXTENDS Naturals, FiniteSets

CONSTANTS Behaviors, Required,   \* the plan, and what of it must pass
          MaxAttempt,            \* GENERATION_ATTEMPT_LIMIT
          NoReceipt

VARIABLES at,        \* where the executor's loop is
          reviewers, \* reviewers this revision has had
          ledger,    \* behaviours that saved continuations report as passed
          receipt, spent, late,
          verdict, attempt
loop == <<at, reviewers, ledger, receipt, spent, late, verdict, attempt>>

Init ==
    /\ at = "queue" /\ reviewers = 0 /\ ledger = {} /\ receipt = NoReceipt
    /\ spent = FALSE          \* the run's tool calls are used up
    /\ late = FALSE           \* the window of the current session is over
    /\ verdict = "none" /\ attempt \in 1..MaxAttempt

pending == Behaviors \ ledger
passedIn(items) == {b \in DOMAIN items : items[b] = "passed"}

-----------------------------------------------------------------------------
\* The role is inserted with the preview it is bound to, and started.
queueReviewer ==
    /\ at = "queue" /\ reviewers' = 1 /\ at' = "review"
    /\ UNCHANGED <<ledger, receipt, spent, late, verdict, attempt>>

\* shown: every item that is not blocked cites an action on the candidate, or, where the
\* behaviour only asks to look, an observation with a screenshot.
Receipt(items, marker, incomplete, infrastructure) ==
    [items |-> items, marker |-> marker, incomplete |-> incomplete,
     infrastructure |-> infrastructure, shown |-> TRUE]
Reported ==
    \E i \in [pending -> {"passed", "failed", "blocked"}], inc \in BOOLEAN, cited \in BOOLEAN :
        receipt' = [receipt EXCEPT !.items = i, !.incomplete = @ \/ inc, !.shown = cited]
SessionKinds == {"review", "prepare", "scripted", "model", "verify"}
Keep == UNCHANGED <<reviewers, ledger, late, verdict, attempt>>

\* runReview: the plan fits the window, the sandbox answers and shows the candidate.
Admit ==
    /\ at = "review" /\ at' = "prepare" /\ late' = FALSE
    /\ UNCHANGED <<reviewers, ledger, receipt, spent, verdict, attempt>>

\* Programs are compiled; a behaviour without one leaves the check incomplete.
Prepare ==
    /\ at = "prepare" /\ at' = "scripted" /\ Keep /\ UNCHANGED spent
    /\ \E invalid \in BOOLEAN : receipt' = Receipt([b \in pending |-> "blocked"], FALSE, invalid, FALSE)

\* The scripted pass reports every behaviour, or leaves the session to the model:
\* nothing could be run, or the browser's transport failed.
RunScripted ==
    /\ at = "scripted" /\ Keep /\ UNCHANGED spent
    /\ \/ at' = "model" /\ UNCHANGED receipt
       \/ at' = "verify" /\ Reported

\* runReviewer (ReviewSession); the tool calls it used may be the run's last.
RunModel ==
    /\ at = "model" /\ at' = "verify" /\ Keep /\ spent' \in {spent, TRUE}
    /\ Reported

\* The second check of source and marker, after which the items count.
VerifyVersion ==
    /\ at = "verify" /\ at' = "receipt" /\ receipt' = [receipt EXCEPT !.marker = TRUE]
    /\ Keep /\ UNCHANGED spent

\* catch: a failure that is not the run's own blocks every item, whatever the session
\* found; the transport's failures are marked once the reviewer had started.
Interrupt ==
    /\ at \in SessionKinds /\ at' = "receipt" /\ Keep /\ UNCHANGED spent
    /\ \E incomplete \in BOOLEAN, infra \in IF at \in {"review", "scripted"} THEN {FALSE} ELSE BOOLEAN :
          receipt' = Receipt([b \in pending |-> "blocked"], FALSE, incomplete, infra)

\* A lost lease, a cancelled run, a browser that may be open, a failed model: no
\* receipt, and the executor ends the run; it also does when a receipt is refused.
Throw ==
    /\ at \in SessionKinds \union {"receipt", "finish"} /\ at' = "done" /\ verdict' = "error"
    /\ UNCHANGED <<reviewers, ledger, receipt, spent, late, attempt>>

\* classifyReviewRoute over the session's own items; what it does not report, a
\* behaviour of the ledger included, is pending.  The executor passes no diagnoses
\* and no history, so the routes that need them are left out.
Route(r) ==
    LET passed == passedIn(r.items) \intersect Required
        failed == {b \in Required \intersect DOMAIN r.items : r.items[b] = "failed"}
    IN IF ~r.marker \/ r.incomplete THEN "reviewer"
       ELSE IF Required = {} THEN "coordinator"
       ELSE IF passed = Required THEN "accept"
       ELSE IF failed # {} THEN "builder" ELSE "reviewer"

\* retryReviewer: a second session of the same pending set, once per revision.
Retryable == receipt.infrastructure /\ ~spent /\ reviewers < 2
retryReviewer ==
    /\ at = "receipt" /\ Retryable
    /\ reviewers' = reviewers + 1 /\ at' = "review" /\ receipt' = NoReceipt
    /\ UNCHANGED <<ledger, spent, late, verdict, attempt>>

\* validatedReview: the retained passes and the session's items make the plan.
result == [b \in Behaviors |-> IF b \in ledger THEN "passed" ELSE receipt.items[b]]

\* validatedReview: nothing is stored of a receipt with a verdict that cites no action on
\* the candidate after which something was observed.
Supported == receipt.shown

\* Faulty variant: a continuation for whatever is pending, passes or not.
ContinuableAnyway == receipt.marker /\ passedIn(result) # Behaviors
\* continueReviewer: every continuation adds a pass, so the plan bounds the loop.
Continuable ==
    /\ receipt.marker /\ passedIn(result) # Behaviors
    /\ passedIn(receipt.items) # {}

Reroute == ~Retryable /\ Route(receipt) = "reviewer" /\ ~spent /\ Continuable
continueReviewer ==
    /\ at = "receipt" /\ Reroute /\ Supported
    /\ ledger' = ledger \union passedIn(receipt.items)
    \* Counted to two: nothing but retryReviewer reads the count.
    /\ reviewers' = 2 /\ at' = "review" /\ receipt' = NoReceipt
    /\ UNCHANGED <<spent, late, verdict, attempt>>

\* break: no further session.
Leave ==
    /\ at = "receipt" /\ ~Retryable /\ ~Reroute /\ at' = "finish"
    /\ UNCHANGED <<reviewers, ledger, receipt, spent, late, verdict, attempt>>

\* The session's window ends while the result is being stored.
WindowEnds ==
    /\ at = "finish" /\ ~late /\ late' = TRUE
    /\ UNCHANGED <<at, reviewers, ledger, receipt, spent, verdict, attempt>>

\* finishReview's verdict.
Outcome ==
    IF late \/ receipt.incomplete \/ ~receipt.marker \/ (\E b \in Required : result[b] = "blocked")
    THEN "blocked"
    ELSE IF \E b \in Required : result[b] = "failed" THEN "failed" ELSE "passed"

\* The transaction reads the clock again before it commits; one that timed out is
\* rolled back and the same evidence stored once more, then as blocked.
finishReview ==
    /\ at = "finish" /\ Supported /\ at' = "done" /\ verdict' = Outcome
    /\ UNCHANGED <<reviewers, ledger, receipt, spent, late, attempt>>

\* A failed check of an early attempt sends the candidate to the builder; the next
\* revision has its own reviewers and no ledger.
Repairable == verdict = "failed" /\ attempt < MaxAttempt
Repair ==
    /\ at = "done" /\ Repairable
    /\ attempt' = attempt + 1 /\ at' = "queue" /\ reviewers' = 0 /\ ledger' = {}
    /\ receipt' = NoReceipt /\ late' = FALSE /\ verdict' = "none" /\ UNCHANGED spent

Next ==
    \/ queueReviewer \/ Admit \/ Prepare \/ RunScripted \/ RunModel \/ VerifyVersion
    \/ Interrupt \/ Throw \/ retryReviewer \/ continueReviewer
    \/ Leave \/ WindowEnds \/ finishReview \/ Repair

-----------------------------------------------------------------------------
TypeOK ==
    /\ at \in {"queue", "receipt", "finish", "done"} \union SessionKinds /\ reviewers \in 0..2
    /\ ledger \subseteq Behaviors /\ {spent, late} \subseteq BOOLEAN
    /\ at \in {"receipt", "finish"} => DOMAIN receipt.items = pending
    /\ verdict \in {"none", "passed", "failed", "blocked", "error"} /\ attempt \in 1..MaxAttempt

\* A candidate is accepted on a last session that ended in time on the verified source,
\* and only when every required behaviour passed, with an action shown for it, in this
\* session or in one whose passes were saved, whatever retries, continuations and
\* interruptions came before.
AcceptedIsWhole ==
    verdict = "passed" =>
        /\ receipt.marker /\ receipt.shown /\ ~receipt.incomplete /\ ~late
        /\ \A b \in Required : b \in ledger \/ receipt.items[b] = "passed"

\* Sessions follow one another without a fixed limit, even with no tool calls spent;
\* the loop ends all the same.
LoopEnds == <>(at = "done" /\ ~Repairable)
=============================================================================
