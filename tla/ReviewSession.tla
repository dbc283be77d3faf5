---------------------------- MODULE ReviewSession ----------------------------
(***************************************************************************)
(* One model check of a candidate: runtime/reviewer.ts.  The model drives  *)
(* a browser through tools, cites what it saw and records a verdict for    *)
(* every behaviour.  An observation is a number, an event or a screenshot  *)
(* its place in the list; a tool's arguments are whatever a model may say. *)
(***************************************************************************)
EXTENDS Integers, Sequences, FiniteSets, TLC

CONSTANTS Behaviors,     \* the behaviours this session has to report
          RenderOnly,    \* those that ask only for a static render
          MaxTools,      \* maxTools, the two bootstrap calls included
          MaxUnrecorded, \* MAX_UNRECORDED_ACTIONS
          MaxShots,      \* MAX_CHECK_ARTIFACTS
          MaxRefs,       \* a bound on the evidence and the images one item cites
          None

VARIABLES evidence, shots, view, drafts, failedInput, pageError, spent, turn, decision, outcome
session == <<evidence, shots, view, drafts, failedInput, pageError, spent, turn, decision, outcome>>
page == <<evidence, shots, view, failedInput>>

NoAction == [by |-> None, act |-> "none"]

\* The service opens the page and takes the first screenshot before the first request.
Bootstrap ==
    /\ evidence = <<[by |-> None, act |-> "none", obs |-> 1]>>
    /\ shots = <<[obs |-> 1, delivered |-> FALSE]>>
    /\ view = [opened |-> TRUE, obs |-> 1, seen |-> 1, last |-> NoAction]
Init ==
    /\ Bootstrap
    /\ drafts = [b \in Behaviors |-> None]
    /\ failedInput = {} /\ pageError = FALSE
    /\ spent = [tools |-> 2, invalid |-> 0, rejected |-> FALSE, pending |-> None, unrecorded |-> 0]
    /\ turn = "request" /\ decision = None /\ outcome = None

-----------------------------------------------------------------------------
Events == DOMAIN evidence
validAction(e) == evidence[e].act = "input"

\* What a report or a record may name: anything of this session, or nothing.
Items == [verdict : {"passed", "failed", "blocked"},
          cites : {S \in SUBSET Events : Cardinality(S) <= MaxRefs},
          shots : {S \in SUBSET DOMAIN shots : Cardinality(S) <= MaxRefs}]

\* canonicalItem: a delivered screenshot taken after the behaviour's cited action adds
\* its own observation, when exactly one event of that behaviour carries it.
canonicalItem(b, item) ==
    LET anchors == {e \in item.cites : evidence[e].by = b /\ validAction(e)}
        later(s) == {e \in Events : evidence[e].obs = shots[s].obs /\ evidence[e].by = b}
        added == UNION {later(s) : s \in {s \in item.shots :
                     /\ shots[s].delivered /\ Cardinality(later(s)) = 1
                     /\ \A e \in later(s), a \in anchors : e > a}}
    IN IF item.verdict = "passed" /\ anchors # {}
       THEN [item EXCEPT !.cites = @ \union added] ELSE item

\* itemProblem: "none", or why the item is refused.
itemProblem(b, item, deferDelivery, broken) ==
    LET actions == {e \in item.cites : validAction(e)}
        shown == {evidence[e].obs : e \in IF actions # {} THEN actions ELSE item.cites}
        failedKeys == {e \in item.cites : evidence[e].by = b /\ evidence[e].act = "failed"}
    IN IF item.cites = {} THEN "ACTION_EVIDENCE_REQUIRED"
       ELSE IF item.verdict # "blocked" /\ (b \in failedInput \/ (actions = {} /\ failedKeys # {}))
       THEN "INPUT_FAILED"
       ELSE IF item.verdict # "blocked" /\ actions = {} /\ ~(b \in RenderOnly /\ item.shots # {})
       THEN "ACTION_EVIDENCE_REQUIRED"
       ELSE IF item.verdict = "passed" /\ ~\E s \in item.shots :
                (deferDelivery \/ shots[s].delivered) /\ shots[s].obs \in shown
       THEN "IMAGE_EVIDENCE_REQUIRED"
       ELSE IF item.verdict = "passed" /\ broken THEN "RUNTIME_ERROR" ELSE "none"

\* reportProblem: every behaviour once, and no item with a problem of its own.
reportAccepted(items, broken) ==
    \A b \in Behaviors : items[b] # None /\ itemProblem(b, items[b], FALSE, broken) = "none"

\* Faulty variant: the draft is kept as recorded, its image perhaps never shown.
keptAsRecorded(b) ==
    IF drafts[b] # None THEN drafts[b] ELSE [verdict |-> "blocked", cites |-> {}, shots |-> {}]
\* What an interrupted check keeps: a draft only if it meets the complete rule now.
kept(b) ==
    IF drafts[b] # None /\ itemProblem(b, drafts[b], FALSE, pageError) = "none" THEN drafts[b]
    ELSE [verdict |-> "blocked", cites |-> {}, shots |-> {}]

\* catch and finally: what an error leaves.  A timeout always keeps the drafts, these
\* failures do when there are any; a browser that may still be open loses them.
Preserved == {"MODEL_FAILED", "TOOL_BUDGET_EXCEEDED", "AGENT_OUTPUT_INVALID",
              "REVIEWER_TOOL_FAILED", "REVIEW_EVIDENCE_TOO_LARGE"}
Thrown == [kind |-> "thrown"]
caught(code) ==
    IF code = "REVIEW_TIMEOUT" \/ (code \in Preserved /\ \E b \in Behaviors : drafts[b] # None)
    THEN {Thrown, [kind |-> "partial", items |-> [b \in Behaviors |-> kept(b)]]} ELSE {Thrown}
fail(code) == outcome' \in caught(code)'

-----------------------------------------------------------------------------
\* A tool call of the current turn: active(), no decision yet, a call left.
Call ==
    /\ turn \in {"answer", "tools"} /\ outcome = None /\ decision = None /\ spent.tools < MaxTools
    /\ turn' = "tools"
Spend(n) == spent' = [spent EXCEPT !.tools = @ + n]

\* observe: the events of a new observation; an observation without an action of its
\* own is credited to the last one, and a key batch lends it no keys.
observe(events, opened) ==
    /\ evidence' = evidence \o [i \in DOMAIN events |-> events[i] @@ [obs |-> view.seen + 1]]
    /\ view' = [opened |-> opened, obs |-> view.seen + 1, seen |-> view.seen + 1,
                last |-> events[Len(events)]]

requireRecordBeforeAction(b, n) ==
    ~(spent.pending = b /\ spent.unrecorded + n > MaxUnrecorded)
noteBehaviorAction(b, n) ==
    spent' = [spent EXCEPT !.tools = @ + n, !.pending = b,
              !.unrecorded = IF spent.pending = b THEN @ + n ELSE n]

\* browser_click, fill, select, press and scroll: the model must hold the latest
\* observation; a scroll and a Tab are no action ("passive").
Act(b, act) ==
    /\ Call /\ view.obs # 0 /\ requireRecordBeforeAction(b, 1)
    /\ observe(<<[by |-> b, act |-> act]>>, view.opened)
    /\ noteBehaviorAction(b, 1)
    /\ UNCHANGED <<shots, drafts, failedInput, pageError, decision, outcome>>

\* browser_reload: the page itself must have been opened before.
Reload(b) == view.opened /\ Act(b, "input")

\* browser_form: two fields; each step is a call and an observation of its own.
Form(b) ==
    /\ Call /\ view.obs # 0 /\ requireRecordBeforeAction(b, 2)
    /\ UNCHANGED <<shots, drafts, failedInput, pageError, decision>>
    /\ IF spent.tools + 2 > MaxTools
       THEN Spend(1) /\ UNCHANGED <<evidence, view>> /\ fail("TOOL_BUDGET_EXCEEDED")
       ELSE /\ evidence' = evidence \o [i \in 1..2 |-> [by |-> b, act |-> "input", obs |-> view.seen + i]]
            /\ view' = [view EXCEPT !.obs = view.seen + 2, !.seen = @ + 2, !.last = [by |-> b, act |-> "input"]]
            /\ noteBehaviorAction(b, 2) /\ UNCHANGED outcome

\* browser_steps: one step credited to several behaviours, with its screenshot.
Steps ==
    /\ Call /\ view.opened /\ view.obs # 0 /\ Len(shots) < MaxShots
    /\ \E order \in {o \in [1..Cardinality(Behaviors) -> Behaviors] :
                        \A i, j \in DOMAIN o : o[i] = o[j] => i = j} :
          observe([i \in DOMAIN order |-> [by |-> order[i], act |-> "input"]], TRUE)
    /\ shots' = Append(shots, [obs |-> view.seen + 1, delivered |-> FALSE])
    /\ spent' = [spent EXCEPT !.tools = @ + 1, !.pending = None, !.unrecorded = 0]
    /\ UNCHANGED <<drafts, failedInput, pageError, decision, outcome>>

\* browser_key_batch: a failed key marks the behaviour until the same sequence
\* succeeds; only a successful batch is photographed.
KeyBatch(b, ok) ==
    /\ Call /\ view.opened /\ view.obs # 0 /\ requireRecordBeforeAction(b, 1)
    /\ Len(shots) < MaxShots
    /\ evidence' = Append(evidence, [by |-> b, act |-> IF ok THEN "input" ELSE "failed", obs |-> view.seen + 1])
    /\ view' = [view EXCEPT !.obs = view.seen + 1, !.seen = @ + 1, !.last = [by |-> b, act |-> "passive"]]
    /\ shots' = IF ok THEN Append(shots, [obs |-> view.seen + 1, delivered |-> FALSE]) ELSE shots
    /\ IF ok THEN failedInput' \in {failedInput, failedInput \ {b}}
             ELSE failedInput' = failedInput \union {b}
    /\ noteBehaviorAction(b, 1)
    /\ UNCHANGED <<drafts, pageError, decision, outcome>>

\* browser_reset, browser_open and browser_resize forget the last action; the reset
\* also ends the count of unrecorded ones.
Reset ==
    /\ Call /\ observe(<<NoAction>>, TRUE)
    /\ spent' = [spent EXCEPT !.tools = @ + 1, !.pending = None, !.unrecorded = 0]
    /\ UNCHANGED <<shots, drafts, failedInput, pageError, decision, outcome>>
Reopen ==
    /\ Call /\ observe(<<NoAction>>, TRUE) /\ Spend(1)
    /\ UNCHANGED <<shots, drafts, failedInput, pageError, decision, outcome>>
Resize == view.opened /\ Reopen

\* browser_observe: the new observation still belongs to the last action.
Observe ==
    /\ Call
    /\ observe(<<[by |-> view.last.by, act |-> view.last.act]>>, view.opened) /\ Spend(1)
    /\ UNCHANGED <<shots, drafts, failedInput, pageError, decision, outcome>>

Screenshot ==
    /\ Call /\ Len(shots) < MaxShots
    /\ shots' = Append(shots, [obs |-> view.obs, delivered |-> FALSE]) /\ Spend(1)
    /\ UNCHANGED <<evidence, view, drafts, failedInput, pageError, decision, outcome>>

Logs ==
    /\ Call /\ pageError' \in {pageError, TRUE} /\ Spend(1)
    /\ UNCHANGED <<evidence, shots, view, drafts, failedInput, decision, outcome>>

\* source_read, observation_read, screenshot_read, and a browser call that is only
\* answered: its arguments are malformed, or the reserve is all that is left.
Read == Call /\ Spend(1) /\ UNCHANGED <<page, drafts, pageError, decision, outcome>>
Refuse == Read

\* A correctable mistake; a stale reference may cost the latest observation.
Mistake ==
    /\ Call /\ Spend(1)
    /\ view' = [view EXCEPT !.obs = 0, !.last = NoAction]
    /\ UNCHANGED <<evidence, shots, failedInput, drafts, pageError, decision, outcome>>

\* The browser's own failure ends the check, and so does evidence that is not this
\* candidate's or no longer fits.
BrowserFails ==
    /\ Call /\ Spend(1) /\ UNCHANGED <<page, drafts, pageError, decision>>
    /\ \E code \in {"REVIEWER_TOOL_FAILED", "REVIEW_EVIDENCE_TOO_LARGE", "REVIEW_OBSERVATION_UNBOUND"} :
          fail(code)

\* invalid: the rejections of one model turn count once; the third turn is fatal.
invalid ==
    LET n == spent.invalid + (IF spent.rejected THEN 0 ELSE 1) IN
    /\ spent' = [spent EXCEPT !.tools = @ + 1, !.invalid = n, !.rejected = TRUE]
    /\ IF n >= 3 THEN fail("AGENT_OUTPUT_INVALID") ELSE UNCHANGED outcome

\* record_behavior: delivery of the image may still be due.  The last draft makes
\* the report, which is held to the complete rule after one more look at the logs.
recorded(b) ==
    spent' = [spent EXCEPT !.tools = @ + 1, !.invalid = 0, !.rejected = FALSE,
              !.pending = IF @ = b THEN None ELSE @,
              !.unrecorded = IF spent.pending = b THEN 0 ELSE @]
record_behavior(b, said) ==
    LET item == canonicalItem(b, said)
        now == [drafts EXCEPT ![b] = item]
        whole == \A c \in Behaviors : now[c] # None
    IN /\ Call /\ UNCHANGED page
       /\ IF itemProblem(b, item, TRUE, pageError) # "none"
          THEN UNCHANGED <<drafts, pageError, decision>> /\ invalid
          ELSE /\ drafts' = now
               /\ IF whole THEN pageError' \in {pageError, TRUE} ELSE UNCHANGED pageError
               /\ IF whole /\ ~reportAccepted(now, pageError')
                  THEN UNCHANGED decision /\ invalid
                  ELSE /\ decision' = IF whole THEN now ELSE None
                       /\ recorded(b) /\ UNCHANGED outcome

\* submit_review: the whole report at once, after the same look at the logs.
submit_review(said) ==
    LET items == [b \in Behaviors |-> canonicalItem(b, said[b])]
    IN /\ Call /\ UNCHANGED <<page, drafts>> /\ pageError' \in {pageError, TRUE}
       /\ IF reportAccepted(items, pageError')
          THEN decision' = items /\ Spend(1) /\ UNCHANGED outcome
          ELSE UNCHANGED decision /\ invalid

-----------------------------------------------------------------------------
\* Every image the request carries next to its own tool result counts as delivered:
\* those taken so far, unless the provider refuses it or a compaction dropped them.
delivered(carried) == [s \in DOMAIN shots |-> [shots[s] EXCEPT !.delivered = @ \/ carried]]
Request ==
    /\ turn = "request" /\ outcome = None /\ turn' = "answer"
    /\ \E carried \in BOOLEAN : shots' = delivered(carried)
    /\ spent' = [spent EXCEPT !.rejected = FALSE]
    /\ UNCHANGED <<evidence, view, drafts, failedInput, pageError, decision, outcome>>

\* A turn with calls leads to the next request, unless the report or the budget
\* stops the session; an answer without calls ends the prompt.
EndTurn ==
    /\ turn \in {"answer", "tools"} /\ outcome = None
    /\ turn' = IF turn = "tools" /\ decision = None /\ spent.tools < MaxTools THEN "request" ELSE "idle"
    /\ UNCHANGED <<page, drafts, pageError, spent, decision, outcome>>

\* The one prompt for a report that never came.
Correctable == decision = None /\ spent.invalid = 0 /\ spent.tools < MaxTools
Correct ==
    /\ turn = "idle" /\ outcome = None /\ Correctable
    /\ spent' = [spent EXCEPT !.invalid = 1] /\ turn' = "request"
    /\ UNCHANGED <<page, drafts, pageError, decision, outcome>>

\* What else ends a check at any time: the wall clock, the provider, a call beyond
\* the budget, a missing report, a role that is no longer the run's.
StopCodes == {"REVIEW_TIMEOUT", "MODEL_FAILED", "TOOL_BUDGET_EXCEEDED", "AGENT_OUTPUT_INVALID", "ROLE_NOT_ACTIVE",
              "EVENT_APPEND_FAILED"}
Stop(code) ==
    /\ outcome = None
    /\ CASE code = "MODEL_FAILED" -> turn \in {"request", "answer"}
         [] code = "TOOL_BUDGET_EXCEEDED" -> turn = "tools" /\ spent.tools = MaxTools
         [] code = "AGENT_OUTPUT_INVALID" -> turn = "idle" /\ decision = None /\ ~Correctable
         [] OTHER -> TRUE
    /\ UNCHANGED <<page, drafts, pageError, spent, turn, decision>> /\ fail(code)

Complete ==
    /\ turn = "idle" /\ decision # None /\ outcome = None
    /\ outcome' \in {[kind |-> "complete", items |-> decision], Thrown}
    /\ UNCHANGED <<page, drafts, pageError, spent, turn, decision>>

Next ==
    \/ \E b \in Behaviors : \/ \E act \in {"input", "passive"} : Act(b, act)
                            \/ Reload(b) \/ Form(b) \/ \E ok \in BOOLEAN : KeyBatch(b, ok)
                            \/ \E item \in Items : record_behavior(b, item)
    \/ \E said \in [Behaviors -> Items] : submit_review(said)
    \/ Steps \/ Reset \/ Reopen \/ Resize \/ Observe \/ Screenshot \/ Logs \/ Read \/ Refuse \/ Mistake \/ BrowserFails
    \/ Request \/ EndTurn \/ Correct \/ Complete
    \/ \E code \in StopCodes : Stop(code)

-----------------------------------------------------------------------------
TypeOK ==
    /\ \A e \in Events : evidence[e].by \in Behaviors \union {None} /\ evidence[e].obs \in 1..view.seen
    /\ \A s \in DOMAIN shots : shots[s].obs \in 0..view.seen
    /\ \A b \in Behaviors : drafts[b] # None => drafts[b].cites \subseteq Events
    /\ spent.tools \in 0..MaxTools /\ spent.invalid \in 0..3

\* Every behaviour a check returns as passed, the interrupted check included, rests on
\* an image that the model was given and that shows the page after a real action (or
\* the render, where the plan asks for no more), and on keys that all arrived.
PassedIsShown ==
    outcome # None /\ outcome.kind # "thrown" => \A b \in Behaviors :
        LET item == outcome.items[b] IN item.verdict = "passed" =>
            /\ \E s \in item.shots, e \in item.cites :
                  /\ shots[s].delivered /\ shots[s].obs = evidence[e].obs
                  /\ validAction(e) \/ b \in RenderOnly
            /\ b \notin failedInput /\ ~pageError
=============================================================================
