--------------------------- MODULE ScriptedReplay ---------------------------
(***************************************************************************)
(* The pass of a check that no model drives: runtime/replay-plan.ts runs   *)
(* the compiled program of every selected behaviour in plan order through  *)
(* the kernel of runtime/replay.ts, lets runtime/visual-judgement.ts judge *)
(* the captured pixels in one question, and assembles one result.  A page  *)
(* is what the steps tell apart: whether it was observed, acted on, shown. *)
(***************************************************************************)
EXTENDS Naturals, Sequences

CONSTANTS Behaviors,    \* 1..N, in the order of the plan
          Scripts,      \* the programs a plan may hold
          Setups,       \* sessions: native programs, a judge, a resolver of controls
          MaxEvidence,  \* REVIEW_EVIDENCE_LIMIT_BYTES, in observations
          None

VARIABLES setup, script, selected,             \* inputs
          pass, current, stepAt, resolved,     \* where the pass is
          looks, acted, shown,                 \* this program: observations, an action, a screenshot
          adrift,                              \* unavailablePriorState
          admitted, signal, found, capture, judged, item, noted
replay == <<setup, script, selected, pass, current, stepAt, resolved, looks, acted, shown,
            adrift, admitted, signal, found, capture, judged, item, noted>>
inputs == <<setup, script, selected>>
program == <<stepAt, resolved, looks, acted, shown>>
results == <<admitted, found, capture, judged, item, noted>>

Acting == {"click", "keys", "reload"}     \* replayAction: the steps that act
Blank == [b \in Behaviors |-> None]

\* compilePlan: what a behaviour lacks, and the screenshot added to a bare rendering.
Reason(s) ==
    IF s.steps = <<>> THEN "missing-steps"
    ELSE IF s.assertion = None THEN "missing-assertions"
    ELSE IF ~s.fits THEN "invalid-setup"
    ELSE IF s.visual THEN "visual-evidence" ELSE "program"
Uses(s, kinds) == \E i \in DOMAIN s.steps : s.steps[i] \in kinds
Steps(s) ==
    IF Reason(s) = "program" /\ s.renders /\ ~Uses(s, Acting \union {"capture"})
    THEN Append(s.steps, "capture") ELSE s.steps

Runnable(b) ==
    \/ Reason(script[b]) = "program"
    \/ Reason(script[b]) = "visual-evidence" /\ setup.judge
\* Nothing to run and nothing to look at: the model walks through the plan.
Hopeless == \A b \in selected : ~Runnable(b) /\ Reason(script[b]) # "invalid-setup"

Init ==
    /\ setup \in Setups /\ script \in [Behaviors -> Scripts]
    /\ selected \in SUBSET Behaviors \ {{}}
    /\ pass = "compile" /\ current = 0 /\ adrift = FALSE /\ signal = "on"
    /\ stepAt = 0 /\ resolved = {} /\ looks = 0 /\ acted = FALSE /\ shown = FALSE
    /\ admitted = 0 /\ found = Blank /\ capture = Blank /\ judged = Blank
    /\ item = Blank /\ noted = Blank

-----------------------------------------------------------------------------
\* The window of the check ends, or the user stops the run: one signal, two reasons.
Abort ==
    /\ signal = "on" /\ pass \in {"next", "steps", "inspect"}
    /\ signal' \in {"REVIEW_TIMEOUT", "cancelled"}
    /\ UNCHANGED <<inputs, pass, current, adrift, program, results>>

Compile ==
    /\ pass = "compile" /\ pass' = IF Hopeless THEN "fallback" ELSE "next"
    /\ UNCHANGED <<inputs, current, adrift, signal, program, results>>

\* onCheckpoint: a verdict is announced and saved.
Checkpoint(b, v) == noted' = [noted EXCEPT ![b] = v]
Visual(b) == Reason(script[b]) = "visual-evidence"
Rest == stepAt' = 0 /\ resolved' = {} /\ looks' = 0 /\ acted' = FALSE /\ shown' = FALSE

\* A behaviour that did not reach its end: the program's is blocked, so is the capture's.
Settle(b, v) ==
    /\ IF Visual(b) THEN capture' = [capture EXCEPT ![b] = v] /\ UNCHANGED item
                    ELSE item' = [item EXCEPT ![b] = v] /\ UNCHANGED capture
    /\ IF Visual(b) /\ v = "passed" THEN UNCHANGED noted ELSE Checkpoint(b, v)
\* The next selected behaviour.  One whose predecessors did not run cannot continue
\* from their page; one that is not runnable leaves the page to nobody.
NextBehavior ==
    /\ pass = "next" /\ \E b \in selected : b > current
    /\ LET b == CHOOSE b \in selected : b > current /\ \A c \in selected : c > current => b <= c
           lost == adrift \/ (b > 1 /\ b - 1 \notin selected)
           fresh == script[b].initial = "fresh"
       IN /\ current' = b
          /\ \/ /\ ~Runnable(b) /\ adrift' = TRUE
                /\ UNCHANGED <<pass, program, results>>
             \/ /\ Runnable(b) /\ ~fresh /\ lost /\ adrift' = TRUE
                /\ item' = [item EXCEPT ![b] = "blocked"] /\ Checkpoint(b, "blocked")
                /\ UNCHANGED <<pass, program, admitted, found, capture, judged>>
             \/ /\ Runnable(b) /\ (fresh \/ ~lost) /\ adrift' = FALSE
                /\ pass' = "steps" /\ stepAt' = 1
                /\ UNCHANGED <<resolved, looks, acted, shown, results>>
    /\ UNCHANGED <<inputs, signal>>

\* throwIfAborted: a stop ends the pass without a result; the window's end blocks
\* what had not been reached and keeps the rest.
Aborted ==
    /\ pass \in {"steps", "inspect"} /\ signal # "on"
    /\ IF signal = "cancelled" THEN pass' = "stopped" /\ UNCHANGED results
       ELSE pass' = "next" /\ Settle(current, "blocked") /\ UNCHANGED <<admitted, found, judged>>
    /\ Rest /\ UNCHANGED <<inputs, current, adrift, signal>>

\* A step or an assertion throws: a control that is gone or not the only one, a key
\* that did not arrive, a lost page.  Only this behaviour is blocked.
Thrown ==
    /\ pass \in {"steps", "inspect"} /\ signal = "on" /\ pass' = "next"
    /\ Settle(current, "blocked") /\ found' = [found EXCEPT ![current] = "thrown"]
    /\ Rest /\ UNCHANGED <<inputs, current, adrift, signal, admitted, judged>>

todo == Steps(script[current])
\* resolveControlWithFallback: the control that a step means is on the page exactly once,
\* or the resolver names one, which counts if it is on this page.
Controls == [matches : 0..2, named : {"on the page", "elsewhere", "none"}]
Control(c) ==
    CASE c.matches = 1 -> "match"
      [] c.matches # 1 /\ setup.resolver /\ c.named = "on the page" -> "named"
      [] OTHER -> "stale"

\* runReplayProgram, one step: a screenshot needs an observed page, and so does every
\* step that is not an open; a control that is stale is Thrown.
Observe ==
    /\ pass = "steps" /\ signal = "on" /\ ~setup.native /\ stepAt <= Len(todo)
    /\ LET s == todo[stepAt]
       IN /\ s = "open" \/ looks > 0
          /\ \E c \in Controls :
              /\ s = "click" => Control(c) # "stale"
              /\ resolved' = IF s = "click" /\ Control(c) = "named"
                             THEN resolved \union {stepAt} ELSE resolved
          /\ shown' = (shown \/ s = "capture") /\ acted' = (acted \/ s \in Acting)
          /\ looks' = IF s = "capture" THEN looks ELSE looks + 1
    /\ stepAt' = stepAt + 1
    /\ UNCHANGED <<inputs, pass, current, adrift, signal, results>>

\* runNativeReplayProgram: the sandbox runs on to a control it cannot resolve or to
\* the end; the kernel answers for each control once and counts the frames.
ExecuteProgram ==
    /\ pass = "steps" /\ signal = "on" /\ setup.native /\ stepAt <= Len(todo)
    /\ \/ /\ \E c \in Controls : Control(c) # "stale"
          /\ \E k \in stepAt..Len(todo) :
                /\ todo[k] = "click" /\ k \notin resolved
                /\ resolved' = resolved \union {k} /\ stepAt' = k
          /\ UNCHANGED <<looks, acted, shown>>
       \/ /\ stepAt' = Len(todo) + 1 /\ UNCHANGED resolved
          /\ shown' = Uses(script[current], {"capture"}) /\ acted' = Uses(script[current], Acting)
          /\ looks' = Len(SelectSeq(todo, LAMBDA s : s # "capture"))
    /\ UNCHANGED <<inputs, pass, current, adrift, signal, results>>

StepsDone ==
    /\ pass = "steps" /\ stepAt > Len(todo) /\ signal = "on"
    /\ pass' = "inspect" /\ UNCHANGED <<inputs, current, adrift, signal, program, results>>

\* finishProgram: without an action, or a screenshot of a behaviour that only asks to
\* look, there is no verdict; the assertions decide otherwise.
Passable == acted \/ (script[current].renders /\ looks > 0 /\ shown)
Verdict(held) == IF ~Passable THEN "blocked" ELSE IF held THEN "passed" ELSE "failed"

\* What the assertions are evaluated on: how many elements a target or a control has,
\* what is read from them, the console, and where a text is.  The record of an observation
\* keeps a window of the page's text.
Evidence == [matches : 0..2, reads : {"expected", "other", "none"}, errors : BOOLEAN,
             text : {"window", "beyond", "nowhere"}]

\* evaluateAssertions, for the one that decides: an expected text is searched in the whole
\* page and an unwanted one in the window; a target has to be the only one, unless a scope
\* bounds those in which a text is unwanted, and a value has to be there to be read.
evaluateAssertion(a, e) ==
    LET Given(fact) == IF fact # a.negated THEN "held" ELSE "broke"
    IN CASE a.kind = "target-count" -> Given(e.matches = 1)
         [] a.kind \in {"target-text", "target-value"} ->
                IF a.kind = "target-text" /\ a.negated /\ a.scoped
                THEN Given(e.matches > 0 /\ e.reads = "expected")
                ELSE IF e.matches # 1 \/ (a.kind = "target-value" /\ e.reads = "none")
                THEN "thrown" ELSE Given(e.reads = "expected")
         [] a.kind = "text" -> Given(e.text \in IF a.negated THEN {"window"} ELSE {"window", "beyond"})
         [] a.kind = "control" -> Given(e.matches > 0)
         [] a.kind = "console" -> Given(e.errors)

\* What an assertion says of the page.
Holds(a, e) ==
    a.negated # CASE a.kind = "target-count" -> e.matches = 1
                  [] a.kind = "text" -> e.text # "nowhere"
                  [] a.kind = "control" -> e.matches > 0
                  [] a.kind = "console" -> e.errors
                  [] OTHER -> e.matches > 0 /\ e.reads = "expected"

\* The targets are inspected, the logs read, the assertions evaluated; Thrown has the
\* targets that cannot be read.  Evidence that no longer fits the check is dropped, and the
\* verdict with it.
FinishProgram ==
    /\ pass = "inspect" /\ signal = "on" /\ pass' = "next"
    /\ \E e \in Evidence :
        LET a == script[current].assertion
            value == evaluateAssertion(a, e)
        IN /\ value # "thrown"
           /\ found' = [found EXCEPT ![current] =
                 IF value = "broke" \/ ~Passable THEN "broke"
                 ELSE IF Holds(a, e) THEN "held" ELSE "unseen"]
           /\ IF admitted + looks > MaxEvidence
              THEN Settle(current, "blocked") /\ UNCHANGED admitted
              ELSE Settle(current, Verdict(value = "held")) /\ admitted' = admitted + looks
    /\ Rest /\ UNCHANGED <<inputs, current, adrift, signal, judged>>

\* judgeVisualBehaviours: one question about every capture that passed.  No time, no
\* answer, no entry, no image or no citation: blocked.
Judge ==
    /\ pass = "next" /\ \A b \in selected : b <= current
    /\ pass' = "merge"
    /\ LET asked == {b \in selected : capture[b] = "passed"}
       IN \/ judged' = [b \in Behaviors |-> IF b \in asked THEN "blocked" ELSE None]
          \/ /\ asked # {} /\ signal = "on"
             /\ \E a \in [asked -> {"passed", "failed", "blocked"}] :
                  judged' = [b \in Behaviors |-> IF b \in asked THEN a[b] ELSE None]
    /\ UNCHANGED <<inputs, current, adrift, signal, program, admitted, found, capture, item, noted>>

\* Faulty variant: the answer wins over all but a blocked capture; the judge's silence passes.
MergedByJudge(b) ==
    IF item[b] # None THEN item[b]
    ELSE IF capture[b] = None THEN "blocked"
    ELSE IF capture[b] = "blocked" THEN capture[b]
    ELSE IF judged[b] = "failed" THEN judged[b] ELSE "passed"

\* The item of a behaviour: its program's, its capture's, or what compilation said of it.
Merged(b) ==
    IF item[b] # None THEN item[b]
    ELSE IF capture[b] = None THEN "blocked"
    ELSE IF judged[b] = None \/ capture[b] # "passed" THEN capture[b] ELSE judged[b]
\* The judged captures are announced, and fitScriptedReviewResult blocks the last
\* items until the report can be stored.
Merge ==
    /\ pass = "merge" /\ pass' = "scripted"
    /\ noted' = [b \in Behaviors |-> IF capture[b] = "passed" /\ noted[b] = None THEN Merged(b) ELSE noted[b]]
    /\ \E kept \in 0..Len([b \in Behaviors |-> b]) :
         item' = [b \in Behaviors |-> IF b \notin selected THEN None
                                      ELSE IF b > kept THEN "blocked" ELSE Merged(b)]
    /\ UNCHANGED <<inputs, current, adrift, signal, program, admitted, found, capture, judged>>

Next ==
    \/ Abort \/ Compile \/ NextBehavior \/ Aborted \/ Thrown \/ Observe
    \/ ExecuteProgram \/ StepsDone \/ FinishProgram \/ Judge \/ Merge

-----------------------------------------------------------------------------
TypeOK ==
    /\ pass \in {"compile", "next", "steps", "inspect", "merge", "scripted", "fallback", "stopped"}
    /\ signal \in {"on", "REVIEW_TIMEOUT", "cancelled"} /\ admitted \in 0..MaxEvidence
    /\ \A b \in Behaviors : {item[b], capture[b], judged[b], noted[b]}
          \subseteq {None, "passed", "failed", "blocked"}
    /\ pass = "scripted" => \A b \in selected : item[b] # None

\* A behaviour ends passed only when its whole script ran, acted or rendered what it
\* had to, and its assertions are true of the page; one that depends on the picture also
\* needs the judge's answer.  Timeouts, thrown steps, evidence and reports that are too
\* large, and an answer about a capture that failed, never turn into a pass.  Only the
\* absence of a text from a page that is longer than the window is taken for granted:
\* replay.ts:177-178 says of it that the caller looks again, which no caller does.
UnwantedText(b) == script[b].assertion.kind = "text" /\ script[b].assertion.negated
PassedIsProved ==
    pass = "scripted" =>
        \A b \in selected : item[b] = "passed" =>
            /\ found[b] = "held" \/ (found[b] = "unseen" /\ UnwantedText(b))
            /\ Visual(b) => judged[b] = "passed"

\* What a checkpoint announced is what the result reports, unless the report had no
\* room for it and says that the behaviour is to be checked again.
NotedIsKept ==
    pass = "scripted" =>
        \A b \in selected : noted[b] # None => item[b] \in {noted[b], "blocked"}
=============================================================================
