------------------------- MODULE CoordinatorSession -------------------------
(***************************************************************************)
(* One coordinator (runtime/coordinator.ts): a planning session without a  *)
(* sandbox, whose model calls four tools, in sequence, until a plan, an    *)
(* increment or a question is accepted, and whose decision is handed to    *)
(* the service once.  Events are saved in one chain that the session does  *)
(* not always wait for; the run may be stopped and the role may lose its   *)
(* place at any await.                                                     *)
(***************************************************************************)
EXTENDS Naturals

CONSTANTS MaxTools,      \* tool calls left to the run
          MaxAttempts,   \* COORDINATOR_MAX_ATTEMPTS
          MaxTail,       \* events waiting in the chain
          None

VARIABLES stage,         \* where the session is
          prompts, refusals, toolCalls,   \* prompts sent, invalidDecisions, calls.length
          choice, fatal, halt,            \* decision, fatal, the run's signal
          chain, unsaved,                 \* eventTail: waiting events; some event was lost
          started, ended,                 \* tool events on record
          inPlace, delivered
coordinator == <<stage, prompts, refusals, toolCalls, choice, fatal, halt, chain, unsaved,
                 started, ended, inPlace, delivered>>
progress == <<prompts, refusals, toolCalls>>
record == <<chain, unsaved, started, ended>>

Names == {"project_summary", "submit_plan", "submit_increment", "request_clarification"}

Init ==
    /\ stage = "enter" /\ prompts = 0 /\ refusals = 0 /\ toolCalls = 0 /\ choice = None
    /\ fatal = None /\ halt = FALSE /\ chain = 0 /\ unsaved = FALSE
    /\ started = 0 /\ ended = 0 /\ inPlace = TRUE /\ delivered = None

-----------------------------------------------------------------------------
\* The run is stopped or times out; another owner takes the role's place.
Stop ==
    /\ ~halt /\ halt' = TRUE
    /\ UNCHANGED <<stage, progress, choice, fatal, record, inPlace, delivered>>
Displace ==
    /\ inPlace /\ inPlace' = FALSE
    /\ UNCHANGED <<stage, progress, choice, fatal, halt, record, delivered>>

\* fail: the first failure stays, and stops the session.
fail(code) == fatal' = IF fatal = None THEN code ELSE fatal
\* checkSignal
Open == fatal = None /\ ~halt
\* emit: one event of the chain is saved, unless the session has failed; a failed save
\* ends the session.
Save ==
    /\ chain > 0 /\ chain' = chain - 1
    /\ \/ fatal = None /\ UNCHANGED <<fatal, unsaved>>
       \/ fatal' = (IF fatal = None THEN "EVENT_APPEND_FAILED" ELSE fatal) /\ unsaved' = TRUE
    /\ UNCHANGED <<stage, progress, choice, halt, started, ended, inPlace, delivered>>

\* active: the role's place is asked for between two looks at the signal.
active ==
    /\ stage = "enter"
    /\ IF Open /\ inPlace THEN stage' = "model" /\ prompts' = 1 /\ UNCHANGED fatal
       ELSE /\ stage' = "over" /\ UNCHANGED prompts
            /\ IF Open THEN fail("ROLE_NOT_ACTIVE") ELSE UNCHANGED fatal
    /\ UNCHANGED <<refusals, toolCalls, choice, halt, record, inPlace, delivered>>

\* streamFunction: an answer starts and says so, without anybody waiting for the save.
Request ==
    /\ stage = "model" /\ Open /\ chain < MaxTail /\ chain' = chain + 1
    /\ UNCHANGED <<stage, progress, choice, fatal, halt, unsaved, started, ended, inPlace, delivered>>

\* invalid: the last of the attempts ends the session.
invalid ==
    /\ refusals' = refusals + 1
    /\ IF refusals + 1 >= MaxAttempts THEN fail("AGENT_OUTPUT_INVALID") ELSE UNCHANGED fatal

\* tool_execution_start: the run's budget of tool calls.
CallTool ==
    /\ stage = "model"
    /\ IF toolCalls >= MaxTools THEN fail("TOOL_BUDGET_EXCEEDED") /\ UNCHANGED <<stage, toolCalls>>
       ELSE /\ toolCalls' = toolCalls + 1 /\ stage' \in {"execute", "malformed"} /\ UNCHANGED fatal
    /\ UNCHANGED <<prompts, refusals, choice, halt, record, inPlace, delivered>>

\* tool_execution_end: arguments the SDK refused count like those the service refuses.
Malformed ==
    /\ stage = "malformed" /\ stage' = "model" /\ invalid /\ chain' \in {chain, chain + 1} \cap 0..MaxTail
    /\ UNCHANGED <<prompts, toolCalls, choice, halt, unsaved, started, ended, inPlace, delivered>>

\* execute: refused after a decision; the place is checked and the start put on record.
Execute ==
    /\ stage = "execute"
    /\ IF choice # None \/ ~Open THEN stage' = "model" /\ UNCHANGED <<fatal, started, unsaved>>
       ELSE IF ~inPlace THEN stage' = "model" /\ fail("ROLE_NOT_ACTIVE") /\ UNCHANGED <<started, unsaved>>
       ELSE /\ chain = 0
            /\ \/ stage' = "decide" /\ started' = started + 1 /\ UNCHANGED <<fatal, unsaved>>
               \/ stage' = "model" /\ fail("EVENT_APPEND_FAILED") /\ unsaved' = TRUE /\ UNCHANGED started
    /\ UNCHANGED <<progress, choice, halt, chain, ended, inPlace, delivered>>

\* The arguments are parsed, the previous plan's behaviours compared, an increment
\* composed.  A decision is kept before the place is checked once more.
Decide(name) ==
    /\ stage = "decide"
    /\ \/ name # "project_summary" /\ invalid /\ stage' = "refused" /\ UNCHANGED choice
       \/ /\ choice' = IF name = "project_summary" THEN choice ELSE name
          /\ stage' = "decided" /\ UNCHANGED <<refusals, fatal>>
    /\ UNCHANGED <<prompts, toolCalls, halt, record, inPlace, delivered>>
EndTool ==
    /\ stage \in {"refused", "decided"} /\ chain = 0 /\ stage' = "model"
    /\ IF stage = "decided" /\ Open /\ ~inPlace
       THEN fail("ROLE_NOT_ACTIVE") /\ UNCHANGED <<ended, unsaved>>
       ELSE IF fatal # None THEN UNCHANGED <<fatal, ended, unsaved>>
       ELSE \/ ended' = ended + 1 /\ UNCHANGED <<fatal, unsaved>>
            \/ fail("EVENT_APPEND_FAILED") /\ unsaved' = TRUE /\ UNCHANGED ended
    /\ UNCHANGED <<progress, choice, halt, chain, started, inPlace, delivered>>

\* session.prompt returns: the model has nothing more, a decision is accepted, the
\* calls are used up, or the session was aborted.
Settled ==
    /\ stage = "model" /\ stage' = "flush"
    /\ UNCHANGED <<progress, choice, fatal, halt, record, inPlace, delivered>>

\* Faulty variant: an accepted decision is handed over as soon as the prompt returns.
ReturnedAtOnce ==
    /\ stage = "flush"
    /\ IF choice # None THEN stage' = "deliver" ELSE stage' = "over"
    /\ UNCHANGED <<progress, choice, fatal, halt, record, inPlace, delivered>>
\* await eventTail, checkSignal, checkModelResult; one correction for a session that
\* submitted nothing.
Returned ==
    /\ stage = "flush" /\ chain = 0
    /\ \/ stage' = "over" /\ UNCHANGED <<refusals, prompts, fatal>>   \* the model failed
       \/ /\ ~Open /\ stage' = "over" /\ UNCHANGED <<refusals, prompts, fatal>>
       \/ /\ Open /\ choice = None /\ toolCalls < MaxTools /\ refusals = 0 /\ prompts = 1
          /\ refusals' = 1
          /\ IF inPlace THEN stage' = "model" /\ prompts' = 2 /\ UNCHANGED fatal
             ELSE stage' = "over" /\ fail("ROLE_NOT_ACTIVE") /\ UNCHANGED prompts
       \/ /\ Open /\ choice # None /\ stage' = "deliver" /\ UNCHANGED <<refusals, prompts, fatal>>
       \/ /\ Open /\ choice = None /\ (toolCalls >= MaxTools \/ refusals > 0)
          /\ stage' = "over" /\ UNCHANGED <<refusals, prompts, fatal>>
    /\ UNCHANGED <<toolCalls, choice, halt, record, inPlace, delivered>>

\* onDecision, after a last look at the place: the service saves the decision and ends
\* the role, or refuses; a stop in between is still reported as one.
Deliver ==
    /\ stage = "deliver" /\ stage' = "over"
    /\ \/ Open /\ inPlace /\ delivered' = choice /\ UNCHANGED fatal
       \/ Open /\ inPlace /\ UNCHANGED <<delivered, fatal>>
       \/ Open /\ ~inPlace /\ fail("ROLE_NOT_ACTIVE") /\ UNCHANGED delivered
       \/ ~Open /\ UNCHANGED <<delivered, fatal>>
    /\ UNCHANGED <<progress, choice, halt, record, inPlace>>

Next ==
    \/ Stop \/ Displace \/ Save \/ active \/ Request \/ CallTool \/ Malformed \/ Execute
    \/ \E name \in Names : Decide(name)
    \/ EndTool \/ Settled \/ Returned \/ Deliver

-----------------------------------------------------------------------------
TypeOK ==
    /\ stage \in {"enter", "model", "execute", "malformed", "decide", "refused", "decided", "flush", "deliver", "over"}
    /\ refusals \in 0..MaxAttempts + MaxTools /\ toolCalls \in 0..MaxTools /\ chain \in 0..MaxTail
    /\ ended <= started /\ prompts \in 0..2 /\ delivered \in {None, choice}

\* A decision that is handed over is the only one of its session, the call that made it
\* is closed on record like every other, nothing that was reported before it was lost,
\* and the model had not used up its attempts: the chain of events nobody waited for is
\* waited for before the handover, and a failure in it wins over the decision.
DecidedOnRecord ==
    delivered # None =>
        delivered = choice /\ ~unsaved /\ chain = 0 /\ started = ended /\ refusals < MaxAttempts
=============================================================================
