--------------------------- MODULE BuilderSession ---------------------------
(***************************************************************************)
(* One builder (runtime/pi.ts) and the log of its tools                    *)
(* (runtime/tool-output.ts): the model's tool calls run one after another  *)
(* in the sandbox, their output is collected, batched by a timer and saved *)
(* by a pump of its own, and everything that is saved passes through one   *)
(* chain of events.  A failed save and a stop of the run abort the session *)
(* and destroy its sandbox while calls, pump and timer are still going.    *)
(***************************************************************************)
EXTENDS Naturals, Sequences

CONSTANTS MaxCalls,    \* maxToolCalls
          MaxQueued,   \* MAX_QUEUED_BATCHES
          MaxChunks,   \* chunks of output of a session
          None

VARIABLES turn,        \* where the session is
          callNo, outcome,           \* calls.length; the result of the call
          chunks, batch, dropped,    \* output so far; text waiting for the timer; output was left out
          batches, pumping,          \* queue; the event the pump is saving
          owner,                     \* tool: the call the output belongs to
          events, log,               \* eventTail; what is saved
          eventLost, stopping, ended
builder == <<turn, callNo, outcome, chunks, batch, dropped, batches, pumping, owner, events, log,
             eventLost, stopping, ended>>
output == <<chunks, batch, dropped, batches, pumping, owner>>

Event(kind) == [kind |-> kind, call |-> callNo]
Waits(kind) == \E i \in DOMAIN events : events[i].kind = kind

Init ==
    /\ turn = "model" /\ callNo = 0 /\ outcome = None /\ chunks = 0 /\ batch = FALSE
    /\ dropped = FALSE /\ batches = <<>> /\ pumping = None /\ owner = None
    /\ events = <<>> /\ log = <<>> /\ eventLost = FALSE /\ stopping = FALSE /\ ended = None

-----------------------------------------------------------------------------
\* createToolOutput: dispose, at the abort of the session and at its end.
Dispose == batch' = FALSE /\ batches' = <<>> /\ owner' = None

\* abort: the sandbox is destroyed and the log disposed; the running call goes on until
\* it notices.
Abort ==
    /\ ~stopping /\ turn \notin {"closing", "over"} /\ stopping' = TRUE /\ Dispose
    /\ UNCHANGED <<turn, callNo, outcome, chunks, dropped, pumping, events, log, eventLost, ended>>

\* emit: the events are saved in the order they were given.  After a failed save no more
\* is saved, after an abort no output; the failure aborts the session.
Save ==
    /\ events # <<>> /\ events' = Tail(events)
    /\ LET e == Head(events) IN
       \/ /\ eventLost \/ (stopping /\ e.kind = "output")
          /\ UNCHANGED <<log, eventLost, stopping, batch, batches, owner>>
       \/ /\ ~eventLost /\ ~(stopping /\ e.kind = "output")
          /\ log' = Append(log, e) /\ UNCHANGED <<eventLost, stopping, batch, batches, owner>>
       \/ /\ ~eventLost /\ ~(stopping /\ e.kind = "output")
          /\ eventLost' = TRUE /\ stopping' = TRUE /\ Dispose /\ UNCHANGED log
    /\ UNCHANGED <<turn, callNo, outcome, chunks, dropped, pumping, ended>>
emit(kind) == events' = Append(events, Event(kind))

\* execute: the budget of calls, then the start, which is waited for.
Call ==
    /\ turn = "model" /\ ~stopping /\ callNo < MaxCalls /\ events = <<>>
    /\ turn' = "starting" /\ callNo' = callNo + 1
    /\ events' = Append(events, [kind |-> "start", call |-> callNo + 1])
    /\ UNCHANGED <<outcome, output, log, eventLost, stopping, ended>>
Started ==
    /\ turn = "starting" /\ ~Waits("start")
    /\ IF eventLost THEN turn' = "model" /\ UNCHANGED <<owner, dropped>>
       ELSE /\ turn' = "running" /\ dropped' = FALSE
            /\ owner' = IF stopping THEN None ELSE callNo   \* the log is disposed
    /\ UNCHANGED <<callNo, outcome, chunks, batch, batches, pumping, events, log, eventLost, stopping, ended>>

\* append: the command's output, or the note about a file.
Chunk ==
    /\ turn = "running" /\ chunks < MaxChunks /\ ~stopping /\ ~dropped
    /\ chunks' = chunks + 1 /\ batch' = TRUE
    /\ UNCHANGED <<turn, callNo, outcome, dropped, batches, pumping, owner, events, log, eventLost, stopping, ended>>

\* Faulty variant: the queue has no limit.
enqueueUnbounded ==
    IF ~batch \/ owner = None \/ stopping THEN UNCHANGED <<batches, dropped>>
    ELSE batches' = Append(batches, owner) /\ UNCHANGED dropped
\* enqueue: a batch beyond the queue's room is left out, and the call says so.
enqueue ==
    IF ~batch \/ owner = None \/ stopping THEN UNCHANGED <<batches, dropped>>
    ELSE IF Len(batches) >= MaxQueued THEN dropped' = TRUE /\ UNCHANGED batches
    ELSE batches' = Append(batches, owner) /\ UNCHANGED dropped
\* flush: the timer.
Flush ==
    /\ batch /\ turn = "running" /\ enqueue /\ batch' = FALSE
    /\ UNCHANGED <<turn, callNo, outcome, chunks, pumping, owner, events, log, eventLost, stopping, ended>>

\* pump: one batch after another, each through the chain.
Pump ==
    /\ pumping = None /\ batches # <<>> /\ ~stopping
    /\ pumping' = Head(batches) /\ batches' = Tail(batches)
    /\ events' = Append(events, [kind |-> "output", call |-> Head(batches)])
    /\ UNCHANGED <<turn, callNo, outcome, chunks, batch, dropped, owner, log, eventLost, stopping, ended>>
Pumped ==
    /\ pumping # None /\ ~Waits("output") /\ pumping' = None
    /\ batches' = IF eventLost THEN <<>> ELSE batches
    /\ UNCHANGED <<turn, callNo, outcome, chunks, batch, dropped, owner, events, log, eventLost, stopping, ended>>

\* The remote tool is done, or failed, or was cut off by the destroyed sandbox.
Executed ==
    /\ turn = "running" /\ turn' = "finishing" /\ outcome' \in BOOLEAN
    /\ enqueue /\ batch' = FALSE
    /\ UNCHANGED <<callNo, chunks, pumping, owner, events, log, eventLost, stopping, ended>>

Drained == pumping = None /\ (batches = <<>> \/ stopping)
\* finish: everything collected is saved before the end; a gap is noted, once.
Finish ==
    /\ turn = "finishing" /\ Drained
    /\ \/ /\ dropped /\ ~stopping /\ batches' = Append(batches, owner) /\ dropped' = FALSE
          /\ UNCHANGED <<turn, owner, events>>
       \/ /\ dropped => stopping
          /\ turn' = "ending" /\ owner' = None /\ UNCHANGED <<batches, dropped>>
          /\ IF eventLost THEN UNCHANGED events ELSE emit("end")
    /\ UNCHANGED <<callNo, outcome, chunks, batch, pumping, log, eventLost, stopping, ended>>
Ended ==
    /\ turn = "ending" /\ ~Waits("end") /\ turn' = "model" /\ outcome' = None
    /\ UNCHANGED <<callNo, output, events, log, eventLost, stopping, ended>>

\* session.prompt returns; the chain is waited for, and decides before the answer does.
Prompted ==
    /\ turn = "model" /\ events = <<>> /\ ended = None
    /\ turn' = "closing" /\ Dispose
    /\ ended' \in (IF eventLost THEN {"EVENT_APPEND_FAILED"}
                   ELSE IF stopping THEN {"CANCELLED"}
                   ELSE IF callNo >= MaxCalls THEN {"TOOL_BUDGET_EXCEEDED"}
                   ELSE {"MODEL_FAILED", "built"})
    /\ IF stopping /\ ~eventLost THEN emit("stopped") ELSE UNCHANGED events
    /\ UNCHANGED <<callNo, outcome, chunks, dropped, pumping, log, eventLost, stopping>>
\* waitForIdle, the rest of the chain, dispose.
Close ==
    /\ turn = "closing" /\ events = <<>> /\ turn' = "over"
    /\ UNCHANGED <<callNo, outcome, output, events, log, eventLost, stopping, ended>>

Next ==
    \/ Abort \/ Save \/ Call \/ Started \/ Chunk \/ Flush \/ Pump \/ Pumped \/ Executed
    \/ Finish \/ Ended \/ Prompted \/ Close

-----------------------------------------------------------------------------
TypeOK ==
    /\ turn \in {"model", "starting", "running", "finishing", "ending", "closing", "over"}
    /\ callNo \in 0..MaxCalls /\ chunks \in 0..MaxChunks /\ Len(batches) <= MaxQueued + 1
    /\ ended = "built" => ~eventLost /\ ~stopping

\* The saved log is a sequence of calls, each opened by its start and closed by its end,
\* with its output, and only its own, in between; the log of a session that stopped
\* ends with the note of the stop.  Batches, timer, pump, truncation, aborts and lost
\* events never save output behind the end of a call or under another one's name.
LogIsNested ==
    \A i \in DOMAIN log :
        CASE log[i].kind = "start" -> i = 1 \/ log[i - 1].kind = "end"
          [] log[i].kind = "stopped" -> i = Len(log) /\ (i = 1 \/ log[i - 1].kind = "end")
          [] OTHER -> i > 1 /\ log[i - 1].kind \in {"start", "output"} /\ log[i - 1].call = log[i].call
=============================================================================
