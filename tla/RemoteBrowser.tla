--------------------------- MODULE RemoteBrowser ----------------------------
(***************************************************************************)
(* The browser of one check (runtime/browser.ts): a session of the command *)
(* line browser inside the candidate's sandbox, driven by one command at a *)
(* time through executeService (runtime/workspace.ts).  Closing it competes *)
(* with the operation that is running, with that operation's deadline, with *)
(* the stop of the run and with other closes.                              *)
(***************************************************************************)
EXTENDS Naturals, FiniteSets

CONSTANTS Closers,      \* calls of close(): the session's, the review's, an origin check's
          MaxOps,       \* operations started
          None

VARIABLES stopped, shut, begun,  \* stopped, closed, started
          operating,             \* exclusive() is entered, its deadline runs
          work,                  \* where the operation's own promise is
          inFlight,              \* commandsInFlight: the operation's command
          view,                  \* the observation whose refs may be used
          aborted,               \* the caller's signal
          command, stray,        \* the sandbox: the command, one nobody interrupted
          chrome, closer, ops
browser == <<stopped, shut, begun, operating, work, inFlight, view, aborted,
             command, stray, chrome, closer, ops>>
flags == <<stopped, shut, begun, operating, aborted>>

Kinds == {"open", "observe", "act", "program"}
\* checkOrigin comes first (an open of a new session has no page to check), then the
\* operation's command, then the observation of what it did; a program is one command.
First(kind) == CASE kind = "open" /\ ~begun -> "command" [] kind = "program" -> "ready" [] OTHER -> "check"

Init ==
    /\ stopped = FALSE /\ shut = FALSE /\ begun = FALSE /\ operating = FALSE /\ aborted = FALSE
    /\ work = None /\ inFlight = FALSE /\ view = "none" /\ command = "none"
    /\ stray = FALSE /\ chrome = FALSE
    /\ closer = [c \in Closers |-> "idle"] /\ ops = 0

-----------------------------------------------------------------------------
\* exclusive: refused after a close, a stop, and while an operation runs.  The
\* operation of a timed-out call goes on behind its back, but then nothing starts.
Begin(kind) ==
    /\ ~aborted /\ ~stopped /\ ~operating /\ work = None /\ ops < MaxOps
    /\ kind = "act" => view = "fresh"     \* the observation and the ref it names
    /\ operating' = TRUE /\ ops' = ops + 1
    /\ work' = [kind |-> kind, step |-> First(kind)]
    /\ view' = IF kind \in {"open", "observe"} THEN "none" ELSE view
    /\ UNCHANGED <<stopped, shut, begun, aborted, inFlight, command, stray, chrome, closer>>

\* call, callBatch, programOperation: the session is still open, the deadline not
\* over; executeService asks for the signals and sends the command.  A program writes
\* its file between the first question and the command.
Starts(step) == step \in {"check", "command", "look"}
Send ==
    /\ work # None /\ Starts(work.step) /\ ~inFlight
    /\ ~stopped /\ ~aborted /\ operating
    /\ begun' = TRUE /\ inFlight' = TRUE /\ command' = "running"
    /\ view' = IF work.step = "command" THEN "none" ELSE view
    /\ UNCHANGED <<stopped, shut, operating, aborted, work, stray, chrome, closer, ops>>
SendProgram ==
    /\ work # None /\ work.step = "ready" /\ operating /\ ~stopped /\ ~aborted
    /\ begun' = TRUE /\ inFlight' = TRUE /\ command' = "running"
    /\ work' = [work EXCEPT !.step = "run"]
    /\ UNCHANGED <<stopped, shut, operating, aborted, view, stray, chrome, closer, ops>>

\* The sandbox's side: whatever runs the browser's command line starts a browser that
\* is not there.
RemoteEffect ==
    /\ command = "running" \/ stray
    /\ ~chrome /\ chrome' = TRUE
    /\ UNCHANGED <<flags, work, inFlight, view, command, stray, closer, ops>>

\* The command is over.  assertOpen and remainingTime guard what follows.
Follow(step, kind) ==
    CASE step = "check" -> IF kind = "observe" THEN "look" ELSE "command"
      [] step = "command" -> "look"
      [] OTHER -> "end"
Answer ==
    /\ inFlight /\ command = "running" /\ chrome
    /\ inFlight' = FALSE /\ command' = "none"
    /\ work' = IF stopped \/ ~operating THEN None
               ELSE [work EXCEPT !.step = Follow(work.step, work.kind)]
    /\ UNCHANGED <<flags, view, stray, chrome, closer, ops>>

\* A failed command, a page that is not the candidate's or changed under the
\* operation, a ref that is gone: the operation throws.
Fail ==
    /\ inFlight /\ command = "running"
    /\ inFlight' = FALSE /\ command' = "none" /\ work' = None
    /\ operating' = FALSE
    /\ view' \in IF work.step = "check" THEN {view, "none"} ELSE {"none"}
    /\ UNCHANGED <<stopped, shut, begun, aborted, stray, chrome, closer, ops>>

\* The signal of the session or of the run interrupts the remote command.  The
\* interrupt, or the answer of the start, may be lost: the command goes on.
Interrupt ==
    /\ inFlight /\ command = "running" /\ (stopped \/ aborted)
    /\ inFlight' = FALSE /\ command' = "none" /\ work' = None /\ stray' \in {stray, TRUE}
    /\ UNCHANGED <<flags, view, chrome, closer, ops>>

\* The result is returned with the observation whose refs may be used next.
Finish ==
    /\ work # None /\ work.step = "end" /\ operating
    /\ work' = None /\ operating' = FALSE
    /\ view' = IF stopped THEN "none" ELSE "fresh"
    /\ UNCHANGED <<stopped, shut, begun, aborted, inFlight, command, stray, chrome, closer, ops>>

\* What assertOpen and the deadline do to an operation between two commands.
GiveUp ==
    /\ work # None /\ ~inFlight /\ (stopped \/ ~operating \/ aborted)
    /\ work' = None /\ operating' = FALSE
    /\ UNCHANGED <<stopped, shut, begun, aborted, inFlight, view, command, stray, chrome, closer, ops>>

\* The deadline of the operation: the session is over, and is closed.
Timeout(c) ==
    /\ operating /\ closer[c] = "idle"
    /\ stopped' = TRUE /\ view' = "none" /\ operating' = FALSE
    /\ closer' = [closer EXCEPT ![c] = "called"]
    /\ UNCHANGED <<shut, begun, aborted, work, inFlight, command, stray, chrome, ops>>

\* The run is stopped or its window is over: the call returns, its command goes on
\* until the interrupt.
Abort ==
    /\ ~aborted /\ aborted' = TRUE /\ operating' = FALSE
    /\ UNCHANGED <<stopped, shut, begun, work, inFlight, view, command, stray, chrome, closer, ops>>

-----------------------------------------------------------------------------
\* close: nothing starts any more; a session that never sent a command has no browser.
Close(c) ==
    /\ closer[c] \in {"idle", "called"}
    /\ stopped' = TRUE /\ view' = "none"
    /\ IF shut \/ ~begun
       THEN shut' = TRUE /\ closer' = [closer EXCEPT ![c] = "confirmed"]
       ELSE /\ closer' = [closer EXCEPT ![c] = IF inFlight THEN "late" ELSE "closing"]
            /\ UNCHANGED shut
    /\ UNCHANGED <<begun, operating, aborted, work, inFlight, command, stray, chrome, ops>>

\* The browser is closed in the sandbox.
RemoteClose(c) ==
    /\ closer[c] \in {"late", "closing"}
    /\ chrome' = FALSE /\ closer' = [closer EXCEPT ![c] = IF @ = "late" THEN "lateAck" ELSE "ack"]
    /\ UNCHANGED <<flags, work, inFlight, view, command, stray, ops>>

\* Faulty variant: the acknowledgement counts whatever else is running.
ClosedByAck(c) ==
    /\ closer[c] \in {"ack", "lateAck"}
    /\ closer' = [closer EXCEPT ![c] = "confirmed"] /\ shut' = TRUE
    /\ UNCHANGED <<stopped, begun, operating, aborted, work, inFlight, view, command, stray, chrome, ops>>
\* The acknowledgement counts only when no command was in flight at either end.
Closed(c) ==
    /\ closer[c] \in {"ack", "lateAck"}
    /\ IF closer[c] = "lateAck" \/ inFlight
       THEN closer' = [closer EXCEPT ![c] = "unconfirmed"] /\ UNCHANGED shut
       ELSE closer' = [closer EXCEPT ![c] = "confirmed"] /\ shut' = TRUE
    /\ UNCHANGED <<stopped, begun, operating, aborted, work, inFlight, view, command, stray, chrome, ops>>

\* The close is not answered within 15 s, or fails.
CloseFails(c) ==
    /\ closer[c] \in {"late", "closing", "ack", "lateAck"}
    /\ closer' = [closer EXCEPT ![c] = "unconfirmed"]
    /\ UNCHANGED <<flags, work, inFlight, view, command, stray, chrome, ops>>

Next ==
    \/ \E kind \in Kinds : Begin(kind)
    \/ Send \/ SendProgram \/ RemoteEffect \/ Answer \/ Fail \/ Interrupt \/ Finish \/ GiveUp \/ Abort
    \/ \E c \in Closers : Timeout(c) \/ Close(c) \/ RemoteClose(c) \/ Closed(c) \/ CloseFails(c)

-----------------------------------------------------------------------------
TypeOK ==
    /\ {stopped, shut, begun, operating, aborted, inFlight, stray, chrome} \subseteq BOOLEAN
    /\ view \in {"none", "fresh"} /\ ops \in 0..MaxOps
    /\ inFlight => work # None /\ command = "running"

\* browser.ts: a late command may start a browser after the acknowledgement of a close;
\* the cleanup stays unconfirmed until it has settled.  A check whose browser is
\* confirmed closed has none, and gets none, whatever was in flight; only a remote
\* command whose interrupt was lost escapes this.
ConfirmedIsClosed == (\E c \in Closers : closer[c] = "confirmed") /\ ~stray => ~chrome
=============================================================================
