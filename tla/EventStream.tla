---------------------------- MODULE EventStream ----------------------------
(***************************************************************************)
(* The events of ONE run on their way to one client: transactions append   *)
(* rows to nano.run_events, their commits are announced as hints inside    *)
(* the process, the stream of a connection replays the rows by id up to    *)
(* the newest one it was told of, and the client reconnects with a cursor. *)
(*                                                                         *)
(* The rows are the truth, a hint only says how far to read: it may be     *)
(* late, out of order, or lost with the answer of its COMMIT.              *)
(***************************************************************************)
EXTENDS Naturals, FiniteSets, Sequences

CONSTANTS
    Writers,      \* what appends events: the task, a stop, the sweep, the queue
    MaxId,        \* bound: the ids 1..MaxId of the identity column
    MaxBuffered,  \* maxBufferedEvents (128 in the code)
    Page,         \* the rows of one listEventsThrough (16 in the code)
    MaxFaults     \* bound: lost commit answers, broken connections, crashes

ASSUME SizesAssumption ==
    /\ MaxId \in Nat /\ MaxFaults \in Nat
    /\ MaxBuffered \in Nat \ {0} /\ Page \in Nat \ {0}

VARIABLES
    \* nano.run_events and the transactions that write it
    log,       \* the ids of the committed events of the run
    nextId,    \* the last id the identity column gave out
    tx,        \* the id an open transaction has inserted, 0 if there is none
    fin,       \* the id of run.finished, 0 while the run is not terminal
    \* the notifications of `owned`
    hints,     \* committed, and about to be published in this process
    silent,    \* committed, and never published
    \* the generator of one connection
    pc, cursor, target, terminal, page, hand, pending,
    \* the response and the client
    wire,      \* written, not yet read by the client
    outcome,   \* how the response ended: "finished", "expired" or "broken"
    conn,      \* the client's connection: "idle", "open", "done"
    seen,      \* its cursor
    received,  \* the ids it has applied
    faults     \* what is left of the bound

tableVars  == <<log, nextId, tx, fin>>
hintVars   == <<hints, silent>>
loopVars   == <<cursor, target, terminal, page, hand>>
streamVars == <<pc, loopVars, pending>>
clientVars == <<conn, seen, received>>
vars == <<tableVars, hintVars, streamVars, wire, outcome, clientVars, faults>>

Ids == 1..MaxId
Places == {"closed", "opening", "head", "loop", "yield", "yielded", "wait"}

Outcomes == {"none", "finished", "expired", "broken"}

Init ==
    /\ log = {} /\ nextId = 0 /\ tx = [w \in Writers |-> 0] /\ fin = 0
    /\ hints = {} /\ silent = {}
    /\ pc = "closed" /\ cursor = 0 /\ target = 0 /\ terminal = FALSE
    /\ page = {} /\ hand = 0 /\ pending = {}
    /\ wire = <<>> /\ outcome = "none"
    /\ conn = "idle" /\ seen = 0 /\ received = {}
    /\ faults = MaxFaults

IsLeast(x, S)    == x \in S /\ \A y \in S : x <= y
IsGreatest(x, S) == x \in S /\ \A y \in S : x >= y
Spend == faults > 0 /\ faults' = faults - 1

-----------------------------------------------------------------------------
(* Transactions that append an event; one that appends several is several    *)
(* here, which only adds places between them.                                *)

\* Faulty variant: the run's row is not locked before the id is taken.
InsertUnlocked(w) ==
    /\ tx[w] = 0 /\ nextId < MaxId
    /\ nextId' = nextId + 1
    /\ tx' = [tx EXCEPT ![w] = nextId + 1]
    /\ UNCHANGED <<log, fin, hintVars, streamVars, wire, outcome, clientVars, faults>>
\* lockedRun holds the run's row until the transaction ends, so the ids of a run
\* commit in their order.
Insert(w) ==
    /\ \A v \in Writers : tx[v] = 0
    /\ nextId < MaxId
    /\ nextId' = nextId + 1
    /\ tx' = [tx EXCEPT ![w] = nextId + 1]
    /\ UNCHANGED <<log, fin, hintVars, streamVars, wire, outcome, clientVars, faults>>

\* run.finished is written by the transaction that makes the run terminal; only
\* cleanup events follow it.  A lost answer to COMMIT makes `owned` throw.
Commit(w) ==
    /\ tx[w] # 0
    /\ log' = log \cup {tx[w]}
    /\ tx' = [tx EXCEPT ![w] = 0]
    /\ \/ UNCHANGED fin
       \/ fin = 0 /\ fin' = tx[w]
    /\ \/ hints' = hints \cup {tx[w]} /\ UNCHANGED <<silent, faults>>
       \/ silent' = silent \cup {tx[w]} /\ Spend /\ UNCHANGED hints
    /\ UNCHANGED <<nextId, streamVars, wire, outcome, clientVars>>

\* The id of a transaction that is rolled back is not given out again.
Rollback(w) ==
    /\ tx[w] # 0
    /\ tx' = [tx EXCEPT ![w] = 0]
    /\ UNCHANGED <<log, nextId, fin, hintVars, streamVars, wire, outcome, clientVars, faults>>

-----------------------------------------------------------------------------
(* The stream of a connection.                                               *)

\* close(): the subscription and the buffer are gone, the generator writes no
\* more; its locals stay as they are.
Close(o) ==
    /\ pc' = "closed" /\ pending' = {} /\ page' = {}
    /\ outcome' = o
    /\ UNCHANGED <<cursor, target, terminal, hand>>

\* Faulty variant: a client that does not keep up is given a longer buffer.
NotifyUnbounded(id) ==
    /\ id \in hints
    /\ hints' = hints \ {id}
    /\ IF pc = "closed" \/ id <= cursor \/ id \in pending
       THEN UNCHANGED <<streamVars, outcome>>
       ELSE /\ pending' = pending \cup {id}
            /\ pc' = IF pc = "wait" THEN "loop" ELSE pc
            /\ UNCHANGED <<loopVars, outcome>>
    /\ UNCHANGED <<tableVars, silent, wire, clientVars, faults>>
\* Faulty variant: the subscription starts when the history has been read.
NotifyAfterHead(id) ==
    /\ id \in hints
    /\ hints' = hints \ {id}
    /\ IF pc \in {"closed", "opening", "head"} \/ id <= cursor \/ id \in pending
       THEN UNCHANGED <<streamVars, outcome>>
       ELSE /\ Cardinality(pending) < MaxBuffered
            /\ pending' = pending \cup {id}
            /\ pc' = IF pc = "wait" THEN "loop" ELSE pc
            /\ UNCHANGED <<loopVars, outcome>>
    /\ UNCHANGED <<tableVars, silent, wire, clientVars, faults>>
\* The subscriber, called between two awaits of the generator; notifications
\* arrive in any order.  A buffer at its limit of events, or of bytes, closes the
\* connection.
Notify(id) ==
    /\ id \in hints
    /\ hints' = hints \ {id}
    /\ IF pc = "closed" \/ id <= cursor \/ id \in pending
       THEN UNCHANGED <<streamVars, outcome>>
       ELSE \/ /\ Cardinality(pending) < MaxBuffered
               /\ pending' = pending \cup {id}
               /\ pc' = IF pc = "wait" THEN "loop" ELSE pc
               /\ UNCHANGED <<loopVars, outcome>>
            \/ pending # {} /\ Close("broken")
    /\ UNCHANGED <<tableVars, silent, wire, clientVars, faults>>

\* readEventHead: the newest id and the run's state in one snapshot.  A cursor
\* beyond the newest id is refused.
ReadHead ==
    /\ pc = "opening"
    /\ \E newest \in log \cup {0} :
          /\ \A x \in log : x <= newest
          /\ IF cursor > newest THEN Close("broken")
             ELSE /\ pc' = "head" /\ target' = newest
                  /\ terminal' \in BOOLEAN /\ (terminal' <=> fin # 0)
                  /\ UNCHANGED <<cursor, page, hand, pending, outcome>>
    /\ UNCHANGED <<tableVars, hintVars, wire, clientVars, faults>>

\* ... its answer arrives, and the generator starts.
StartReplay ==
    /\ pc = "head"
    /\ pc' = "loop"
    /\ UNCHANGED <<tableVars, hintVars, loopVars, pending, wire, outcome, clientVars, faults>>

\* Faulty variant: the page is not ordered by id.
IsAnyPage(p) == /\ p \subseteq {id \in log : cursor < id /\ id <= target}
                /\ Cardinality(p) <= Page
\* ORDER BY id LIMIT Page, beyond the cursor and up to the target.
IsPage(p) ==
    LET rows == {id \in log : cursor < id /\ id <= target}
    IN  /\ p \subseteq rows /\ Cardinality(p) <= Page
        /\ \A x \in p, y \in rows \ p : x < y
        /\ p = rows \/ Cardinality(p) = Page

\* listEventsThrough; no row at all closes the connection.
ListEvents ==
    /\ pc = "loop" /\ cursor < target
    /\ \E p \in SUBSET log :
          /\ IsPage(p)
          /\ IF p = {} THEN Close("broken")
             ELSE /\ page' = p /\ pc' = "yield"
                  /\ UNCHANGED <<cursor, target, terminal, hand, pending, outcome>>
    /\ UNCHANGED <<tableVars, hintVars, wire, clientVars, faults>>

\* The generator yields the next row and the route writes it ...
Yield ==
    /\ pc = "yield"
    /\ \E e \in page : /\ \A x \in page : e <= x
                       /\ hand' = e /\ page' = page \ {e} /\ wire' = Append(wire, e)
    /\ pc' = "yielded"
    /\ UNCHANGED <<tableVars, hintVars, cursor, target, terminal, pending, outcome,
                   clientVars, faults>>

\* ... and only asks for another when the response has drained.
Resume ==
    /\ pc = "yielded"
    /\ cursor' = hand /\ hand' = 0
    /\ terminal' \in BOOLEAN /\ (terminal' <=> terminal \/ hand = fin)
    /\ pc' = IF page = {} THEN "loop" ELSE "yield"
    /\ UNCHANGED <<tableVars, hintVars, target, page, pending, wire, outcome, clientVars, faults>>

\* Faulty variant: a terminal run ends the stream before its rows are replayed.
CaughtUpOrTerminal == cursor >= target \/ terminal
CaughtUp == cursor >= target

\* The replay has reached its target: the stream ends, goes on to the newest id
\* it was told of meanwhile, or waits for a hint.
EndReplay ==
    /\ pc = "loop" /\ CaughtUp
    /\ IF terminal THEN Close("finished")
       ELSE /\ pending' = {id \in pending : id > cursor}
            /\ \E t \in pending' \cup {cursor} :
                  /\ \A x \in pending' : x <= t
                  /\ target' = t
                  /\ pc' = IF t > cursor THEN "loop" ELSE "wait"
            /\ UNCHANGED <<cursor, terminal, page, hand, outcome>>
    /\ UNCHANGED <<tableVars, hintVars, wire, clientVars, faults>>

\* Faulty variant: a connection lives as long as its client.
ExpireNever == FALSE /\ UNCHANGED vars
\* The route ends every response after a minute at the latest; what it has
\* written is flushed.  Away from "wait" the minute is a BreakConnection.
Expire ==
    /\ pc = "wait"
    /\ Close("expired")
    /\ UNCHANGED <<tableVars, hintVars, wire, clientVars, faults>>

\* The client is gone, the response does not drain, or the database fails.
BreakConnection ==
    /\ conn = "open" /\ outcome # "broken" /\ Spend
    /\ Close("broken")
    /\ UNCHANGED <<tableVars, hintVars, wire, clientVars>>

-----------------------------------------------------------------------------
(* The client.                                                               *)

\* It connects with the id of the last event it applied; the server subscribes
\* before it reads anything.
Connect ==
    /\ conn = "idle" /\ conn' = "open"
    /\ pc' = "opening" /\ cursor' = seen /\ target' = 0 /\ terminal' = FALSE
    /\ hand' = 0 /\ outcome' = "none"
    /\ UNCHANGED <<tableVars, hintVars, page, pending, wire, seen, received, faults>>

\* An event that is not beyond the cursor is dropped.
Receive ==
    /\ conn = "open" /\ wire # <<>>
    /\ wire' = Tail(wire)
    /\ IF Head(wire) <= seen THEN UNCHANGED <<seen, received>>
       ELSE seen' = Head(wire) /\ received' = received \cup {Head(wire)}
    /\ UNCHANGED <<tableVars, hintVars, streamVars, outcome, conn, faults>>

\* The response ends; what a destroyed one still carried is lost.  The client
\* waits and connects again.
EndOfResponse ==
    /\ conn = "open" /\ pc = "closed"
    /\ outcome = "broken" \/ wire = <<>>
    /\ conn' = "idle" /\ wire' = <<>>
    /\ UNCHANGED <<tableVars, hintVars, streamVars, outcome, seen, received, faults>>

\* A snapshot shows the client that the run is terminal: it takes the events
\* from there and leaves the stream.
Leave ==
    /\ fin # 0 /\ conn # "done"
    /\ conn' = "done" /\ wire' = <<>>
    /\ Close("broken")
    /\ UNCHANGED <<tableVars, hintVars, seen, received, faults>>

-----------------------------------------------------------------------------

\* The process dies.  claim_stale_runs writes run.finished for a run that was
\* under way, before anyone can connect, and nothing announces it.
Crash ==
    /\ Spend
    /\ tx' = [w \in Writers |-> 0]
    /\ hints' = {} /\ Close("broken")
    /\ \/ /\ fin = 0 /\ nextId < MaxId
          /\ nextId' = nextId + 1 /\ fin' = nextId + 1
          /\ log' = log \cup {nextId + 1} /\ silent' = silent \cup {nextId + 1}
       \/ UNCHANGED <<log, nextId, fin, silent>>
    /\ UNCHANGED <<wire, clientVars>>

Next ==
    \/ \E w \in Writers : Insert(w) \/ Commit(w) \/ Rollback(w)
    \/ \E id \in Ids : Notify(id)
    \/ ReadHead \/ StartReplay \/ ListEvents \/ Yield \/ Resume \/ EndReplay
    \/ Expire \/ BreakConnection
    \/ Connect \/ Receive \/ EndOfResponse \/ Leave
    \/ Crash

Spec == Init /\ [][Next]_vars

\* Transactions end, notifications are delivered, the generator and the client go
\* on while they can, and the timer of a connection fires.  New events, breaks,
\* crashes and the client's leaving are under no fairness.
Fairness ==
    /\ \A w \in Writers : WF_vars(Commit(w) \/ Rollback(w))
    /\ \A id \in Ids : WF_vars(Notify(id))
    /\ WF_vars(ReadHead \/ StartReplay \/ ListEvents \/ Yield \/ Resume \/ EndReplay)
    /\ WF_vars(Expire) /\ WF_vars(Connect) /\ WF_vars(Receive) /\ WF_vars(EndOfResponse)
FairSpec == Spec /\ Fairness

-----------------------------------------------------------------------------
(* Properties                                                                *)

TableType  == /\ log \subseteq Ids /\ nextId \in 0..MaxId
              /\ tx \in [Writers -> 0..MaxId] /\ fin \in 0..MaxId
HintType   == hints \subseteq Ids /\ silent \subseteq Ids
LoopType   == /\ pc \in Places /\ cursor \in 0..MaxId /\ target \in 0..MaxId
              /\ terminal \in BOOLEAN /\ page \subseteq Ids /\ hand \in 0..MaxId
BufferType == pending \subseteq Ids /\ Cardinality(pending) <= MaxBuffered
ClientType == /\ wire \in Seq(Ids) /\ outcome \in Outcomes
              /\ conn \in {"idle", "open", "done"} /\ seen \in 0..MaxId
              /\ received \subseteq Ids /\ faults \in 0..MaxFaults

\* The rows, the generator, the buffer and the client stay in their value sets;
\* in particular the buffer never exceeds its limit.
TypeOK == TableType /\ HintType /\ LoopType /\ BufferType /\ ClientType

\* The client has applied every event up to its cursor, across hints that come
\* late or out of order, pages, slow and broken connections and restarts.
NoEventSkipped == received = {id \in log : id <= seen}

\* There is no window between the history and the live events: when the stream
\* waits, every event it has not sent is about to be announced to it, or was
\* never going to be.
WaitsOnlyForHints ==
    pc = "wait" => \A id \in log : id > cursor => id \in hints \cup silent

\* A stream that ends by itself has sent everything up to run.finished.
EndsComplete ==
    outcome = "finished" =>
        /\ fin # 0
        /\ \A id \in log : id <= fin => \/ id \in received
                                        \/ \E i \in 1..Len(wire) : wire[i] = id

\* The client sees the run's events as EventFeed says.
Feed == INSTANCE EventFeed
FeedKept == Feed!Spec

\* Every committed event reaches the client unless it leaves, also when its
\* notification was lost.
EventsDelivered ==
    \A id \in Ids : id \in log ~> (id \in received \/ conn = "done")
=============================================================================
