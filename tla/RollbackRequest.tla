-------------------------- MODULE RollbackRequest ---------------------------
(***************************************************************************)
(* Asking for a version rollback from the workbench (web lib/              *)
(* use-rollback.ts): the request carries a key, is kept in the tab's       *)
(* session storage until its operation is known to be over, and the        *)
(* operation is polled; the workbench is told of a commit.  Requests reach *)
(* the server in the order they were sent.  Operation n is the one of the  *)
(* n-th key.                                                               *)
(***************************************************************************)
EXTENDS Naturals, Sequences, FiniteSets

CONSTANTS MaxRequests, MaxWire

VARIABLES keys,          \* keys drawn so far
          held, storedHeld, \* the submission [key, operation], in memory and in session storage
          shownOp,       \* the operation on screen: [id, status]
          post,          \* a request of this tab: "none", "start", "cancel", with its answer
          mail,          \* requests on their way: [kind, key, awaited]
          status,        \* server: the status of each key's operation
          told,          \* committed operations the workbench was told of
          kept           \* the browser keeps what is saved
rollbackRequest == <<keys, held, storedHeld, shownOp, post, mail, status, told, kept>>

Nothing == [key |-> 0, operation |-> 0]
NoOperation == [id |-> 0, status |-> "none"]
Quiet == [kind |-> "none", answer |-> "none"]
Over == {"committed", "failed", "cancelled"}

Init ==
    /\ keys = 0 /\ held = Nothing /\ storedHeld = Nothing /\ shownOp = NoOperation
    /\ post = Quiet /\ mail = <<>> /\ status = [k \in 1..MaxRequests |-> "none"]
    /\ told = {} /\ kept \in BOOLEAN

Save(value) == held' = value /\ storedHeld' = IF kept THEN value ELSE Nothing
Request(kind, key) ==
    /\ post.kind = "none" /\ Len(mail) < MaxWire
    /\ post' = [kind |-> kind, answer |-> "none"]
    /\ mail' = Append(mail, [kind |-> kind, key |-> key, awaited |-> TRUE])

Start ==
    /\ held = Nothing /\ keys < MaxRequests /\ keys' = keys + 1
    /\ Save([key |-> keys + 1, operation |-> 0]) /\ Request("start", keys + 1)
    /\ shownOp' = NoOperation /\ UNCHANGED <<status, told, kept>>
\* The user asks again with the key of the request that was not answered.
Confirm ==
    /\ held # Nothing /\ Request("start", held.key)
    /\ UNCHANGED <<keys, held, storedHeld, shownOp, status, told, kept>>
Cancel ==
    /\ held.operation # 0 /\ shownOp.status \notin Over /\ Request("cancel", held.key)
    /\ UNCHANGED <<keys, held, storedHeld, shownOp, status, told, kept>>

\* The server: a key makes one operation; a fresh one may be refused; a cancel only
\* ends an operation that has not committed.
Serve ==
    /\ mail # <<>> /\ mail' = Tail(mail)
    /\ LET m == Head(mail)
       IN \E reply \in {"operation", "refused", "fault"} :
            /\ m.kind = "start" /\ status[m.key] # "none" => reply # "refused"
            /\ status' = IF reply # "operation" THEN status
                         ELSE IF m.kind = "start" /\ status[m.key] = "none"
                              THEN [status EXCEPT ![m.key] = "running"]
                         ELSE IF m.kind = "cancel" /\ status[m.key] = "running"
                              THEN [status EXCEPT ![m.key] = "cancelled"]
                         ELSE status
            /\ post' = IF m.awaited THEN [post EXCEPT !.answer = reply] ELSE post
    /\ UNCHANGED <<keys, held, storedHeld, shownOp, told, kept>>
Finish(k) ==
    /\ status[k] = "running" /\ \E s \in {"committed", "failed"} : status' = [status EXCEPT ![k] = s]
    /\ UNCHANGED <<keys, held, storedHeld, shownOp, post, mail, told, kept>>
Unawaited == [i \in DOMAIN mail |-> [mail[i] EXCEPT !.awaited = FALSE]]
Break ==
    /\ post.kind # "none" /\ post' = [post EXCEPT !.answer = "fault"]
    /\ \/ mail' = Unawaited
       \/ mail # <<>> /\ mail[Len(mail)].awaited /\ mail' = SubSeq(mail, 1, Len(mail) - 1)
    /\ UNCHANGED <<keys, held, storedHeld, shownOp, status, told, kept>>

\* accept: an operation that is over frees the submission.
AfterAccept(k) == IF status[k] \in Over THEN Nothing ELSE [key |-> k, operation |-> k]
Accept(k) == shownOp' = [id |-> k, status |-> status[k]] /\ Save(AfterAccept(k))
\* A definite refusal of the start did not start an operation; anything else keeps the key.
Answered ==
    /\ post.answer # "none" /\ post' = Quiet
    /\ CASE post.answer = "operation" /\ held # Nothing -> Accept(held.key)
         [] post.answer = "refused" /\ post.kind = "start" -> Save(Nothing) /\ UNCHANGED shownOp
         [] OTHER -> UNCHANGED <<held, storedHeld, shownOp>>
    /\ UNCHANGED <<keys, mail, status, told, kept>>
\* The poll of an operation that is not over; a failed read changes nothing.
Poll ==
    /\ held.operation # 0 /\ (shownOp.id = held.key => shownOp.status \notin Over) /\ Accept(held.key)
    /\ UNCHANGED <<keys, post, mail, status, told, kept>>
Notify ==
    /\ shownOp.status = "committed" /\ shownOp.id \notin told /\ told' = told \union {shownOp.id}
    /\ UNCHANGED <<keys, held, storedHeld, shownOp, post, mail, status, kept>>
Dismiss ==
    /\ held = Nothing /\ shownOp \notin {NoOperation} /\ (shownOp.status = "committed" => shownOp.id \in told)
    /\ shownOp' = NoOperation /\ UNCHANGED <<keys, held, storedHeld, post, mail, status, told, kept>>
Reload ==
    /\ held' = storedHeld /\ shownOp' = NoOperation /\ post' = Quiet
    /\ mail' = Unawaited
    /\ UNCHANGED <<keys, storedHeld, status, told, kept>>

Next ==
    \/ Start \/ Confirm \/ Cancel \/ Serve \/ Break \/ Answered \/ Poll \/ Notify \/ Dismiss \/ Reload
    \/ \E k \in 1..MaxRequests : Finish(k)

-----------------------------------------------------------------------------
Submissions == [key : 0..keys, operation : 0..keys]
TypeOK ==
    /\ keys \in 0..MaxRequests /\ {held, storedHeld} \subseteq Submissions
    /\ post.kind \in {"none", "start", "cancel"} /\ told \subseteq 1..keys
    /\ \A k \in 1..MaxRequests : status[k] \in Over \union {"none", "running"}

\* An operation the tab started and the server still runs is held by the tab, in
\* storage too when the browser keeps it, so that its commit cannot go unnoticed.
RunningIsHeld ==
    kept => \A k \in 1..keys : status[k] = "running" => storedHeld.key = k /\ held.key = k
=============================================================================
