--------------------------- MODULE RunSubmission ----------------------------
(***************************************************************************)
(* Submitting a requirement from the workbench (web components/            *)
(* api-workbench.tsx, lib/generation-api.ts, lib/drafts.ts): a submission  *)
(* carries a key of its own, is saved in the tab's session storage before  *)
(* it leaves, and is forgotten when its outcome is known.  The tab may be  *)
(* reloaded, an answer may be lost and a request may be served long after  *)
(* the tab gave up on it; requests reach the server in the order they were *)
(* sent.  Keys are numbered in the order they are drawn.                   *)
(***************************************************************************)
EXTENDS Naturals, Sequences, FiniteSets

CONSTANTS MaxTexts, MaxKeys, MaxWire

VARIABLES draft,       \* the text in the composer, 0 when empty
          texts,       \* texts typed so far
          storage,     \* the browser keeps what is saved
          storedDraft, storedKey,  \* session storage
          sending,     \* the key whose answer is awaited, 0 for none
          unconfirmed, \* unknownSubmission: a key whose outcome is not known
          startFlag,   \* ?start=1: the saved first requirement is submitted once
          textOf,      \* the text of each key, 0 for a retry of an earlier run
          wire,        \* requests on their way: [key, awaited]
          answer,      \* an answer that reached the tab
          accepted,    \* server: the keys that made a run
          excused      \* an unconfirmed key was overwritten by a retry, or dropped when
                       \* the session ended under its request
form == <<draft, texts, storage, storedDraft, startFlag>>
submission == <<form, storedKey, sending, unconfirmed, textOf, wire, answer, accepted, excused>>

Init ==
    /\ draft = 1 /\ texts = 1 /\ storage \in BOOLEAN /\ storedDraft = IF storage THEN 1 ELSE 0
    /\ storedKey = 0 /\ sending = 0 /\ unconfirmed = 0 /\ startFlag = TRUE /\ textOf = <<>>
    /\ wire = <<>> /\ answer = "none" /\ accepted = {} /\ excused = FALSE

\* editDraft: the text is saved as it is typed.
SaveDraft(text) == draft' = text /\ storedDraft' = IF storage THEN text ELSE 0
Edit ==
    /\ texts < MaxTexts /\ texts' = texts + 1 /\ SaveDraft(texts + 1)
    /\ UNCHANGED <<storage, startFlag, storedKey, sending, unconfirmed, textOf, wire, answer, accepted, excused>>

\* Faulty variant: the submission is not saved before it leaves.
PersistedLater(key) == storedKey
\* savePendingSubmission comes before the request.
Persisted(key) == IF storage THEN key ELSE 0
Post(key) ==
    /\ Len(wire) < MaxWire
    /\ sending' = key /\ storedKey' = Persisted(key)
    /\ wire' = Append(wire, [key |-> key, awaited |-> TRUE])
NewKey(text) == Len(textOf) < MaxKeys /\ textOf' = Append(textOf, text) /\ Post(Len(textOf) + 1)

\* The composer is closed while a submission is pending or not confirmed.
SubmissionBlocked == sending # 0 \/ unconfirmed # 0
Send ==
    /\ ~SubmissionBlocked /\ draft # 0 /\ NewKey(draft)
    /\ UNCHANGED <<form, unconfirmed, answer, accepted, excused>>
\* A new project submits its saved first requirement once; the flag goes first.
AutoStart ==
    /\ startFlag /\ ~SubmissionBlocked /\ draft # 0 /\ accepted = {} /\ startFlag' = FALSE /\ NewKey(draft)
    /\ UNCHANGED <<draft, texts, storage, storedDraft, unconfirmed, answer, accepted, excused>>
Confirm ==
    /\ unconfirmed # 0 /\ sending = 0 /\ Post(unconfirmed)
    /\ UNCHANGED <<form, unconfirmed, textOf, answer, accepted, excused>>
\* retry: a failed run is submitted again as a new one; only a request under way stops it.
Retry ==
    /\ sending = 0 /\ accepted # {} /\ NewKey(0) /\ excused' = (excused \/ unconfirmed # 0)
    /\ UNCHANGED <<form, unconfirmed, answer, accepted>>

\* The server: one key makes one run; a fresh key may be refused, or met by a fault.
Serve ==
    /\ wire # <<>> /\ wire' = Tail(wire)
    /\ LET request == Head(wire)
       IN \E reply \in {"accepted", "rejected", "fault"} :
            /\ request.key \in accepted => reply # "rejected"
            /\ accepted' = IF reply = "accepted" THEN accepted \union {request.key} ELSE accepted
            /\ answer' = IF request.awaited THEN reply ELSE answer
    /\ UNCHANGED <<form, storedKey, sending, unconfirmed, textOf, excused>>
Unawaited == [i \in DOMAIN wire |-> [wire[i] EXCEPT !.awaited = FALSE]]
\* The connection breaks: the request may be served all the same.
Break ==
    /\ sending # 0 /\ answer' = "fault"
    /\ \/ wire' = Unawaited
       \/ wire # <<>> /\ wire[Len(wire)].awaited /\ wire' = SubSeq(wire, 1, Len(wire) - 1)
    /\ UNCHANGED <<form, storedKey, sending, unconfirmed, textOf, accepted, excused>>

Answered(k) == sending = k /\ sending' = 0 /\ answer' = "none"
\* A text typed meanwhile is not erased by the answer to the earlier one.
OnAccepted ==
    /\ answer = "accepted" /\ Answered(sending) /\ storedKey' = 0 /\ unconfirmed' = 0
    /\ IF draft = textOf[sending] THEN SaveDraft(0) ELSE UNCHANGED <<draft, storedDraft>>
    /\ UNCHANGED <<texts, storage, startFlag, textOf, wire, accepted, excused>>
OnRejected ==
    /\ answer = "rejected" /\ Answered(sending) /\ storedKey' = 0 /\ unconfirmed' = 0
    /\ UNCHANGED <<form, textOf, wire, accepted, excused>>
OnUncertain ==
    /\ answer = "fault" /\ Answered(sending) /\ unconfirmed' = sending
    /\ UNCHANGED <<form, storedKey, textOf, wire, accepted, excused>>
\* A session that ends under the request reports it as refused (status 401).
SessionEnds ==
    /\ sending # 0 /\ Answered(sending) /\ storedKey' = 0 /\ unconfirmed' = 0
    /\ excused' = TRUE /\ wire' = Unawaited
    /\ UNCHANGED <<form, textOf, accepted>>

\* The page is loaded again: what storage holds is all that is left.
Reload ==
    /\ draft' = storedDraft /\ unconfirmed' = storedKey /\ sending' = 0 /\ answer' = "none"
    /\ wire' = Unawaited
    /\ UNCHANGED <<texts, storage, storedDraft, startFlag, storedKey, textOf, accepted, excused>>

Next ==
    \/ Edit \/ Send \/ AutoStart \/ Confirm \/ Retry \/ Serve \/ Break
    \/ OnAccepted \/ OnRejected \/ OnUncertain \/ SessionEnds \/ Reload

-----------------------------------------------------------------------------
Keys == 0..Len(textOf)
TypeOK ==
    /\ draft \in 0..texts /\ texts \in 1..MaxTexts /\ storedDraft \in 0..texts
    /\ {storedKey, sending, unconfirmed} \subseteq Keys /\ accepted \subseteq Keys
    /\ \A i \in DOMAIN wire : wire[i].key \in Keys
    /\ answer \in {"none", "accepted", "rejected", "fault"}

\* One text makes at most one run, whatever is lost, reloaded or confirmed.
OneRunPerText ==
    ~excused => \A t \in 1..texts : Cardinality({k \in accepted : textOf[k] = t}) <= 1
=============================================================================
