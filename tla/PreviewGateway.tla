--------------------------- MODULE PreviewGateway ---------------------------
(***************************************************************************)
(* The gateway that serves one accepted revision from its sandbox          *)
(* (generation/preview.ts).  An entry of its map is registered for each    *)
(* sandbox that shows the revision; a signed-in session of the owner gets  *)
(* a grant of the entry and exchanges it for a cookie.  Issuing a grant    *)
(* asks the auth service about several sessions, one await after another,  *)
(* while other requests issue, exchange, clear and revoke.  Grants live in *)
(* memory only; a session that has ended does not come back.               *)
(***************************************************************************)
EXTENDS Naturals, Sequences, FiniteSets

CONSTANTS Sessions, Issuers, Sandboxes, None,
          MaxEntries,     \* registrations
          MaxGrants       \* tokens ever made

VARIABLES signedIn,       \* the sessions the auth service still knows
          entries,        \* the entries ever registered, the last one in the map
          expired,        \* the last entry's expiresAt has passed
          tokens,         \* tokens made so far
          issuing,        \* issuer -> the issueGrant it is in
          answered,       \* the grants that were returned: [entry, session, token, pruned]
          cookie          \* session -> the token its browser sends
gateway == <<signedIn, entries, expired, tokens, issuing, answered, cookie>>

Init ==
    /\ signedIn = Sessions /\ entries = <<>> /\ expired = FALSE /\ tokens = 0
    /\ issuing = [i \in Issuers |-> None] /\ answered = {}
    /\ cookie = [s \in Sessions |-> None]

-----------------------------------------------------------------------------
current == Len(entries)
\* view(entry).state = "ready", of the entry that find() returns.
Ready == entries # <<>> /\ ~entries[current].revoked /\ ~expired
Grant(e, token) == {g \in entries[e].grants : g.token = token}

\* The answer of isSessionActive to a request sent when `was` told whether the session
\* was known: it may be read at any moment until it arrives.
Answers(was, s) == {s \in signedIn} \union (IF was THEN {TRUE} ELSE {})

SignOut(s) ==
    /\ s \in signedIn /\ signedIn' = signedIn \ {s}
    /\ UNCHANGED <<entries, expired, tokens, issuing, answered, cookie>>

\* A new sandbox of the revision revokes the entry before; the old grants go with it.
register ==
    /\ current < MaxEntries
    /\ \E box \in Sandboxes :
         entries' = Append([e \in DOMAIN entries |->
                              IF e = current /\ entries[e].sandbox # box
                              THEN [entries[e] EXCEPT !.revoked = TRUE] ELSE entries[e]],
                           [sandbox |-> box, revoked |-> FALSE, grants |-> {}])
    /\ expired' = FALSE
    /\ UNCHANGED <<signedIn, tokens, issuing, answered, cookie>>
\* The renewed lease counts for the sandbox it was renewed for, unless it was revoked.
renew ==
    /\ entries # <<>> /\ ~entries[current].revoked /\ expired /\ expired' = FALSE
    /\ UNCHANGED <<signedIn, entries, tokens, issuing, answered, cookie>>
Expires ==
    /\ entries # <<>> /\ ~expired /\ expired' = TRUE
    /\ UNCHANGED <<signedIn, entries, tokens, issuing, answered, cookie>>
\* With the sandbox that is expected, or whatever it is: its grants are cleared at once.
revoke ==
    /\ entries # <<>>
    /\ entries' = [entries EXCEPT ![current].revoked = TRUE, ![current].grants = {}]
    /\ UNCHANGED <<signedIn, expired, tokens, issuing, answered, cookie>>

-----------------------------------------------------------------------------
\* issueGrant: the entry is looked up once and held through every await.
issueGrant(i, s) ==
    /\ issuing[i] = None /\ Ready
    /\ tokens + Cardinality({j \in Issuers : issuing[j] # None}) < MaxGrants
    /\ issuing' = [issuing EXCEPT ![i] = [entry |-> current, session |-> s, looked |-> {},
                                          about |-> None, was |-> s \in signedIn,
                                          ended |-> Sessions \ signedIn]]
    /\ UNCHANGED <<signedIn, entries, expired, tokens, answered, cookie>>

\* Faulty variant: what is there for this session is not looked for.
OwnUnseen(grants, call) == {g \in call.looked : g.session = call.session}
\* After the awaits: what another request of this session has put there meanwhile.
Own(grants, call) == {g \in grants : g.session = call.session}
Answered(grants, call, token) ==
    answered \union {[entry |-> call.entry, session |-> call.session, token |-> token,
                      pruned |-> \A g \in grants : g.session \notin call.ended]}

\* Between two awaits the loop goes on over the live map, to the next grant of another
\* session, or to its end, where a grant is found or made.
GoesOn(i, call, grants) ==
    LET others == {g \in grants \ call.looked : g.session # call.session}
        mine == Own(grants, call)
    IN  IF others # {}
        THEN \E g \in others :
               /\ issuing' = [issuing EXCEPT ![i] =
                                 [call EXCEPT !.about = g, !.was = g.session \in signedIn,
                                              !.looked = @ \union {g}]]
               /\ entries' = [entries EXCEPT ![call.entry].grants = grants]
               /\ UNCHANGED <<tokens, answered>>
        ELSE /\ issuing' = [issuing EXCEPT ![i] = None]
             /\ \/ \E g \in mine :
                     /\ answered' = Answered(grants, call, g.token)
                     /\ entries' = [entries EXCEPT ![call.entry].grants = grants]
                     /\ UNCHANGED tokens
                \/ /\ mine = {} /\ tokens' = tokens + 1
                   /\ answered' = Answered(grants, call, tokens')
                   /\ entries' = [entries EXCEPT ![call.entry].grants =
                                   grants \union {[token |-> tokens', session |-> call.session]}]

\* The first answer is about the session itself, the later ones about those whose grants
\* are there: a grant of a session that has ended is deleted.
SessionAnswered(i) ==
    /\ issuing[i] # None
    /\ LET call == issuing[i]
           grants == entries[call.entry].grants
           subject == IF call.about = None THEN call.session ELSE call.about.session
       IN  \E active \in Answers(call.was, subject) :
             IF call.about = None /\ ~active
             THEN /\ issuing' = [issuing EXCEPT ![i] = None]
                  /\ UNCHANGED <<entries, tokens, answered>>
             ELSE GoesOn(i, call, IF active THEN grants ELSE grants \ {call.about})
    /\ UNCHANGED <<signedIn, expired, cookie>>

-----------------------------------------------------------------------------
\* What a page sends is served: the entry of now knows the token and its session is live.
Served(token) == Ready /\ \E g \in Grant(current, token) : g.session \in signedIn

\* POST session: a token that was answered becomes the browser's cookie.
Exchange(s) ==
    /\ \E g \in answered : g.session = s /\ Served(g.token) /\ cookie' = [cookie EXCEPT ![s] = g.token]
    /\ UNCHANGED <<signedIn, entries, expired, tokens, issuing, answered>>
\* POST session/clear: the cookie's grant is deleted and the browser forgets the cookie.
Clear(s) ==
    /\ cookie[s] # None /\ cookie' = [cookie EXCEPT ![s] = None]
    /\ entries' = IF entries = <<>> THEN entries
                  ELSE [entries EXCEPT ![current].grants = @ \ Grant(current, cookie[s])]
    /\ answered' = {g \in answered : g.token # cookie[s]}
    /\ UNCHANGED <<signedIn, expired, tokens, issuing>>

Next ==
    \/ \E s \in Sessions : SignOut(s) \/ Exchange(s) \/ Clear(s)
    \/ register \/ renew \/ Expires \/ revoke
    \/ \E i \in Issuers : SessionAnswered(i) \/ \E s \in Sessions : issueGrant(i, s)

-----------------------------------------------------------------------------
GatewayTypeOK ==
    /\ current <= MaxEntries /\ tokens <= MaxGrants
    /\ \A e \in DOMAIN entries : \A g \in entries[e].grants : g.token \in 1..tokens
    /\ \A s \in Sessions : cookie[s] = None \/ cookie[s] \in 1..tokens

\* Opening the preview again and again, from several tabs at once, leaves one grant for
\* each session: the map does not grow.  The grants of sessions that had ended when a
\* grant was asked for are gone when it is answered.  And a grant that was answered is
\* there, through the pruning and the other requests, as long as its session lives, its
\* entry is the current one and not revoked, and the browser did not give it up.
GrantsHold ==
    /\ \A e \in DOMAIN entries : \A g, h \in entries[e].grants : g.session = h.session => g = h
    /\ \A a \in answered :
         /\ a.pruned
         /\ a.session \in signedIn /\ a.entry = current /\ ~entries[current].revoked
               => Grant(current, a.token) = {[token |-> a.token, session |-> a.session]}
=============================================================================
