------------------------------ MODULE AppData ------------------------------
(***************************************************************************)
(* The data of a published app (data/app-data.ts, routes/app-data.ts,      *)
(* migrations 036 and 037).  Visitors submit registrations or bookings     *)
(* over a network that repeats and loses answers; the owner reads, marks   *)
(* and removes them.  A personal app keeps one value that the owner's      *)
(* pages save against the version they last read.  A booking is its slot,  *)
(* a registration its address: the code's unique key.                      *)
(***************************************************************************)
EXTENDS Naturals, FiniteSets

CONSTANTS Keys, Slots, Pages,
          MaxRecords,   \* the code's ten thousand
          MaxSaves,     \* saves of the personal value
          MaxPosts,     \* times one submission reaches the server
          None

VARIABLES kind,                  \* the collection the template brought, or None
          open,                  \* the app is published
          records,               \* stored submissions, [key, slot, confirmed]
          posts,                 \* key -> arrivals
          acceptedAs,            \* history: key -> the slots an answer said were taken for it
          removed,               \* history: keys whose record the owner removed
          value,                 \* the personal value: [version, saves], the saves it builds on
          page,                  \* page -> the value it shows
          savedBy                \* history: every save that was confirmed
appData == <<kind, open, records, posts, acceptedAs, removed, value, page, savedBy>>
visits == <<records, posts, acceptedAs, removed>>
personal == <<value, page, savedBy>>

Blank == [version |-> 0, saves |-> {}]

Init ==
    /\ kind \in {"public", "personal", None} /\ open = FALSE
    /\ records = {} /\ posts = [k \in Keys |-> 0] /\ acceptedAs = [k \in Keys |-> {}]
    /\ removed = {} /\ value = Blank /\ page = [p \in Pages |-> Blank] /\ savedBy = {}

-----------------------------------------------------------------------------
\* The page is published or taken down.
SetPublished == open' = ~open /\ UNCHANGED <<kind, visits, personal>>

Prior(k) == {r \in records : r.key = k}
Taken(s) == \E r \in records : r.slot = s

\* Faulty variant: a known key is answered whatever its content.
ReplaysAnything(k, s) == Prior(k) # {}
\* What the server answers: the earlier record for a key it knows, with the same content.
Replays(k, s) == \E r \in Prior(k) : r.slot = s

\* submit: one transaction under the project's lock.  The same key may arrive again with
\* the same content, or with another one; an answer may be lost, which changes nothing.
submit ==
    \E k \in Keys, s \in Slots :
        /\ kind = "public" /\ open /\ posts[k] < MaxPosts
        /\ posts' = [posts EXCEPT ![k] = @ + 1]
        /\ \/ Replays(k, s) /\ acceptedAs' = [acceptedAs EXCEPT ![k] = @ \cup {s}] /\ UNCHANGED records
           \/ Prior(k) # {} /\ ~Replays(k, s) /\ UNCHANGED <<records, acceptedAs>>
           \/ /\ Prior(k) = {} /\ (Cardinality(records) >= MaxRecords \/ Taken(s))
              /\ UNCHANGED <<records, acceptedAs>>
           \/ /\ Prior(k) = {} /\ Cardinality(records) < MaxRecords /\ ~Taken(s)
              /\ records' = records \cup {[key |-> k, slot |-> s, confirmed |-> FALSE]}
              /\ acceptedAs' = [acceptedAs EXCEPT ![k] = @ \cup {s}]
        /\ UNCHANGED <<kind, open, removed, personal>>

setConfirmed ==
    \E r \in records, c \in BOOLEAN :
        /\ records' = (records \ {r}) \cup {[r EXCEPT !.confirmed = c]}
        /\ UNCHANGED <<kind, open, posts, acceptedAs, removed, personal>>
\* The row goes, and with it what the server knew of its key.
remove ==
    \E r \in records :
        /\ records' = records \ {r} /\ removed' = removed \cup {r.key}
        /\ UNCHANGED <<kind, open, posts, acceptedAs, personal>>

-----------------------------------------------------------------------------
privateState ==
    \E p \in Pages :
        /\ kind = "personal" /\ open /\ page' = [page EXCEPT ![p] = value]
        /\ UNCHANGED <<kind, open, visits, value, savedBy>>
\* A page sends its own value with the version it read; a lost answer leaves the page behind.
Expected(p) == page[p].version = value.version
savePrivateState ==
    \E p \in Pages, told \in BOOLEAN :
        /\ kind = "personal" /\ open /\ Expected(p) /\ value.version < MaxSaves
        /\ LET next == [version |-> page[p].version + 1,
                        saves |-> page[p].saves \cup {<<p, value.version + 1>>}]
           IN /\ value' = next
              /\ page' = IF told THEN [page EXCEPT ![p] = next] ELSE page
              /\ savedBy' = IF told THEN savedBy \cup {<<p, value.version + 1>>} ELSE savedBy
        /\ UNCHANGED <<kind, open, visits>>

Next ==
    \/ SetPublished \/ submit \/ setConfirmed \/ remove
    \/ privateState \/ savePrivateState

-----------------------------------------------------------------------------
DataTypeOK ==
    /\ Cardinality(records) <= MaxRecords /\ value.version \in 0..MaxSaves
    /\ kind # "public" => records = {}

\* Who was told yes has what was asked for, and nobody else does: until the owner removes
\* it, a confirmed submission is stored once, as it was sent, however often it arrived;
\* and a save the owner saw confirmed is part of every later value, so two pages never
\* undo each other's saves unseen.
AnswersHold ==
    /\ \A k \in Keys \ removed : \A s \in acceptedAs[k] :
          {r.slot : r \in Prior(k)} = {s} /\ \A r \in records : r.slot = s => r.key = k
    /\ \A k \in Keys : Cardinality(Prior(k)) <= 1
    /\ savedBy \subseteq value.saves
=============================================================================
