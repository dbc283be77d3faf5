--------------------------- MODULE ModelProfiles ---------------------------
(***************************************************************************)
(* The saved model configurations of one account (models/service.ts,       *)
(* models/probe.ts, models/vision.ts, migrations 002 and 003): versions    *)
(* that are never edited, the key of each version, the leases by which     *)
(* accepted runs hold one version, and the connection tests that decide    *)
(* whether a version may be used.  A test talks to the provider between    *)
(* two transactions, and a draft's test is remembered in memory only.      *)
(* A connection is a protocol, an address, a model and a key together.     *)
(***************************************************************************)
EXTENDS Naturals, Sequences, FiniteSets

CONSTANTS Profiles, Refs, Connections,
          MaxVersions,     \* versions of one profile
          MaxProfiles,     \* the code's twenty
          TestsPerMinute,  \* the code's five
          None

VARIABLES saved,   \* profile -> None, or [current, deleted, chosen]
          versions,                 \* profile -> the versions, [connection, passed]
          keys,                     \* profile -> the versions whose key is stored
          leases,                   \* reference -> None, or [profile, version, released]
          test,                     \* None, or the test under way
          tests, proofs,            \* of this process: tests this minute; drafts that were tested
          verified                  \* history: connections whose test once passed in full
models == <<saved, versions, keys, leases, test, tests, proofs, verified>>
rows == <<saved, versions, keys, leases>>

Live == {p \in Profiles : saved[p] # None /\ ~saved[p].deleted}
Held(p) == {leases[r].version : r \in {x \in Refs : leases[x] # None /\ leases[x].profile = p
                                                    /\ ~leases[x].released}}
Current(p) == versions[p][saved[p].current]

Init ==
    /\ saved = [p \in Profiles |-> None] /\ versions = [p \in Profiles |-> <<>>]
    /\ keys = [p \in Profiles |-> {}] /\ leases = [r \in Refs |-> None]
    /\ test = None /\ tests = 0 /\ proofs = {} /\ verified = {}

-----------------------------------------------------------------------------
\* What a new version starts with: the draft's test, while it is remembered.
Proof(c) == IF \E t \in proofs : t.connection = c
            THEN (CHOOSE t \in proofs : t.connection = c).passed ELSE FALSE
saveVersion(p, c, passed) ==
    /\ versions' = [versions EXCEPT ![p] = Append(@, [connection |-> c, passed |-> passed])]
    /\ keys' = [keys EXCEPT ![p] = @ \cup {Len(versions[p]) + 1}]
\* At most one default: the others are cleared first.
Unchosen(p) == IF saved[p] = None THEN None ELSE [saved[p] EXCEPT !.chosen = FALSE]
reclaimed(p, deleted, held) == IF deleted THEN keys[p] \cap held ELSE keys[p]

create ==
    \E p \in Profiles, c \in Connections, wanted \in {TRUE, FALSE, None} :
        LET chosen == IF wanted = None THEN Live = {} ELSE wanted IN
        /\ saved[p] = None /\ Cardinality(Live) < MaxProfiles
        /\ saved' = [[q \in Profiles |-> IF chosen THEN Unchosen(q) ELSE saved[q]]
                        EXCEPT ![p] = [current |-> 1, deleted |-> FALSE, chosen |-> chosen]]
        /\ saveVersion(p, c, Proof(c))
        /\ UNCHANGED <<leases, test, tests, proofs, verified>>

\* Faulty variant: an edit keeps the old version's test whatever it changes.
CarriedTestAlways(p, c) == Current(p).passed
\* A version whose connection is unchanged keeps its test; another one starts anew.
CarriedTest(p, c) == IF c = Current(p).connection THEN Current(p).passed ELSE Proof(c)
update ==
    \E p \in Live, edits \in BOOLEAN, wanted \in {TRUE, FALSE, None} :
        /\ edits \/ wanted # None
        /\ saved' = [[q \in Profiles |-> IF wanted = TRUE THEN Unchosen(q) ELSE saved[q]]
                        EXCEPT ![p] = [current |-> saved[p].current + (IF edits THEN 1 ELSE 0),
                                       deleted |-> FALSE,
                                       chosen |-> IF wanted = None THEN saved[p].chosen ELSE wanted]]
        /\ IF edits THEN /\ Len(versions[p]) < MaxVersions
                         /\ \E c \in Connections : saveVersion(p, c, CarriedTest(p, c))
           ELSE UNCHANGED <<versions, keys>>
        /\ UNCHANGED <<leases, test, tests, proofs, verified>>

remove ==
    \E p \in Live :
        /\ saved' = [saved EXCEPT ![p].deleted = TRUE, ![p].chosen = FALSE]
        /\ keys' = [keys EXCEPT ![p] = reclaimed(p, TRUE, Held(p))]
        /\ UNCHANGED <<versions, leases, test, tests, proofs, verified>>

\* A run is accepted: its reference takes the version the request named, once.
freezeInTransaction ==
    \E r \in Refs, p \in Live :
        /\ leases[r] = None /\ Current(p).passed
        /\ saved[p].current \in keys[p]
        /\ leases' = [leases EXCEPT ![r] = [profile |-> p, version |-> saved[p].current,
                                            released |-> FALSE]]
        /\ UNCHANGED <<saved, versions, keys, test, tests, proofs, verified>>
\* The run ends: a deleted profile loses the keys that no run holds any more.
releaseInTransaction ==
    \E r \in Refs :
        /\ leases[r] # None
        /\ leases' = [leases EXCEPT ![r].released = TRUE]
        /\ LET p == leases[r].profile
               held == {leases[x].version : x \in {y \in Refs \ {r} : leases[y] # None
                                        /\ leases[y].profile = p /\ ~leases[y].released}}
           IN keys' = [keys EXCEPT ![p] = reclaimed(p, saved[p].deleted, held)]
        /\ UNCHANGED <<saved, versions, test, tests, proofs, verified>>
\* What a runner that holds a lease gets: the frozen version and its key.
resolveLease(r) ==
    /\ leases[r] # None /\ ~leases[r].released
    /\ leases[r].version \in keys[leases[r].profile]

-----------------------------------------------------------------------------
\* One test at a time.  A saved one reads its version first, in a transaction of its own.
StartTest(p, c, version) ==
    /\ test = None /\ tests < TestsPerMinute /\ tests' = tests + 1
    /\ test' = [profile |-> p, connection |-> c, version |-> version,
                step |-> "tools", samples |-> 0, correct |-> 0]
    /\ UNCHANGED <<rows, proofs, verified>>
testDraft == \E c \in Connections : StartTest(None, c, None)
testSaved == \E p \in Live : StartTest(p, Current(p).connection, saved[p].current)

\* testModelConnection: a tool call and its reply first, then the images.
ToolsPass ==
    /\ test # None /\ test.step = "tools" /\ test' = [test EXCEPT !.step = "vision"]
    /\ UNCHANGED <<rows, tests, proofs, verified>>

\* The answer to test: remembered for this connection, and written to the version that
\* was read, whatever happened to the profile since.
Concluded(passed) ==
    /\ proofs' = {t \in proofs : t.connection # test.connection}
                    \cup {[connection |-> test.connection, passed |-> passed]}
    /\ verified' = IF passed THEN verified \cup {test.connection} ELSE verified
    /\ versions' = IF test.profile = None THEN versions
                   ELSE [versions EXCEPT ![test.profile][test.version].passed = passed]
    /\ test' = None /\ UNCHANGED <<saved, keys, leases, tests>>

\* probeModelVision: two of at most three samples must name both colours; a sample may
\* also be lost to an error of the provider.
VisionSample ==
    /\ test # None /\ test.step = "vision" /\ test.samples < 3
    /\ \E right \in BOOLEAN :
         IF right /\ test.correct = 1 THEN Concluded(TRUE)
         ELSE /\ test' = [test EXCEPT !.samples = @ + 1, !.correct = IF right THEN @ + 1 ELSE @]
              /\ UNCHANGED <<rows, tests, proofs, verified>>
\* No tool call, images refused, the samples or the time used up.
TestFails == /\ test # None /\ Concluded(FALSE)

MinutePasses == /\ tests > 0 /\ test = None /\ tests' = 0 /\ UNCHANGED <<rows, test, proofs, verified>>
ProofExpires ==
    /\ \E t \in proofs : proofs' = proofs \ {t}
    /\ UNCHANGED <<rows, test, tests, verified>>
\* The process dies: what it remembered of tests is gone.
Restart == /\ test' = None /\ tests' = 0 /\ proofs' = {} /\ UNCHANGED <<rows, verified>>

Next ==
    \/ create \/ update \/ remove \/ freezeInTransaction \/ releaseInTransaction
    \/ testDraft \/ testSaved \/ ToolsPass \/ VisionSample \/ TestFails
    \/ MinutePasses \/ ProofExpires \/ Restart

-----------------------------------------------------------------------------
ModelTypeOK ==
    /\ \A p \in Profiles : keys[p] \subseteq 1..Len(versions[p])
    /\ \A r \in Refs : leases[r] = None \/ leases[r].version \in 1..Len(versions[leases[r].profile])
    /\ test = None \/ test.correct <= test.samples

\* What an accepted run was promised holds until it ends, through edits, deletions,
\* later tests and restarts: its version can still be opened, and that version's
\* connection, not merely the profile's name, passed a full test with images; and a
\* deleted profile keeps no key but the ones such runs still hold.
LeaseIsHonoured ==
    /\ \A r \in Refs : leases[r] # None /\ ~leases[r].released =>
         /\ resolveLease(r)
         /\ versions[leases[r].profile][leases[r].version].connection \in verified
    /\ \A p \in Profiles \ Live : saved[p] # None => keys[p] = Held(p)
=============================================================================
