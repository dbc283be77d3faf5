---------------------------- MODULE TokenLedger -----------------------------
(***************************************************************************)
(* The token budget of one run (runtime/token-budget.ts): every role sends *)
(* its model requests through a tracker that reserves an upper estimate in *)
(* the run's shared ledger before the request leaves, and settles it with  *)
(* whatever usage the provider reported.  The provider is external: it may *)
(* be asked twice by its SDK, report nothing, a part or all, end in error. *)
(***************************************************************************)
EXTENDS Naturals, FiniteSets, FiniteSetsExt

CONSTANTS Streams,     \* model requests of the run, of all its roles
          RoleOf,      \* [Streams -> roles]
          Estimates,   \* what a request may reserve, in thousands of tokens
          LimitTokens, \* None where nobody set a limit
          MostUsed,    \* bound: what a request really uses
          None

VARIABLES phase,       \* of a stream: "none", "open", "attempted", "sent", "closed"
          reserved, accounted, charged, sample, pending,
          failedRole,  \* roles whose tracker holds a failure
          used         \* tokens the provider really spent
tokens == <<phase, reserved, accounted, charged, sample, pending, failedRole, used>>

Reported == {"complete", "partial", "silent"}

Init ==
    /\ phase = [s \in Streams |-> "none"] /\ reserved = [s \in Streams |-> 0]
    /\ accounted = 0 /\ charged = [s \in Streams |-> 0] /\ sample = [s \in Streams |-> None]
    /\ pending = 0 /\ failedRole = {} /\ used = [s \in Streams |-> 0]

\* stream: a role that failed sends nothing more; its requests come one by one.
Stream(s) ==
    /\ phase[s] = "none" /\ RoleOf[s] \notin failedRole
    /\ \A t \in Streams : RoleOf[t] = RoleOf[s] => phase[t] \in {"none", "closed"}
    /\ phase' = [phase EXCEPT ![s] = "open"]
    /\ UNCHANGED <<reserved, accounted, charged, sample, pending, failedRole, used>>

Fails(s) == failedRole' = failedRole \union {RoleOf[s]}
Refused(s) ==
    /\ Fails(s) /\ phase' = [phase EXCEPT ![s] = "attempted"]
    /\ UNCHANGED <<reserved, accounted, charged, sample, pending, used>>

\* budgetedFetch and reserve: the estimate is charged before the request leaves.
Fetch(s) ==
    /\ phase[s] = "open" /\ RoleOf[s] \notin failedRole
    /\ \/ Refused(s)                   \* a body that cannot be read or estimated
       \/ \E e \in Estimates :
            IF LimitTokens # None /\ accounted + e > LimitTokens THEN Refused(s)
            ELSE /\ phase' = [phase EXCEPT ![s] = "sent"]
                 /\ reserved' = [reserved EXCEPT ![s] = e] /\ accounted' = accounted + e
                 /\ charged' = [charged EXCEPT ![s] = e] /\ pending' = pending + 1
                 /\ UNCHANGED <<sample, failedRole, used>>

\* A second fetch of one stream, or one after its end, is refused and ends the role.
FetchAgain(s) ==
    /\ phase[s] \in {"attempted", "sent", "closed"} /\ RoleOf[s] \notin failedRole
    /\ Fails(s) /\ UNCHANGED <<phase, reserved, accounted, charged, sample, pending, used>>

\* The provider spends, perhaps more than was estimated; after an error or an abort it may
\* go on for a while.
Provider(s) ==
    /\ phase[s] = "sent" \/ sample[s] = "unreported"
    /\ used[s] < MostUsed /\ used' = [used EXCEPT ![s] = @ + 1]
    /\ UNCHANGED <<phase, reserved, accounted, charged, sample, pending, failedRole>>

\* Faulty variant: whatever usage an answer carries replaces the reservation.
ChargeObserved(s, report, observed, final) ==
    IF report # "silent" THEN observed ELSE Max({reserved[s], observed})
\* What settle charges: only a final answer with both counts releases the rest.
Charge(s, report, observed, final) ==
    IF report = "complete" /\ final THEN observed ELSE Max({reserved[s], observed})

\* settle: the stream's result, or its error, once.  A failed role and an aborted or
\* failed request report provisional usage.
Settle(s) ==
    /\ phase[s] \in {"open", "attempted", "sent"}
    /\ phase' = [phase EXCEPT ![s] = "closed"]
    /\ IF phase[s] # "sent" THEN UNCHANGED <<accounted, charged, sample, pending>>
       ELSE \E report \in Reported, ended \in BOOLEAN :
            LET final == ended /\ RoleOf[s] \notin failedRole
                least == IF report = "complete" /\ final THEN used[s] ELSE 0
            IN \E observed \in (IF report = "silent" THEN {0} ELSE least..used[s]) :
                 LET c == Charge(s, report, observed, final)
                 IN /\ accounted' = (accounted + c) - reserved[s]
                    /\ charged' = [charged EXCEPT ![s] = c] /\ pending' = pending - 1
                    /\ sample' = [sample EXCEPT ![s] =
                         IF report = "complete" /\ final THEN "reported" ELSE "unreported"]
    /\ UNCHANGED <<reserved, failedRole, used>>

Next == \E s \in Streams : Stream(s) \/ Fetch(s) \/ FetchAgain(s) \/ Provider(s) \/ Settle(s)

-----------------------------------------------------------------------------
TypeOK ==
    /\ phase \in [Streams -> {"none", "open", "attempted", "sent", "closed"}]
    /\ accounted \in Nat /\ pending = Cardinality({s \in Streams : phase[s] = "sent"})

Total(f) == FoldSet(LAMBDA s, sum : sum + f[s], 0, Streams)
\* Of what the provider spent, what the ledger can know: all of it when the whole is
\* reported, and otherwise no more than was set aside for it.
Known == [s \in Streams |-> IF sample[s] = "reported" \/ used[s] <= reserved[s]
                            THEN used[s] ELSE reserved[s]]
\* What a request turned out to take beyond its reservation.
Excess == [s \in Streams |-> IF reserved[s] < charged[s] THEN charged[s] - reserved[s] ELSE 0]
\* One ledger for every role of a run: whatever providers report, repeat or leave
\* unreported, and whenever roles fail, it accounts at any moment for all that is known to
\* be spent or may still be, and it passes the limit, where there is one, by no more than
\* the estimates of what was sent fell short.
BudgetHolds ==
    /\ Total(Known) <= accounted
    /\ LimitTokens # None => accounted <= LimitTokens + Total(Excess)
=============================================================================
