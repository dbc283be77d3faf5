------------------------ MODULE VerificationPrograms ------------------------
(***************************************************************************)
(* The programs that scripted checks run (runtime/verification-programs.ts,*)
(* verification-program-request.ts, verification-program-contract.ts and   *)
(* nano.verification_programs).  A session reuses what is stored for its   *)
(* requirements, has the rest compiled chunk by chunk and stores each      *)
(* chunk before it goes on.  A save whose session has given up is still on *)
(* its way; runs follow one another and may change what is required.       *)
(***************************************************************************)
EXTENDS Naturals, FiniteSets

CONSTANTS Behaviors, Programs, None,
          Chunk,          \* behaviours of one request
          MaxToolCalls, MaxSessions,
          MaxRevised      \* how often a requirement is changed

VARIABLES required,       \* the requirement each behaviour stands for now (its hash)
          stored,         \* nano.verification_programs
          active,         \* the role that checks now, 0 if none
          session,        \* the number of the last session
          at, plan, pending, rest, tries, failures, calls, reply,
          late,           \* saves of sessions that gave up: <<role, assets>>
          used            \* <<behaviour, requirement, program>> that were run
programs == <<required, stored, active, session, at, plan, pending, rest, tries,
              failures, calls, reply, late, used>>
table == <<required, stored>>
work == <<plan, pending, rest, tries, failures, calls, reply>>

Requirements == 0..MaxRevised
NoPlan == [b \in Behaviors |-> None]

Init ==
    /\ required = [b \in Behaviors |-> 0] /\ stored = [k \in Behaviors \X Requirements |-> None]
    /\ active = 0 /\ session = 0 /\ at = "idle" /\ plan = NoPlan /\ pending = {} /\ rest = {}
    /\ tries = 0 /\ failures = {} /\ calls = 0 /\ reply = None /\ late = {} /\ used = {}

-----------------------------------------------------------------------------
\* A program belongs to one requirement of a behaviour, whatever its title.
verificationRequirementHash(b) == required[b]

\* loadVerificationPrograms: what the table holds for the plan's requirements.
loadPrograms == [b \in Behaviors |-> stored[b, verificationRequirementHash(b)]]

\* applyVerificationPrograms: a program in the plan stays, an asset fills a gap.
applied(assets) == [b \in Behaviors |-> IF plan[b] = None THEN assets[b] ELSE plan[b]]
missing(p) == {b \in Behaviors : p[b] = None}

\* Between two sessions a follow-up may change a requirement; a session is started
\* with its role and gives up what the plan before it held.
Revise(b) ==
    /\ active = 0 /\ required[b] < MaxRevised
    /\ required' = [required EXCEPT ![b] = @ + 1]
    /\ UNCHANGED <<stored, active, session, at, work, late, used>>
startReviewer ==
    /\ active = 0 /\ session < MaxSessions
    /\ session' = session + 1 /\ active' = session + 1 /\ at' = "load"
    /\ plan' = NoPlan /\ pending' = {} /\ rest' = {} /\ tries' = 0 /\ failures' = {}
    /\ calls' = 0 /\ reply' = None
    /\ UNCHANGED <<table, late, used>>
\* The role is finished, by its result or by its failure.
finishRole ==
    /\ active # 0 /\ at \in {"over", "ready"} /\ active' = 0 /\ at' = "idle"
    /\ UNCHANGED <<table, session, work, late, used>>

Load ==
    /\ at = "load" /\ plan' = applied(loadPrograms) /\ rest' = missing(plan')
    /\ at' = IF missing(plan') = {} THEN "ready" ELSE "chunk"
    /\ UNCHANGED <<table, active, session, pending, tries, failures, calls, reply, late, used>>

\* The next chunk, or the end: what three requests did not settle has failed.
NextChunk ==
    /\ at = "chunk" /\ (pending = {} \/ tries = 3)
    /\ failures' = failures \union pending /\ tries' = 0
    /\ IF rest = {} THEN at' = "ready" /\ pending' = {} /\ UNCHANGED rest
       ELSE /\ \E c \in SUBSET rest :
                  /\ Cardinality(c) = (IF Cardinality(rest) < Chunk THEN Cardinality(rest) ELSE Chunk)
                  /\ pending' = c /\ rest' = rest \ c
            /\ UNCHANGED at
    /\ UNCHANGED <<table, active, session, plan, calls, reply, late, used>>

\* One request to the model: its tool call is counted when it arrives, whatever is in it.
Request ==
    /\ at = "chunk" /\ pending # {} /\ tries < 3
    /\ IF calls >= MaxToolCalls THEN at' = "over" /\ UNCHANGED <<tries, calls>>
       ELSE at' = "asked" /\ tries' = tries + 1 /\ calls' \in {calls, calls + 1}
    /\ UNCHANGED <<table, active, session, plan, pending, rest, failures, reply, late, used>>

\* Cut off, not exactly one submission, a failed provider, the wrong behaviours: the
\* next request carries the complaint.  Of a well-formed answer every program is
\* accepted or refused by itself.
Answer ==
    /\ at = "asked"
    /\ \/ at' = "chunk" /\ UNCHANGED reply
       \/ \E accepted \in SUBSET pending \ {{}} : \E of \in [accepted -> Programs] :
             at' = "save" /\ reply' = [b \in Behaviors |-> IF b \in accepted THEN of[b] ELSE None]
    /\ UNCHANGED <<table, active, session, plan, pending, rest, tries, failures, calls, late, used>>

\* saveVerificationPrograms: the role is the active one; a row that is there stays, and
\* its program is the answer.
Inserted(assets) ==
    [k \in Behaviors \X Requirements |->
        IF k[2] = verificationRequirementHash(k[1]) /\ stored[k] = None THEN assets[k[1]] ELSE stored[k]]
Save ==
    /\ at = "save" /\ stored' = Inserted(reply)
    /\ LET winners == [b \in Behaviors |-> IF reply[b] = None THEN None
                                           ELSE stored'[b, verificationRequirementHash(b)]]
       IN  plan' = applied(winners)
    /\ pending' = {b \in pending : reply[b] = None} /\ reply' = None /\ at' = "chunk"
    /\ UNCHANGED <<required, active, session, rest, tries, failures, calls, late, used>>

\* The window ends, the run is stopped, its role or its budget is gone, the save
\* fails: the session is over and a save that was sent is not awaited any more.
GiveUp ==
    /\ at \in {"load", "chunk", "asked", "save"} /\ at' = "over" /\ reply' = None
    /\ late' = IF at = "save" THEN late \union {<<active, reply>>} ELSE late
    /\ UNCHANGED <<table, active, session, plan, pending, rest, tries, failures, calls, used>>

\* It reaches the database, or not at all.
LateSave ==
    /\ \E l \in late :
          /\ stored' \in {stored, IF l[1] = active THEN Inserted(l[2]) ELSE stored}
          /\ late' = late \ {l}
    /\ UNCHANGED <<required, active, session, at, work, used>>

\* runScriptedPlan runs what has a program; what failed is recorded blocked.
RunPrograms ==
    /\ at = "ready"
    /\ used' = used \union {<<b, required[b], plan[b]>> : b \in Behaviors \ missing(plan)}
    /\ at' = "over" /\ UNCHANGED <<table, active, session, work, late>>

Next ==
    \/ \E b \in Behaviors : Revise(b)
    \/ startReviewer \/ finishRole \/ Load \/ NextChunk \/ Request \/ Answer \/ Save
    \/ GiveUp \/ LateSave \/ RunPrograms

-----------------------------------------------------------------------------
ProgramsTypeOK ==
    /\ active \in {0, session} /\ at \in {"idle", "load", "chunk", "asked", "save", "ready", "over"}
    /\ tries \in 0..3 /\ calls \in 0..MaxToolCalls /\ pending \intersect rest = {}

\* Compiling is a model's guess, and the guess is the criterion a version is judged by.
\* One requirement is judged by one program, the one on record for just this
\* requirement, in every session and every run, through lost saves, retries and
\* changes of the plan; and no requirement is lost on the way: when the programs are
\* run, each is either in the plan or listed as failed.
JudgedAlike ==
    /\ \A x \in used : stored[x[1], x[2]] = x[3]
    /\ at = "ready" => failures = missing(plan)
=============================================================================
