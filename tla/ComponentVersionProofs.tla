------------------------ MODULE ComponentVersionProofs ------------------------
(***************************************************************************)
(* Proofs about the components of MCComponents, for every size of their    *)
(* instances.  Some say what a version is: the trusted build, the decision *)
(* of a coordinator, the log of a builder's calls, the stored source and   *)
(* artifacts, and what the workbench shows; the templates' are in          *)
(* ComponentRequestProofs.  The last is the lineage of the plans, with which *)
(* the limits are complete.  Each has an inductive invariant of its own; a *)
(* behaviour of MCComponents is one component's, so they do not meet.      *)
(***************************************************************************)
EXTENDS ComponentRequestProofs

-----------------------------------------------------------------------------
(* TrustedBuild: the trees of the gates that were passed.                    *)

\* Writes only make newer trees, so a tree that is the same as the one listed was there in
\* between, whenever it was checked and built.
TreesInv ==
    /\ tree \in Nat
    /\ gate \in {"check", "compile", "relist"} => listed \in 0..tree
    /\ gate \in {"compile", "relist"} => checked \in listed..tree
    /\ gate = "relist" => compiled \in checked..tree
MarkedInv ==
    /\ gate \in {"mark", "probe"} \/ buildResult = "preview" =>
          checked = buildMarker /\ listed = buildMarker /\ compiled = buildMarker
    /\ gate = "probe" \/ buildResult = "preview" =>
          buildServed = None \/ buildServed = [revision |-> buildMarker, dist |-> compiled]
    /\ buildResult = "preview" => buildServed # None /\ gate = "over"
BuildInv == TreesInv /\ MarkedInv

\* Nothing is built at first.
LEMMA InitBuild == (part = "Build" /\ Build!Init) => BuildInv
<1>1. None # "preview"
  BY NoNameAssumption
<1>2. QED
  BY <1>1 DEF Build!Init, BuildInv, TreesInv, MarkedInv

\* The builder and what it left behind write before the marker is made, or too late.
LEMMA WriteKeeps ==
    ASSUME BuildInv, Build!Initialize \/ Build!Edit \/ Build!LateWrite
    PROVE  BuildInv'
<1>1. UNCHANGED <<listed, checked, compiled, buildMarker, buildServed, buildResult>>
  BY DEF Build!Initialize, Build!Edit, Build!LateWrite, Build!trees
<1>2. tree \in Nat
  BY DEF BuildInv, TreesInv
<1>3. CASE Build!Initialize
  <2>1. gate = "setup" /\ gate' = "edit" /\ tree' \in Nat
    BY <1>3 DEF Build!Initialize
  <2>2. QED
    BY <1>1, <2>1 DEF BuildInv, TreesInv, MarkedInv
<1>4. CASE Build!Edit \/ Build!LateWrite
  <2>1. gate' = gate /\ tree' \in Nat /\ tree <= tree'
    <3>1. gate' = gate /\ (tree' = tree \/ tree' = tree + 1)
      BY <1>4 DEF Build!Edit, Build!LateWrite
    <3>2. QED
      BY <1>2, <3>1
  <2>2. TreesInv'
    BY <1>1, <1>2, <2>1 DEF BuildInv, TreesInv
  <2>3. MarkedInv'
    BY <1>1, <2>1 DEF BuildInv, MarkedInv
  <2>4. QED
    BY <2>2, <2>3 DEF BuildInv
<1>5. QED
  BY <1>3, <1>4

\* The build ends without a preview.
LEMMA BuildFailsKeeps ==
    ASSUME BuildInv, Build!Halt \/ Build!Halted \/ Build!Breaks
    PROVE  BuildInv'
<1>1. UNCHANGED <<tree, listed, checked, compiled, buildMarker, buildServed>>
  BY DEF Build!Halt, Build!Halted, Build!Breaks, Build!trees
<1>2. \/ UNCHANGED <<gate, buildResult>>
      \/ gate # "over" /\ gate' = "over" /\ buildResult' # "preview"
  BY DEF Build!Halt, Build!Halted, Build!Breaks, Build!Fail
<1>3. QED
  BY <1>1, <1>2 DEF BuildInv, TreesInv, MarkedInv

\* The gates before the marker.
LEMMA GatesKeep ==
    ASSUME BuildInv,
           Build!Start \/ Build!Revoke \/ Build!List \/ Build!Typecheck \/ Build!Compile
    PROVE  BuildInv'
<1>1. UNCHANGED <<tree, buildMarker, buildServed>> /\ tree \in Nat
  BY DEF Build!Start, Build!Revoke, Build!List, Build!Typecheck, Build!Compile, Build!trees,
         BuildInv, TreesInv
<1>2. buildResult # "preview"
  BY DEF Build!Start, Build!Revoke, Build!List, Build!Typecheck, Build!Compile,
         BuildInv, MarkedInv
<1>3. \/ gate' = "over" /\ buildResult' # "preview"
      \/ /\ buildResult' = buildResult
         /\ \/ gate' \in {"revoke", "list"}
            \/ gate' = "check" /\ listed' = tree
            \/ gate = "check" /\ gate' = "compile" /\ listed' = listed /\ checked' = tree
            \/ /\ gate = "compile" /\ gate' = "relist" /\ listed' = listed
               /\ checked' = checked /\ compiled' = tree
  BY DEF Build!Start, Build!Revoke, Build!List, Build!Typecheck, Build!Compile, Build!Fail,
         Build!trees
<1>4. MarkedInv'
  BY <1>2, <1>3 DEF MarkedInv
<1>5. TreesInv'
  BY <1>1, <1>3 DEF BuildInv, TreesInv
<1>6. QED
  BY <1>4, <1>5 DEF BuildInv

\* The marker, the server and its first answer.
LEMMA RelistKeeps == ASSUME BuildInv, Build!Relist PROVE BuildInv'
<1>1. /\ gate = "relist" /\ UNCHANGED <<tree, listed, checked, compiled, buildServed>>
      /\ \/ gate' = "over" /\ buildResult' = "SOURCE_CHANGED_DURING_BUILD"
         \/ /\ tree = listed /\ gate' = "mark" /\ buildMarker' = tree
            /\ buildResult' = buildResult
  BY DEF Build!Relist, Build!Fail
<1>2. buildResult # "preview"
  BY <1>1 DEF BuildInv, MarkedInv
<1>3. TreesInv'
  BY <1>1 DEF BuildInv, TreesInv
<1>4. CASE gate' = "over" /\ buildResult' = "SOURCE_CHANGED_DURING_BUILD"
  BY <1>3, <1>4 DEF BuildInv, MarkedInv
<1>5. CASE tree = listed /\ gate' = "mark" /\ buildMarker' = tree /\ buildResult' = buildResult
  <2>1. checked = listed /\ compiled = listed
    BY <1>1, <1>5 DEF BuildInv, TreesInv
  <2>2. QED
    BY <1>1, <1>2, <1>3, <1>5, <2>1 DEF BuildInv, MarkedInv
<1>6. QED
  BY <1>1, <1>4, <1>5
LEMMA ServingKeeps == ASSUME BuildInv, Build!Serve \/ Build!Probe PROVE BuildInv'
<1>1. UNCHANGED <<tree, listed, checked, compiled, buildMarker>>
  BY DEF Build!Serve, Build!Probe, Build!trees
<1>2. CASE Build!Serve
  BY <1>1, <1>2 DEF Build!Serve, BuildInv, TreesInv, MarkedInv
<1>3. CASE Build!Probe
  <2>1. /\ gate = "probe" /\ buildServed' = buildServed
        /\ \/ gate' = "over" /\ buildResult' = "preview" /\ buildServed # None
           \/ UNCHANGED <<gate, buildResult>>
           \/ gate' = "over" /\ buildResult' = "PREVIEW_START_FAILED"
    BY <1>3 DEF Build!Probe, Build!Fail
  <2>2. QED
    BY <1>1, <2>1 DEF BuildInv, TreesInv, MarkedInv
<1>4. QED
  BY <1>2, <1>3

\* Every step of a build keeps the invariant, and a reported preview is bound.
LEMMA NextBuild == ASSUME BuildInv, Build!Next PROVE BuildInv'
BY WriteKeeps, BuildFailsKeeps, GatesKeep, RelistKeeps, ServingKeeps DEF Build!Next
LEMMA BuildProperty == ASSUME BuildInv PROVE Build!BuildIsBound
BY DEF BuildInv, MarkedInv, Build!BuildIsBound

-----------------------------------------------------------------------------
(* CoordinatorSession: a decision and the chain of events.                   *)

\* A failure stays; what nobody lost is on record but for the call that is being made.
Calling == stage \in {"decide", "refused", "decided"}
ChainInv ==
    /\ {chain, started, coordinatorEnded, refusals} \subseteq Nat
    /\ fatal = None =>
          /\ ~unsaved /\ refusals < CoordinatorAttempts
          /\ started = coordinatorEnded + (IF Calling THEN 1 ELSE 0)
\* What was handed over was waited for.
HandedInv ==
    /\ stage = "deliver" => chain = 0
    /\ delivered # None =>
          stage = "over" /\ fatal = None /\ delivered = choice /\ chain = 0
DecisionInv == ChainInv /\ HandedInv

\* Nothing is decided at first.
LEMMA InitDecision == (part = "Coordinator" /\ Coordinator!Init) => DecisionInv
BY AttemptsAssumption DEF Coordinator!Init, DecisionInv, ChainInv, HandedInv, Calling

\* The first failure stays.
LEMMA Failing ==
    ASSUME NEW code \in {"ROLE_NOT_ACTIVE", "TOOL_BUDGET_EXCEEDED", "AGENT_OUTPUT_INVALID",
                         "EVENT_APPEND_FAILED"}, Coordinator!fail(code)
    PROVE  fatal' # None
BY NoNameAssumption DEF Coordinator!fail

\* Steps that put nothing on record.
LEMMA TellingKeeps ==
    ASSUME DecisionInv,
           \/ Coordinator!Stop \/ Coordinator!Displace \/ Coordinator!active
           \/ Coordinator!Request \/ Coordinator!CallTool \/ Coordinator!Settled
    PROVE  DecisionInv'
<1>1. /\ UNCHANGED <<refusals, choice, unsaved, started, coordinatorEnded, delivered>>
      /\ fatal' = fatal \/ fatal' # None
  BY Failing DEF Coordinator!Stop, Coordinator!Displace, Coordinator!active, Coordinator!Request,
     Coordinator!CallTool, Coordinator!Settled, Coordinator!progress, Coordinator!record
<1>2. \/ stage \notin {"deliver", "over", "decide", "refused", "decided"}
      \/ UNCHANGED <<stage, fatal, chain>>
  BY DEF Coordinator!Stop, Coordinator!Displace, Coordinator!active, Coordinator!Request,
     Coordinator!CallTool, Coordinator!Settled, Coordinator!progress, Coordinator!record
<1>3. chain' = chain \/ chain' = chain + 1
  BY DEF Coordinator!Stop, Coordinator!Displace, Coordinator!active, Coordinator!Request,
     Coordinator!CallTool, Coordinator!Settled, Coordinator!progress, Coordinator!record
<1>4. stage' = stage \/ stage' \in {"model", "over", "execute", "malformed", "flush"}
  BY DEF Coordinator!Stop, Coordinator!Displace, Coordinator!active, Coordinator!Request,
     Coordinator!CallTool, Coordinator!Settled, Coordinator!progress, Coordinator!record
<1>5. ChainInv'
  <2>1. Calling' <=> Calling
    BY <1>2, <1>4 DEF Calling
  <2>2. chain' \in Nat
    BY <1>3 DEF DecisionInv, ChainInv
  <2>3. QED
    BY <1>1, <2>1, <2>2 DEF DecisionInv, ChainInv
<1>6. HandedInv'
  BY <1>1, <1>2, <1>4 DEF DecisionInv, HandedInv
<1>7. QED
  BY <1>5, <1>6 DEF DecisionInv

\* An event of the chain is saved, or is not.
LEMMA SaveKeeps == ASSUME DecisionInv, Coordinator!Save PROVE DecisionInv'
<1>1. /\ chain > 0 /\ chain' = chain - 1
      /\ UNCHANGED <<stage, refusals, choice, started, coordinatorEnded, delivered>>
      /\ UNCHANGED <<fatal, unsaved>> \/ fatal' # None
  BY NoNameAssumption DEF Coordinator!Save, Coordinator!progress
<1>2. chain \in Nat /\ chain # 0 /\ chain' \in Nat
  BY <1>1 DEF DecisionInv, ChainInv
<1>3. ChainInv'
  BY <1>1, <1>2 DEF DecisionInv, ChainInv, Calling
<1>4. HandedInv'
  BY <1>1, <1>2 DEF DecisionInv, HandedInv
<1>5. QED
  BY <1>3, <1>4 DEF DecisionInv

\* A call of a tool: its arguments, its start, what it decides and its end.
LEMMA ToolKeeps ==
    ASSUME DecisionInv,
           \/ Coordinator!Malformed \/ Coordinator!Execute \/ Coordinator!EndTool
           \/ \E name \in Coordinator!Names : Coordinator!Decide(name)
    PROVE  DecisionInv'
<1>1. delivered' = delivered /\ delivered = None /\ stage' \notin {"deliver", "over"}
  BY DEF Coordinator!Malformed, Coordinator!Execute, Coordinator!EndTool, Coordinator!Decide,
         DecisionInv, HandedInv
<1>2. HandedInv'
  BY <1>1 DEF HandedInv
<1>3. {chain, started, coordinatorEnded, refusals} \subseteq Nat
  BY DEF DecisionInv, ChainInv
<1>4. ASSUME Coordinator!invalid
      PROVE  refusals' = refusals + 1
             /\ \/ fatal' # None
                \/ fatal' = fatal /\ refusals' < CoordinatorAttempts
  <2>1. CASE refusals + 1 >= CoordinatorAttempts
    BY <1>4, <2>1, Failing DEF Coordinator!invalid
  <2>2. CASE ~(refusals + 1 >= CoordinatorAttempts)
    BY <1>3, <1>4, <2>2, AttemptsAssumption DEF Coordinator!invalid
  <2>3. QED
    BY <2>1, <2>2
<1>5. CASE Coordinator!Malformed
  <2>1. /\ ~Calling /\ ~Calling' /\ Coordinator!invalid /\ chain' \in {chain, chain + 1}
        /\ UNCHANGED <<unsaved, started, coordinatorEnded>>
    BY <1>5 DEF Coordinator!Malformed, Calling
  <2>2. QED
    BY <1>2, <1>3, <1>4, <2>1 DEF DecisionInv, ChainInv
<1>6. CASE Coordinator!Execute
  <2>1. ~Calling /\ UNCHANGED <<refusals, chain, coordinatorEnded>>
    BY <1>6 DEF Coordinator!Execute, Coordinator!progress, Calling
  <2>2. \/ ~Calling' /\ UNCHANGED <<fatal, started, unsaved>>
        \/ fatal' # None /\ started' = started
        \/ Calling' /\ started' = started + 1 /\ UNCHANGED <<fatal, unsaved>>
    BY <1>6, Failing DEF Coordinator!Execute, Calling
  <2>3. QED
    BY <1>2, <1>3, <2>1, <2>2 DEF DecisionInv, ChainInv
<1>7. CASE Coordinator!EndTool
  <2>1. Calling /\ ~Calling' /\ UNCHANGED <<refusals, chain, started>>
    BY <1>7 DEF Coordinator!EndTool, Coordinator!progress, Calling
  <2>2. \/ fatal' # None /\ coordinatorEnded' = coordinatorEnded
        \/ coordinatorEnded' = coordinatorEnded + 1 /\ UNCHANGED <<fatal, unsaved>>
    BY <1>7, Failing DEF Coordinator!EndTool
  <2>3. QED
    BY <1>2, <1>3, <2>1, <2>2 DEF DecisionInv, ChainInv
<1>8. CASE \E name \in Coordinator!Names : Coordinator!Decide(name)
  <2>1. /\ Calling /\ Calling' /\ UNCHANGED <<chain, unsaved, started, coordinatorEnded>>
        /\ Coordinator!invalid \/ UNCHANGED <<refusals, fatal>>
    BY <1>8 DEF Coordinator!Decide, Coordinator!record, Calling
  <2>2. CASE Coordinator!invalid
    BY <1>2, <1>3, <1>4, <2>1, <2>2 DEF DecisionInv, ChainInv
  <2>3. CASE UNCHANGED <<refusals, fatal>>
    BY <1>2, <1>3, <2>1, <2>3 DEF DecisionInv, ChainInv
  <2>4. QED
    BY <2>1, <2>2, <2>3
<1>9. QED
  BY <1>5, <1>6, <1>7, <1>8

\* The prompt has returned and the chain was waited for; the decision is handed over.
LEMMA HandingKeeps ==
    ASSUME DecisionInv, Coordinator!Returned \/ Coordinator!Deliver PROVE DecisionInv'
<1>1. /\ ~Calling /\ ~Calling' /\ chain = 0 /\ delivered = None
      /\ UNCHANGED <<choice, chain, unsaved, started, coordinatorEnded>>
  BY DEF Coordinator!Returned, Coordinator!Deliver, Coordinator!progress, Coordinator!record,
         Calling, DecisionInv, HandedInv
<1>2. fatal' # None \/ fatal' = fatal
  BY Failing DEF Coordinator!Returned, Coordinator!Deliver, Coordinator!progress
<1>3. refusals' \in {refusals, 1}
  BY DEF Coordinator!Returned, Coordinator!Deliver, Coordinator!progress
<1>4. ChainInv'
  BY <1>1, <1>2, <1>3, AttemptsAssumption DEF DecisionInv, ChainInv
<1>5. \/ delivered' = None
      \/ stage' = "over" /\ fatal' = None /\ delivered' = choice
  BY <1>1 DEF Coordinator!Returned, Coordinator!Deliver, Coordinator!Open
<1>6. HandedInv'
  BY <1>1, <1>5 DEF HandedInv
<1>7. QED
  BY <1>4, <1>6 DEF DecisionInv

\* Every step of a coordinator keeps the invariant, and its decision is on record.
LEMMA NextDecision == ASSUME DecisionInv, Coordinator!Next PROVE DecisionInv'
BY TellingKeeps, SaveKeeps, ToolKeeps, HandingKeeps DEF Coordinator!Next
LEMMA DecisionProperty == ASSUME DecisionInv PROVE Coordinator!DecidedOnRecord
<1>1. delivered # None => ~Calling
  BY DEF DecisionInv, HandedInv, Calling
<1>2. QED
  BY <1>1 DEF DecisionInv, ChainInv, HandedInv, Coordinator!DecidedOnRecord

-----------------------------------------------------------------------------
(* BuilderSession: the log and the events on their way to it, as one sequence. *)

Entries == [kind : {"start", "output", "end", "stopped"}, call : Nat]
Closed(s) == s = <<>> \/ s[Len(s)].kind = "end"
Opened(s, c) == s # <<>> /\ s[Len(s)].kind \in {"start", "output"} /\ s[Len(s)].call = c
Nested(s) == \A i \in 1..Len(s) :
    /\ s[i].kind = "start" => i = 1 \/ s[i - 1].kind = "end"
    /\ s[i].kind = "stopped" => i = Len(s) /\ (i = 1 \/ s[i - 1].kind = "end")
    /\ s[i].kind \in {"output", "end"} =>
          i > 1 /\ s[i - 1].kind \in {"start", "output"} /\ s[i - 1].call = s[i].call
\* Whoever may still put an event behind the others finds the call open, or closed.
EventsInv ==
    /\ Nested(log)
    /\ ~eventLost =>
          /\ Nested(log \o builderEvents)
          /\ builderTurn \in {"model", "ending"} => Closed(log \o builderEvents)
          /\ builderTurn \in {"starting", "running", "finishing"} => Opened(log \o builderEvents, callNo)
\* Output that waits is that of the call; after an abort none waits.
OutputInv ==
    /\ batches \in Seq(Nat) /\ \A i \in 1..Len(batches) : batches[i] = callNo
    /\ stopping \/ builderTurn \notin {"running", "finishing"} => batches = <<>>
    /\ builderTurn \in {"running", "finishing"} /\ ~stopping => owner = callNo
    /\ eventLost => stopping
BuilderTypes == log \in Seq(Entries) /\ builderEvents \in Seq(Entries) /\ callNo \in Nat
LogInv == BuilderTypes /\ EventsInv /\ OutputInv

\* An event that fits goes behind the others.
LEMMA NestedAppend ==
    ASSUME NEW s \in Seq(Entries), NEW e \in Entries, Nested(s),
           \/ e.kind \in {"start", "stopped"} /\ Closed(s)
           \/ e.kind \in {"output", "end"} /\ Opened(s, e.call)
    PROVE  /\ Append(s, e) \in Seq(Entries) /\ Nested(Append(s, e))
           /\ e.kind \in {"start", "output"} => Opened(Append(s, e), e.call)
           /\ e.kind = "end" => Closed(Append(s, e))
<1> DEFINE u == Append(s, e)
<1>1. /\ u \in Seq(Entries) /\ Len(u) = Len(s) + 1 /\ Len(s) \in Nat /\ u[Len(s) + 1] = e
      /\ \A i \in 1..Len(s) : u[i] = s[i]
  BY AppendProperties, LenProperties
<1>2. s = <<>> <=> Len(s) = 0
  BY EmptySeq
<1>3. u # <<>>
  BY <1>1, EmptySeq
<1> HIDE DEF u
<1>4. ASSUME NEW i \in 1..Len(u)
      PROVE  /\ u[i].kind = "start" => i = 1 \/ u[i - 1].kind = "end"
             /\ u[i].kind = "stopped" => i = Len(u) /\ (i = 1 \/ u[i - 1].kind = "end")
             /\ u[i].kind \in {"output", "end"} =>
                   i > 1 /\ u[i - 1].kind \in {"start", "output"} /\ u[i - 1].call = u[i].call
  <2>1. CASE i = Len(s) + 1
    <3>1. Len(s) # 0 => u[i - 1] = s[Len(s)] /\ i > 1
      BY <1>1, <2>1
    <3>2. u[i] = e /\ i = Len(u)
      BY <1>1, <2>1
    <3>3. CASE e.kind \in {"start", "stopped"} /\ Closed(s)
      BY <1>1, <1>2, <2>1, <3>1, <3>2, <3>3 DEF Closed
    <3>4. CASE e.kind \in {"output", "end"} /\ Opened(s, e.call)
      BY <1>2, <3>1, <3>2, <3>4 DEF Opened
    <3>5. QED
      BY <3>3, <3>4
  <2>2. CASE i \in 1..Len(s)
    <3>1. s[i].kind # "stopped"
      <4>1. s[i].kind = "stopped" => i = Len(s)
        BY <2>2 DEF Nested
      <4>2. s[Len(s)].kind # "stopped"
        BY <1>2, <2>2 DEF Closed, Opened
      <4>3. QED
        BY <4>1, <4>2
    <3>2. u[i] = s[i] /\ (i > 1 => i - 1 \in 1..Len(s) /\ u[i - 1] = s[i - 1])
      BY <1>1, <2>2
    <3>3. i = 1 \/ i > 1
      BY <2>2
    <3>4. QED
      BY <2>2, <3>1, <3>2, <3>3 DEF Nested
  <2>3. QED
    BY <1>1, <2>1, <2>2
<1>5. QED
  BY <1>1, <1>3, <1>4 DEF Nested, Opened, Closed, u

\* Output that is not saved leaves the rest as it was.
LEMMA NestedWithout ==
    ASSUME NEW u \in Seq(Entries), NEW v \in Seq(Entries), NEW k \in 1..Len(u),
           u[k].kind = "output", Len(v) = Len(u) - 1, Nested(u),
           \A i \in 1..(k - 1) : v[i] = u[i], \A i \in k..Len(v) : v[i] = u[i + 1]
    PROVE  Nested(v) /\ (Closed(u) => Closed(v)) /\ \A c : Opened(u, c) => Opened(v, c)
<1>1. Len(u) \in Nat /\ Len(v) \in Nat
  BY LenProperties
<1>2. k > 1 /\ u[k - 1].kind \in {"start", "output"} /\ u[k - 1].call = u[k].call
  BY DEF Nested
<1>3. ASSUME NEW i \in 1..Len(v)
      PROVE  /\ v[i].kind = "start" => i = 1 \/ v[i - 1].kind = "end"
             /\ v[i].kind = "stopped" => i = Len(v) /\ (i = 1 \/ v[i - 1].kind = "end")
             /\ v[i].kind \in {"output", "end"} =>
                   i > 1 /\ v[i - 1].kind \in {"start", "output"} /\ v[i - 1].call = v[i].call
  <2>1. CASE i < k
    <3>1. v[i] = u[i] /\ i \in 1..Len(u) /\ i # Len(u)
      <4>1. i \in 1..(k - 1)
        BY <1>1, <2>1
      <4>2. v[i] = u[i]
        BY <4>1
      <4>3. i \in 1..Len(u) /\ i # Len(u)
        BY <1>1, <2>1
      <4>4. QED
        BY <4>2, <4>3
    <3>2. i = 1 \/ (i > 1 /\ v[i - 1] = u[i - 1])
      BY <1>1, <2>1
    <3>3. /\ u[i].kind # "stopped"
          /\ u[i].kind = "start" => i = 1 \/ u[i - 1].kind = "end"
          /\ u[i].kind \in {"output", "end"} =>
                i > 1 /\ u[i - 1].kind \in {"start", "output"} /\ u[i - 1].call = u[i].call
      <4>1. i \in 1..Len(u) /\ i # Len(u)
        BY <3>1
      <4>2. QED
        BY <4>1 DEF Nested
    <3>4. CASE i = 1
      BY <3>1, <3>3, <3>4
    <3>5. CASE i > 1 /\ v[i - 1] = u[i - 1]
      BY <3>1, <3>3, <3>5
    <3>6. QED
      BY <3>2, <3>4, <3>5
  <2>2. CASE i = k
    <3>1. v[i] = u[k + 1] /\ k + 1 \in 1..Len(u) /\ v[i - 1] = u[k - 1] /\ i > 1 /\ (k + 1) - 1 = k
      <4>1. i \in k..Len(v) /\ i - 1 \in 1..(k - 1) /\ i > 1
        BY <1>1, <1>2, <2>2
      <4>2. v[i] = u[i + 1] /\ v[i - 1] = u[i - 1]
        BY <4>1
      <4>3. k + 1 \in 1..Len(u) /\ (k + 1) - 1 = k
        BY <1>1, <2>2
      <4>4. QED
        BY <2>2, <4>1, <4>2, <4>3
    <3>2. /\ u[k + 1].kind \notin {"start", "stopped"}
          /\ u[k + 1].kind \in {"output", "end"} => u[k].call = u[k + 1].call
      <4>1. k + 1 # 1
        BY <1>2
      <4>2. QED
        BY <3>1, <4>1 DEF Nested
    <3>3. QED
      BY <1>2, <3>1, <3>2
  <2>3. CASE i > k
    <3>1. /\ v[i] = u[i + 1] /\ v[i - 1] = u[i] /\ i + 1 \in 1..Len(u) /\ i > 1 /\ i + 1 # 1
          /\ (i + 1) - 1 = i /\ (i + 1 = Len(u) => i = Len(v))
      <4>1. /\ i \in k..Len(v) /\ i - 1 \in k..Len(v) /\ (i - 1) + 1 = i /\ i > 1
            /\ i + 1 \in 1..Len(u) /\ i + 1 # 1 /\ (i + 1) - 1 = i
            /\ i + 1 = Len(u) => i = Len(v)
        BY <1>1, <1>2, <2>3
      <4>2. v[i] = u[i + 1]
        BY <4>1
      <4>3. v[i - 1] = u[(i - 1) + 1]
        BY <4>1
      <4>4. QED
        BY <4>1, <4>2, <4>3
    <3>2. QED
      BY <3>1 DEF Nested
  <2>4. QED
    BY <2>1, <2>2, <2>3
<1>4. Nested(v)
  BY <1>3 DEF Nested
<1>5. u # <<>> /\ v # <<>> /\ Len(v) # 0
  BY <1>1, <1>2, EmptySeq
<1>6. CASE k = Len(u)
  <2>1. v[Len(v)] = u[k - 1] /\ u[Len(u)] = u[k]
    BY <1>1, <1>2, <1>6
  <2>2. QED
    BY <1>2, <1>4, <1>5, <2>1 DEF Closed, Opened
<1>7. CASE k # Len(u)
  <2>1. v[Len(v)] = u[Len(u)]
    BY <1>1, <1>7
  <2>2. QED
    BY <1>4, <1>5, <2>1 DEF Closed, Opened
<1>8. QED
  BY <1>6, <1>7

\* The first event on its way is saved, or left out.
LEMMA FirstEvent ==
    ASSUME NEW s \in Seq(Entries), NEW t \in Seq(Entries), t # <<>>
    PROVE  /\ Head(t) \in Entries /\ Tail(t) \in Seq(Entries)
           /\ Append(s, Head(t)) \in Seq(Entries) /\ Append(s, Head(t)) \o Tail(t) = s \o t
           /\ Nested(s \o t) => Nested(Append(s, Head(t)))
           /\ Head(t).kind = "output" /\ Nested(s \o t) =>
                /\ Nested(s \o Tail(t)) /\ (Closed(s \o t) => Closed(s \o Tail(t)))
                /\ \A c : Opened(s \o t, c) => Opened(s \o Tail(t), c)
<1> DEFINE u == s \o t
           v == s \o Tail(t)
           a == Append(s, Head(t))
<1>1. /\ Head(t) \in Entries /\ Tail(t) \in Seq(Entries) /\ Len(t) \in Nat \ {0} /\ Len(s) \in Nat
      /\ Len(Tail(t)) = Len(t) - 1 /\ Head(t) = t[1]
      /\ \A i \in 1..Len(Tail(t)) : Tail(t)[i] = t[i + 1]
  BY HeadTailProperties, EmptySeq, LenProperties
<1>2. /\ u \in Seq(Entries) /\ Len(u) = Len(s) + Len(t)
      /\ \A i \in 1..Len(u) : u[i] = IF i <= Len(s) THEN s[i] ELSE t[i - Len(s)]
  BY ConcatProperties
<1>3. /\ v \in Seq(Entries) /\ Len(v) = Len(s) + Len(Tail(t))
      /\ \A i \in 1..Len(v) : v[i] = IF i <= Len(s) THEN s[i] ELSE Tail(t)[i - Len(s)]
  BY <1>1, ConcatProperties
<1>4. /\ a \in Seq(Entries) /\ Len(a) = Len(s) + 1 /\ a[Len(s) + 1] = Head(t)
      /\ \A i \in 1..Len(s) : a[i] = s[i]
  BY <1>1, AppendProperties
<1>5. /\ a \o Tail(t) \in Seq(Entries) /\ Len(a \o Tail(t)) = Len(a) + Len(Tail(t))
      /\ \A i \in 1..Len(a \o Tail(t)) :
            (a \o Tail(t))[i] = IF i <= Len(a) THEN a[i] ELSE Tail(t)[i - Len(a)]
  BY <1>1, <1>4, ConcatProperties
<1> DEFINE w == a \o Tail(t)
<1> HIDE DEF u, v, a, w
<1>6. w = u
  <2>1. Len(w) = Len(u)
    BY <1>1, <1>2, <1>4, <1>5 DEF w
  <2>2. ASSUME NEW i \in 1..Len(w) PROVE w[i] = u[i]
    <3>1. CASE i <= Len(s)
      <4>1. i \in 1..Len(s) /\ i \in 1..Len(u) /\ i <= Len(a)
        BY <1>1, <1>2, <1>4, <2>1, <3>1
      <4>2. w[i] = a[i]
        BY <1>5, <4>1 DEF w
      <4>3. a[i] = s[i]
        BY <1>4, <4>1
      <4>4. u[i] = s[i]
        BY <1>2, <3>1, <4>1
      <4>5. QED
        BY <4>2, <4>3, <4>4
    <3>2. CASE i = Len(s) + 1
      BY <1>1, <1>2, <1>4, <1>5, <2>1, <3>2 DEF w
    <3>3. CASE i > Len(s) + 1
      <4>1. w[i] = Tail(t)[i - Len(a)] /\ i - Len(a) \in 1..Len(Tail(t))
        BY <1>1, <1>4, <1>5, <3>3 DEF w
      <4>2. Tail(t)[i - Len(a)] = t[(i - Len(a)) + 1] /\ (i - Len(a)) + 1 = i - Len(s)
        BY <1>1, <1>4, <4>1
      <4>3. u[i] = t[i - Len(s)]
        BY <1>1, <1>2, <2>1, <3>3
      <4>4. QED
        BY <4>1, <4>2, <4>3
    <3>4. QED
      BY <1>1, <3>1, <3>2, <3>3
  <2>3. QED
    BY <1>2, <1>5, <2>1, <2>2, SeqEqual DEF w
<1>7. ASSUME Nested(u) PROVE Nested(a)
  <2>1. ASSUME NEW i \in 1..Len(a)
        PROVE  /\ i \in 1..Len(u) /\ a[i] = u[i] /\ (i = 1 \/ (i > 1 /\ a[i - 1] = u[i - 1]))
               /\ (i = Len(u) => i = Len(a))
    <3>1. i \in 1..Len(u) /\ (i = Len(u) => i = Len(a)) /\ (i = 1 \/ i > 1)
      BY <1>1, <1>2, <1>4
    <3>2. \A j \in 1..Len(a) : a[j] = u[j]
      <4>1. ASSUME NEW j \in 1..Len(a) PROVE a[j] = u[j]
        <5>1. CASE j \in 1..Len(s)
          BY <1>1, <1>2, <1>4, <5>1
        <5>2. CASE j = Len(s) + 1
          BY <1>1, <1>2, <1>4, <5>2
        <5>3. QED
          BY <1>1, <1>4, <5>1, <5>2
      <4>2. QED
        BY <4>1
    <3>3. i > 1 => i - 1 \in 1..Len(a)
      BY <1>1, <1>4
    <3>4. QED
      BY <3>1, <3>2, <3>3
  <2>2. QED
    BY <1>7, <2>1 DEF Nested
<1>8. ASSUME Head(t).kind = "output", Nested(u)
      PROVE  Nested(v) /\ (Closed(u) => Closed(v)) /\ \A c : Opened(u, c) => Opened(v, c)
  <2> DEFINE k == Len(s) + 1
  <2>1. k \in 1..Len(u) /\ u[k].kind = "output" /\ Len(v) = Len(u) - 1
    <3>1. k \in 1..Len(u) /\ k - Len(s) = 1 /\ ~(k <= Len(s))
      BY <1>1, <1>2
    <3>2. u[k] = t[1]
      BY <1>2, <3>1
    <3>3. Len(v) = Len(u) - 1
      BY <1>1, <1>2, <1>3
    <3>4. QED
      BY <1>1, <1>8, <3>1, <3>2, <3>3
  <2>2. ASSUME NEW i \in 1..(k - 1) PROVE v[i] = u[i]
    <3>1. i \in 1..Len(u) /\ i \in 1..Len(v) /\ i <= Len(s)
      BY <1>1, <1>2, <1>3
    <3>2. v[i] = s[i]
      BY <1>3, <3>1
    <3>3. u[i] = s[i]
      BY <1>2, <3>1
    <3>4. QED
      BY <3>2, <3>3
  <2>3. ASSUME NEW i \in k..Len(v) PROVE v[i] = u[i + 1]
    <3>1. v[i] = Tail(t)[i - Len(s)] /\ i - Len(s) \in 1..Len(Tail(t))
      BY <1>1, <1>3
    <3>2. Tail(t)[i - Len(s)] = t[(i - Len(s)) + 1] /\ (i - Len(s)) + 1 = (i + 1) - Len(s)
      BY <1>1, <3>1
    <3>3. u[i + 1] = t[(i + 1) - Len(s)]
      BY <1>1, <1>2, <1>3
    <3>4. QED
      BY <3>1, <3>2, <3>3
  <2> HIDE DEF k
  <2>4. QED
    BY <1>2, <1>3, <1>8, <2>1, <2>2, <2>3, NestedWithout
<1>9. QED
  BY <1>1, <1>4, <1>6, <1>7, <1>8 DEF u, v, a, w

LEMMA InitLog == part = "Builder" /\ Builder!Init => LogInv
<1> SUFFICES ASSUME part = "Builder", Builder!Init PROVE LogInv
  OBVIOUS
<1>1. /\ log = <<>> /\ builderEvents = <<>> /\ batches = <<>> /\ callNo = 0 /\ builderTurn = "model"
      /\ eventLost = FALSE
  BY DEF Builder!Init
<1>2. /\ log \in Seq(Entries) /\ builderEvents \in Seq(Entries) /\ batches \in Seq(Nat)
      /\ Len(log) = 0 /\ Len(batches) = 0 /\ log \o builderEvents = <<>>
  BY <1>1
<1>3. Nested(log) /\ Nested(log \o builderEvents) /\ Closed(log \o builderEvents)
  BY <1>1, <1>2 DEF Nested, Closed
<1>4. EventsInv /\ OutputInv /\ BuilderTypes
  BY <1>1, <1>2, <1>3 DEF EventsInv, OutputInv, BuilderTypes
<1>5. QED
  BY <1>4 DEF LogInv

\* A step that leaves the events, their call and the turn alone.
LEMMA UnchangedEvents ==
    ASSUME LogInv, UNCHANGED <<builderTurn, callNo, builderEvents, log, eventLost>>
    PROVE  EventsInv' /\ BuilderTypes'
<1>1. BuilderTypes'
  BY DEF LogInv, BuilderTypes
<1>2. (log \o builderEvents)' = log \o builderEvents
  OBVIOUS
<1>3. /\ Nested(log)' /\ (~eventLost' => Nested((log \o builderEvents)'))
      /\ ~eventLost' /\ builderTurn' \in {"model", "ending"} => Closed((log \o builderEvents)')
      /\ ~eventLost' /\ builderTurn' \in {"starting", "running", "finishing"} =>
            Opened((log \o builderEvents)', callNo')
  BY <1>2 DEF LogInv, EventsInv, Nested
<1>4. EventsInv'
  BY <1>3 DEF EventsInv, Nested, Closed, Opened
<1>5. QED
  BY <1>1, <1>4

\* The abort drops what waits, and lets what is on its way go on.
LEMMA AbortLog == LogInv /\ Builder!Abort => LogInv'
<1> SUFFICES ASSUME LogInv, Builder!Abort PROVE LogInv'
  OBVIOUS
<1>1. /\ batches' = <<>> /\ stopping' = TRUE
      /\ UNCHANGED <<builderTurn, callNo, builderEvents, log, eventLost>>
  BY DEF Builder!Abort, Builder!Dispose
<1>2. EventsInv' /\ BuilderTypes'
  BY <1>1, UnchangedEvents
<1>3. OutputInv'
  BY <1>1 DEF LogInv, OutputInv
<1>4. QED
  BY <1>2, <1>3 DEF LogInv

LEMMA SaveLog == LogInv /\ Builder!Save => LogInv'
<1> SUFFICES ASSUME LogInv, Builder!Save PROVE LogInv'
  OBVIOUS
<1> DEFINE e == Head(builderEvents)
<1>1. /\ builderEvents # <<>> /\ builderEvents' = Tail(builderEvents)
      /\ log \in Seq(Entries) /\ builderEvents \in Seq(Entries)
      /\ UNCHANGED <<builderTurn, callNo>>
  BY DEF Builder!Save, LogInv, BuilderTypes
<1>2. /\ e \in Entries /\ Tail(builderEvents) \in Seq(Entries) /\ Append(log, e) \in Seq(Entries)
      /\ Append(log, e) \o Tail(builderEvents) = log \o builderEvents
      /\ Nested(log \o builderEvents) => Nested(Append(log, e))
      /\ e.kind = "output" /\ Nested(log \o builderEvents) =>
           /\ Nested(log \o Tail(builderEvents))
           /\ Closed(log \o builderEvents) => Closed(log \o Tail(builderEvents))
           /\ \A c : Opened(log \o builderEvents, c) => Opened(log \o Tail(builderEvents), c)
  BY <1>1, FirstEvent
<1>3. CASE eventLost /\ UNCHANGED <<log, eventLost, stopping, batch, batches, owner>>
  <2>1. BuilderTypes'
    BY <1>1, <1>2, <1>3 DEF LogInv, BuilderTypes
  <2>2. Nested(log)' /\ eventLost'
    BY <1>3 DEF LogInv, EventsInv, Nested
  <2>3. EventsInv'
    BY <2>2 DEF EventsInv
  <2>4. OutputInv'
    BY <1>1, <1>3 DEF LogInv, OutputInv
  <2>5. QED
    BY <2>1, <2>3, <2>4 DEF LogInv
<1>4. CASE ~eventLost /\ e.kind = "output" /\ UNCHANGED <<log, eventLost, stopping, batch, batches, owner>>
  <2>1. BuilderTypes'
    BY <1>1, <1>2, <1>4 DEF LogInv, BuilderTypes
  <2>2. (log \o builderEvents)' = log \o Tail(builderEvents)
    BY <1>1, <1>4
  <2>3. Nested(log)' /\ Nested((log \o builderEvents)')
    <3>1. Nested(log) /\ Nested(log \o Tail(builderEvents))
      BY <1>2, <1>4 DEF LogInv, EventsInv
    <3>2. Nested(log)'
      BY <1>4, <3>1 DEF Nested
    <3>3. Nested((log \o builderEvents)')
      BY <3>1, <2>2
    <3>4. QED
      BY <3>2, <3>3
  <2>4. builderTurn' \in {"model", "ending"} => Closed((log \o builderEvents)')
    BY <1>1, <1>2, <1>4, <2>2 DEF LogInv, EventsInv
  <2>5. builderTurn' \in {"starting", "running", "finishing"} => Opened((log \o builderEvents)', callNo')
    BY <1>1, <1>2, <1>4, <2>2 DEF LogInv, EventsInv
  <2>6. EventsInv'
    <3>1. Nested(log)'
      BY <2>3 DEF Nested
    <3>2. Nested(log \o builderEvents)'
      BY <2>3 DEF Nested
    <3>3. (builderTurn \in {"model", "ending"} => Closed(log \o builderEvents))'
      BY <2>4 DEF Closed
    <3>4. (builderTurn \in {"starting", "running", "finishing"} => Opened(log \o builderEvents, callNo))'
      BY <2>5 DEF Opened
    <3>5. QED
      BY <3>1, <3>2, <3>3, <3>4 DEF EventsInv
  <2>7. OutputInv'
    BY <1>1, <1>4 DEF LogInv, OutputInv
  <2>8. QED
    BY <2>1, <2>6, <2>7 DEF LogInv
<1>5. CASE ~eventLost /\ log' = Append(log, e) /\ UNCHANGED <<eventLost, stopping, batch, batches, owner>>
  <2>1. BuilderTypes'
    BY <1>1, <1>2, <1>5 DEF LogInv, BuilderTypes
  <2>2. (log \o builderEvents)' = log \o builderEvents
    BY <1>1, <1>2, <1>5
  <2>3. Nested(log') /\ Nested((log \o builderEvents)')
    BY <1>2, <1>5, <2>2 DEF LogInv, EventsInv
  <2>4. builderTurn' \in {"model", "ending"} => Closed((log \o builderEvents)')
    BY <1>1, <1>5, <2>2 DEF LogInv, EventsInv
  <2>5. builderTurn' \in {"starting", "running", "finishing"} => Opened((log \o builderEvents)', callNo')
    BY <1>1, <1>5, <2>2 DEF LogInv, EventsInv
  <2>6. EventsInv'
    <3>1. Nested(log)'
      BY <2>3 DEF Nested
    <3>2. Nested(log \o builderEvents)'
      BY <2>3 DEF Nested
    <3>3. (builderTurn \in {"model", "ending"} => Closed(log \o builderEvents))'
      BY <2>4 DEF Closed
    <3>4. (builderTurn \in {"starting", "running", "finishing"} => Opened(log \o builderEvents, callNo))'
      BY <2>5 DEF Opened
    <3>5. QED
      BY <3>1, <3>2, <3>3, <3>4 DEF EventsInv
  <2>7. OutputInv'
    BY <1>1, <1>5 DEF LogInv, OutputInv
  <2>8. QED
    BY <2>1, <2>6, <2>7 DEF LogInv
<1>6. CASE eventLost' = TRUE /\ stopping' = TRUE /\ Builder!Dispose /\ UNCHANGED log
  <2>1. BuilderTypes'
    BY <1>1, <1>2, <1>6 DEF LogInv, BuilderTypes
  <2>2. Nested(log)' /\ eventLost'
    BY <1>6 DEF LogInv, EventsInv, Nested
  <2>3. EventsInv'
    BY <2>2 DEF EventsInv
  <2>4. OutputInv'
    BY <1>1, <1>6 DEF LogInv, OutputInv, Builder!Dispose
  <2>5. QED
    BY <2>1, <2>3, <2>4 DEF LogInv
<1>7. QED
  BY <1>3, <1>4, <1>5, <1>6 DEF Builder!Save

\* A step that gives one more event to the chain.
LEMMA GivenLog ==
    ASSUME LogInv, NEW e \in Entries, builderEvents' = Append(builderEvents, e), UNCHANGED log,
           \/ e.kind \in {"start", "stopped"} /\ Closed(log \o builderEvents)
           \/ e.kind \in {"output", "end"} /\ Opened(log \o builderEvents, e.call),
           Nested(log \o builderEvents)
    PROVE  /\ log' \in Seq(Entries) /\ builderEvents' \in Seq(Entries) /\ Nested(log')
           /\ Nested(log' \o builderEvents')
           /\ e.kind \in {"start", "output"} => Opened(log' \o builderEvents', e.call)
           /\ e.kind = "end" => Closed(log' \o builderEvents')
<1>1. log \in Seq(Entries) /\ builderEvents \in Seq(Entries) /\ log \o builderEvents \in Seq(Entries)
  BY ConcatProperties DEF LogInv, BuilderTypes
<1>2. log' \o builderEvents' = Append(log \o builderEvents, e) /\ builderEvents' \in Seq(Entries)
  BY <1>1
<1>3. Nested(log')
  BY DEF LogInv, EventsInv
<1> DEFINE s == log \o builderEvents
<1> HIDE DEF s
<1>4. s \in Seq(Entries) /\ Nested(s) /\ log' \o builderEvents' = Append(s, e)
  BY <1>1, <1>2 DEF s
<1>5. \/ e.kind \in {"start", "stopped"} /\ Closed(s)
      \/ e.kind \in {"output", "end"} /\ Opened(s, e.call)
  BY DEF s
<1>6. QED
  BY <1>1, <1>2, <1>3, <1>4, <1>5, NestedAppend

LEMMA CallLog == LogInv /\ Builder!Call => LogInv'
<1> SUFFICES ASSUME LogInv, Builder!Call PROVE LogInv'
  OBVIOUS
<1> DEFINE e == [kind |-> "start", call |-> callNo + 1]
<1>1. /\ builderTurn = "model" /\ ~stopping /\ builderTurn' = "starting" /\ callNo' = callNo + 1
      /\ builderEvents' = Append(builderEvents, e) /\ UNCHANGED <<log, eventLost, stopping, batches, owner>>
  BY DEF Builder!Call, Builder!output
<1>2. ~eventLost /\ callNo \in Nat /\ batches = <<>>
  BY <1>1 DEF LogInv, BuilderTypes, OutputInv
<1>3. e \in Entries /\ e.kind = "start" /\ e.call = callNo'
  BY <1>1, <1>2 DEF Entries
<1>4. Nested(log \o builderEvents) /\ Closed(log \o builderEvents)
  BY <1>1, <1>2 DEF LogInv, EventsInv
<1> HIDE DEF e
<1>5. /\ log' \in Seq(Entries) /\ builderEvents' \in Seq(Entries) /\ Nested(log')
      /\ Nested(log' \o builderEvents') /\ Opened(log' \o builderEvents', callNo')
  BY <1>1, <1>3, <1>4, GivenLog
<1>6. EventsInv' /\ BuilderTypes'
  <2>1. BuilderTypes'
    BY <1>1, <1>2, <1>5 DEF BuilderTypes
  <2>2. Nested(log)' /\ Nested(log \o builderEvents)' /\ Opened(log \o builderEvents, callNo)'
    BY <1>5 DEF Nested, Opened
  <2>3. builderTurn' = "starting"
    BY <1>1
  <2>4. QED
    BY <2>1, <2>2, <2>3 DEF EventsInv
<1>7. OutputInv'
  <2>1. batches' = <<>> /\ Len(batches') = 0 /\ batches' \in Seq(Nat)
    BY <1>1, <1>2
  <2>2. QED
    BY <1>1, <1>2, <2>1 DEF OutputInv
<1>8. QED
  BY <1>6, <1>7 DEF LogInv

\* A step that leaves the events alone and the call between the same turns.
LEMMA SameEvents ==
    ASSUME LogInv, UNCHANGED <<log, builderEvents, callNo, eventLost>>,
           \/ eventLost
           \/ builderTurn \in {"model", "ending"} /\ builderTurn' \in {"model", "ending"}
           \/ builderTurn \in {"starting", "running", "finishing"}
              /\ builderTurn' \in {"starting", "running", "finishing"}
           \/ builderTurn' \in {"closing", "over"}
    PROVE  EventsInv' /\ BuilderTypes'
BY DEF LogInv, EventsInv, BuilderTypes, Nested, Closed, Opened

LEMMA StartedLog == LogInv /\ Builder!Started => LogInv'
<1> SUFFICES ASSUME LogInv, Builder!Started PROVE LogInv'
  OBVIOUS
<1>1. /\ builderTurn = "starting" /\ UNCHANGED <<callNo, batches, builderEvents, log, eventLost, stopping>>
      /\ \/ eventLost /\ builderTurn' = "model"
         \/ builderTurn' = "running" /\ owner' = IF stopping THEN None ELSE callNo
  BY DEF Builder!Started
<1>2. EventsInv' /\ BuilderTypes'
  BY <1>1, SameEvents
<1>3. batches = <<>>
  BY <1>1 DEF LogInv, OutputInv
<1>4. OutputInv'
  BY <1>1, <1>3 DEF LogInv, OutputInv
<1>5. QED
  BY <1>2, <1>4 DEF LogInv

\* What waits is the call's, with the batch that is put behind it.
LEMMA Enqueued ==
    ASSUME LogInv, builderTurn \in {"running", "finishing"}, batches' \in {batches, Append(batches, owner)},
           batches' # batches => ~stopping
    PROVE  /\ batches' \in Seq(Nat) /\ \A i \in 1..Len(batches') : batches'[i] = callNo
           /\ stopping => batches' = <<>>
<1>1. batches \in Seq(Nat) /\ (\A i \in 1..Len(batches) : batches[i] = callNo) /\ callNo \in Nat
  BY DEF LogInv, OutputInv, BuilderTypes
<1>2. CASE batches' = batches
  BY <1>1, <1>2 DEF LogInv, OutputInv
<1>3. CASE batches' # batches
  <2>1. ~stopping /\ owner = callNo /\ batches' = Append(batches, callNo)
    BY <1>3 DEF LogInv, OutputInv
  <2>2. /\ batches' \in Seq(Nat) /\ Len(batches') = Len(batches) + 1 /\ batches'[Len(batches) + 1] = callNo
        /\ \A i \in 1..Len(batches) : batches'[i] = batches[i]
    BY <1>1, <2>1, AppendProperties
  <2>3. Len(batches) \in Nat
    BY <1>1, LenProperties
  <2>4. \A i \in 1..Len(batches') : i = Len(batches) + 1 \/ i \in 1..Len(batches)
    BY <2>2, <2>3
  <2>5. \A i \in 1..Len(batches') : batches'[i] = callNo
    BY <1>1, <2>2, <2>4
  <2>6. QED
    BY <2>1, <2>2, <2>5
<1>4. QED
  BY <1>2, <1>3

LEMMA RunningLog ==
    ASSUME LogInv, Builder!Chunk \/ Builder!Flush \/ Builder!Executed
    PROVE  LogInv'
<1>1. /\ builderTurn = "running" /\ builderTurn' \in {"running", "finishing"}
      /\ UNCHANGED <<callNo, owner, builderEvents, log, eventLost, stopping>>
  BY DEF Builder!Chunk, Builder!Flush, Builder!Executed
<1>2. batches' \in {batches, Append(batches, owner)} /\ (batches' # batches => ~stopping)
  BY DEF Builder!Chunk, Builder!Flush, Builder!Executed, Builder!enqueue
<1>3. /\ batches' \in Seq(Nat) /\ \A i \in 1..Len(batches') : batches'[i] = callNo
      /\ stopping => batches' = <<>>
  BY <1>1, <1>2, Enqueued
<1>4. EventsInv' /\ BuilderTypes'
  BY <1>1, SameEvents
<1>5. OutputInv'
  BY <1>1, <1>3 DEF LogInv, OutputInv
<1>6. QED
  BY <1>4, <1>5 DEF LogInv

LEMMA PumpLog == LogInv /\ Builder!Pump => LogInv'
<1> SUFFICES ASSUME LogInv, Builder!Pump PROVE LogInv'
  OBVIOUS
<1> DEFINE e == [kind |-> "output", call |-> Head(batches)]
<1>1. /\ batches # <<>> /\ ~stopping /\ batches' = Tail(batches)
      /\ builderEvents' = Append(builderEvents, e)
      /\ UNCHANGED <<builderTurn, callNo, owner, log, eventLost, stopping>>
  BY DEF Builder!Pump
<1>2. builderTurn \in {"running", "finishing"} /\ ~eventLost /\ callNo \in Nat
  BY <1>1 DEF LogInv, OutputInv, BuilderTypes
<1>3. batches \in Seq(Nat) /\ (\A i \in 1..Len(batches) : batches[i] = callNo)
  BY DEF LogInv, OutputInv
<1>4. /\ Len(batches) \in Nat \ {0} /\ Head(batches) = batches[1] /\ Tail(batches) \in Seq(Nat)
      /\ Len(Tail(batches)) = Len(batches) - 1
      /\ \A i \in 1..Len(Tail(batches)) : Tail(batches)[i] = batches[i + 1]
  BY <1>1, <1>3, HeadTailProperties, EmptySeq, LenProperties
<1>5. Head(batches) = callNo /\ (\A i \in 1..Len(Tail(batches)) : i + 1 \in 1..Len(batches))
  BY <1>3, <1>4
<1>6. e \in Entries /\ e.kind = "output" /\ e.call = callNo'
  BY <1>1, <1>2, <1>5 DEF Entries
<1>7. Nested(log \o builderEvents) /\ Opened(log \o builderEvents, callNo)
  BY <1>2 DEF LogInv, EventsInv
<1> HIDE DEF e
<1>8. /\ log' \in Seq(Entries) /\ builderEvents' \in Seq(Entries) /\ Nested(log')
      /\ Nested(log' \o builderEvents') /\ Opened(log' \o builderEvents', callNo')
  BY <1>1, <1>6, <1>7, GivenLog
<1>9. EventsInv' /\ BuilderTypes'
  BY <1>1, <1>2, <1>8 DEF EventsInv, BuilderTypes, Nested, Opened, Closed
<1>10. batches' \in Seq(Nat) /\ \A i \in 1..Len(batches') : batches'[i] = callNo'
  BY <1>1, <1>3, <1>4, <1>5
<1>11. OutputInv'
  BY <1>1, <1>2, <1>10 DEF LogInv, OutputInv
<1>12. QED
  BY <1>9, <1>11 DEF LogInv

LEMMA PumpedLog == LogInv /\ Builder!Pumped => LogInv'
<1> SUFFICES ASSUME LogInv, Builder!Pumped PROVE LogInv'
  OBVIOUS
<1>1. /\ batches' \in {<<>>, batches}
      /\ UNCHANGED <<builderTurn, callNo, owner, builderEvents, log, eventLost, stopping>>
  BY DEF Builder!Pumped
<1>2. EventsInv' /\ BuilderTypes'
  BY <1>1, UnchangedEvents
<1>3. OutputInv'
  <2>1. CASE batches' = batches
    BY <1>1, <2>1 DEF LogInv, OutputInv
  <2>2. CASE batches' = <<>>
    <3>1. batches' \in Seq(Nat) /\ Len(batches') = 0
      BY <2>2
    <3>2. QED
      BY <1>1, <2>2, <3>1 DEF LogInv, OutputInv
  <2>3. QED
    BY <1>1, <2>1, <2>2
<1>4. QED
  BY <1>2, <1>3 DEF LogInv

LEMMA FinishLog == LogInv /\ Builder!Finish => LogInv'
<1> SUFFICES ASSUME LogInv, Builder!Finish PROVE LogInv'
  OBVIOUS
<1>1. builderTurn = "finishing" /\ UNCHANGED <<callNo, log, eventLost, stopping>>
  BY DEF Builder!Finish
<1>2. batches = <<>> \/ stopping
  BY DEF Builder!Finish, Builder!Drained
<1>3. CASE ~stopping /\ batches' = Append(batches, owner) /\ UNCHANGED <<builderTurn, owner, builderEvents>>
  <2>1. /\ batches' \in Seq(Nat) /\ \A i \in 1..Len(batches') : batches'[i] = callNo
    BY <1>1, <1>3, Enqueued
  <2>2. EventsInv' /\ BuilderTypes'
    BY <1>1, <1>3, SameEvents
  <2>3. OutputInv'
    BY <1>1, <1>3, <2>1 DEF LogInv, OutputInv
  <2>4. QED
    BY <2>2, <2>3 DEF LogInv
<1>4. CASE /\ builderTurn' = "ending" /\ UNCHANGED batches
           /\ IF eventLost THEN UNCHANGED builderEvents ELSE Builder!emit("end")
  <2>1. batches = <<>>
    BY <1>1, <1>2 DEF LogInv, OutputInv
  <2>2. OutputInv'
    BY <1>1, <1>4, <2>1 DEF LogInv, OutputInv
  <2>3. CASE eventLost
    <3>1. EventsInv' /\ BuilderTypes'
      BY <1>1, <1>4, <2>3, SameEvents
    <3>2. QED
      BY <2>2, <3>1 DEF LogInv
  <2>4. CASE ~eventLost
    <3> DEFINE e == [kind |-> "end", call |-> callNo]
    <3>1. builderEvents' = Append(builderEvents, e)
      BY <1>4, <2>4 DEF Builder!emit, Builder!Event
    <3>2. e \in Entries /\ e.kind = "end" /\ e.call = callNo
      BY DEF Entries, LogInv, BuilderTypes
    <3>3. Nested(log \o builderEvents) /\ Opened(log \o builderEvents, callNo)
      BY <1>1, <2>4 DEF LogInv, EventsInv
    <3> HIDE DEF e
    <3>4. /\ log' \in Seq(Entries) /\ builderEvents' \in Seq(Entries) /\ Nested(log')
          /\ Nested(log' \o builderEvents') /\ Closed(log' \o builderEvents')
      BY <1>1, <3>1, <3>2, <3>3, GivenLog
    <3>5. callNo' \in Nat
      BY <1>1 DEF LogInv, BuilderTypes
    <3>6. EventsInv' /\ BuilderTypes'
      BY <1>4, <3>4, <3>5 DEF EventsInv, BuilderTypes, Nested, Opened, Closed
    <3>7. QED
      BY <2>2, <3>6 DEF LogInv
  <2>5. QED
    BY <2>3, <2>4
<1>5. QED
  BY <1>3, <1>4 DEF Builder!Finish

LEMMA EndedLog == LogInv /\ Builder!Ended => LogInv'
<1> SUFFICES ASSUME LogInv, Builder!Ended PROVE LogInv'
  OBVIOUS
<1>1. /\ builderTurn = "ending" /\ builderTurn' = "model"
      /\ UNCHANGED <<callNo, batches, owner, builderEvents, log, eventLost, stopping>>
  BY DEF Builder!Ended, Builder!output
<1>2. EventsInv' /\ BuilderTypes'
  BY <1>1, SameEvents
<1>3. OutputInv'
  BY <1>1 DEF LogInv, OutputInv
<1>4. QED
  BY <1>2, <1>3 DEF LogInv

LEMMA PromptedLog == LogInv /\ Builder!Prompted => LogInv'
<1> SUFFICES ASSUME LogInv, Builder!Prompted PROVE LogInv'
  OBVIOUS
<1>1. /\ builderTurn = "model" /\ builderTurn' = "closing" /\ batches' = <<>>
      /\ IF stopping /\ ~eventLost THEN Builder!emit("stopped") ELSE UNCHANGED builderEvents
      /\ UNCHANGED <<callNo, log, eventLost, stopping>>
  BY DEF Builder!Prompted, Builder!Dispose
<1>2. OutputInv'
  BY <1>1 DEF LogInv, OutputInv
<1>3. CASE UNCHANGED builderEvents
  <2>1. EventsInv' /\ BuilderTypes'
    BY <1>1, <1>3, SameEvents
  <2>2. QED
    BY <1>2, <2>1 DEF LogInv
<1>4. CASE ~eventLost /\ Builder!emit("stopped")
  <2> DEFINE e == [kind |-> "stopped", call |-> callNo]
  <2>1. builderEvents' = Append(builderEvents, e)
    BY <1>4 DEF Builder!emit, Builder!Event
  <2>2. e \in Entries /\ e.kind = "stopped"
    BY DEF Entries, LogInv, BuilderTypes
  <2>3. Nested(log \o builderEvents) /\ Closed(log \o builderEvents)
    BY <1>1, <1>4 DEF LogInv, EventsInv
  <2> HIDE DEF e
  <2>4. /\ log' \in Seq(Entries) /\ builderEvents' \in Seq(Entries) /\ Nested(log')
        /\ Nested(log' \o builderEvents')
    BY <1>1, <2>1, <2>2, <2>3, GivenLog
  <2>5. callNo' \in Nat
    BY <1>1 DEF LogInv, BuilderTypes
  <2>6. EventsInv' /\ BuilderTypes'
    BY <1>1, <2>4, <2>5 DEF EventsInv, BuilderTypes, Nested, Opened, Closed
  <2>7. QED
    BY <1>2, <2>6 DEF LogInv
<1>5. QED
  BY <1>1, <1>3, <1>4

LEMMA CloseLog == LogInv /\ Builder!Close => LogInv'
<1> SUFFICES ASSUME LogInv, Builder!Close PROVE LogInv'
  OBVIOUS
<1>1. /\ builderTurn = "closing" /\ builderTurn' = "over"
      /\ UNCHANGED <<callNo, batches, owner, builderEvents, log, eventLost, stopping>>
  BY DEF Builder!Close, Builder!output
<1>2. EventsInv' /\ BuilderTypes'
  BY <1>1, SameEvents
<1>3. OutputInv'
  BY <1>1 DEF LogInv, OutputInv
<1>4. QED
  BY <1>2, <1>3 DEF LogInv

LEMMA NextLog == LogInv /\ Builder!Next => LogInv'
BY AbortLog, SaveLog, CallLog, StartedLog, RunningLog, PumpLog, PumpedLog, FinishLog, EndedLog,
   PromptedLog, CloseLog DEF Builder!Next

LEMMA LogProperty == LogInv => Builder!LogIsNested
<1> SUFFICES ASSUME LogInv, NEW i \in DOMAIN log
             PROVE  CASE log[i].kind = "start" -> i = 1 \/ log[i - 1].kind = "end"
                      [] log[i].kind = "stopped" -> i = Len(log) /\ (i = 1 \/ log[i - 1].kind = "end")
                      [] OTHER -> i > 1 /\ log[i - 1].kind \in {"start", "output"}
                                  /\ log[i - 1].call = log[i].call
  BY DEF Builder!LogIsNested
<1>1. i \in 1..Len(log) /\ log[i] \in Entries
  BY ElementOfSeq, LenProperties DEF LogInv, BuilderTypes
<1>2. log[i].kind \in {"start", "output", "end", "stopped"}
  BY <1>1 DEF Entries
<1>3. /\ log[i].kind = "start" => i = 1 \/ log[i - 1].kind = "end"
      /\ log[i].kind = "stopped" => i = Len(log) /\ (i = 1 \/ log[i - 1].kind = "end")
      /\ log[i].kind \in {"output", "end"} =>
            i > 1 /\ log[i - 1].kind \in {"start", "output"} /\ log[i - 1].call = log[i].call
  BY <1>1 DEF LogInv, EventsInv, Nested
<1>4. QED
  BY <1>2, <1>3

-----------------------------------------------------------------------------
(* SourceSnapshots: what a reference names.                                  *)

Revisions == 1..SourceRevisions
\* The reference of a revision's files, and that its object is there and whole.
Made(r) == Source!Reference(r, sourceBuilt[r])
Kept(r) == sourceBuilt[r] # None /\ Source!Bodies(Made(r).key) = {sourceBuilt[r]}
ObjectsInv ==
    /\ sourceBuilt \in [Revisions -> Source!Files \union {None}]
    /\ \A o, q \in objects : o[1] = q[1] => o[2] = q[2]
RowsInv ==
    /\ DOMAIN rows = Revisions
    /\ \A r \in Revisions : rows[r] # None => rows[r] = Made(r) /\ Kept(r)
    /\ \A ref \in sourceVerified : \E r \in Revisions : ref = Made(r) /\ Kept(r)
    /\ sourceStep # "idle" => \E r \in Revisions : reference = Made(r) /\ sourceBuilt[r] # None
ReadInv ==
    /\ reviewed \subseteq Revisions /\ \A r \in reviewed : rows[r] # None
    /\ sourceServed # None =>
          /\ sourceServed[1] \in Revisions /\ sourceBuilt[sourceServed[1]] # None
          /\ sourceServed[2] = sourceBuilt[sourceServed[1]]
ShotsInv ==
    /\ DOMAIN images = 1..MaxImages /\ DOMAIN sourceShots = 1..MaxImages
    /\ \A i \in 1..MaxImages : sourceShots[i] # None => images[i] = sourceShots[i]
SourceInv == ObjectsInv /\ RowsInv /\ ReadInv /\ ShotsInv

\* Nothing is stored at first.
LEMMA InitSource == (part = "Source" /\ Source!Init) => SourceInv
<1> SUFFICES ASSUME Source!Init PROVE SourceInv
  OBVIOUS
<1>1. ObjectsInv /\ RowsInv
  BY DEF Source!Init, ObjectsInv, RowsInv, Revisions
<1>2. ReadInv /\ ShotsInv
  BY DEF Source!Init, ReadInv, ShotsInv
<1>3. QED
  BY <1>1, <1>2 DEF SourceInv

\* What a reference says.
LEMMA MadeOf ==
    ASSUME NEW r
    PROVE  /\ Made(r).key = <<r, sourceBuilt[r]>> /\ Made(r).revision = r
           /\ Made(r).sourceHash = sourceBuilt[r]
BY DEF Made, Source!Reference
LEMMA MadeNot ==
    ASSUME SourceInv, NEW r \in Revisions, sourceBuilt[r] # None PROVE Made(r) # None
<1>1. sourceBuilt[r] \in Source!Files
  BY DEF SourceInv, ObjectsInv
<1>2. QED
  BY <1>1, NoReferenceAssumption DEF Made, Revisions

\* Files that are accepted are a bundle.
LEMMA Prepared ==
    ASSUME NEW input \in Source!Inputs, Source!prepareSourceSnapshot(input) # None
    PROVE  Source!prepareSourceSnapshot(input) \in Source!Files
<1>1. PICK n \in 0..2 : input \in [1..n -> SourcePaths \X SourceTexts]
  BY DEF Source!Inputs
<1> DEFINE ps == {input[i][1] : i \in DOMAIN input}
           text(p) == CHOOSE text \in SourceTexts : \E i \in DOMAIN input : input[i] = <<p, text>>
<1>2. Source!prepareSourceSnapshot(input) = [p \in ps |-> text(p)]
  BY DEF Source!prepareSourceSnapshot
<1>3. ps \in SUBSET SourcePaths
  BY <1>1
<1>4. ASSUME NEW p \in ps PROVE text(p) \in SourceTexts
  <2>1. PICK i \in DOMAIN input : p = input[i][1]
    OBVIOUS
  <2>2. input[i] = <<p, input[i][2]>> /\ input[i][2] \in SourceTexts
    BY <1>1, <2>1
  <2>3. QED
    BY <2>2
<1> HIDE DEF ps, text
<1>5. [p \in ps |-> text(p)] \in [ps -> SourceTexts]
  BY <1>4
<1>6. QED
  BY <1>2, <1>3, <1>5 DEF Source!Files

\* What does not touch the files or the objects leaves a reference what it was.
LEMMA KeptStays ==
    ASSUME NEW r, UNCHANGED <<objects, sourceBuilt>>
    PROVE  Made(r)' = Made(r) /\ Kept(r)' = Kept(r)
BY DEF Made, Kept, Source!Reference, Source!Bodies

\* A candidate's files are prepared.
LEMMA PrepareKeeps == ASSUME SourceInv, Source!Save PROVE SourceInv'
<1>1. PICK r \in Revisions, input \in Source!Inputs :
        /\ sourceBuilt[r] = None /\ Source!prepareSourceSnapshot(input) # None
        /\ sourceBuilt' = [sourceBuilt EXCEPT ![r] = Source!prepareSourceSnapshot(input)]
        /\ reference' = Source!Reference(r, Source!prepareSourceSnapshot(input))
  BY DEF Source!Save, Revisions
<1>2. UNCHANGED <<objects, sourceVerified, rows, reviewed, sourceServed, images, sourceShots>>
  BY DEF Source!Save
<1> DEFINE new == Source!prepareSourceSnapshot(input)
<1>3. new \in Source!Files /\ new # None
  BY <1>1, Prepared
<1>4. /\ sourceBuilt' \in [Revisions -> Source!Files \union {None}] /\ sourceBuilt'[r] = new
      /\ \A s \in Revisions : s # r => sourceBuilt'[s] = sourceBuilt[s]
  BY <1>1, <1>3 DEF SourceInv, ObjectsInv
<1>5. ASSUME NEW s \in Revisions, sourceBuilt[s] # None
      PROVE  /\ sourceBuilt'[s] = sourceBuilt[s] /\ Made(s)' = Made(s)
             /\ Kept(s) => Kept(s)'
  <2>1. sourceBuilt'[s] = sourceBuilt[s]
    BY <1>1, <1>4, <1>5
  <2>2. QED
    BY <1>2, <2>1 DEF Made, Kept, Source!Reference, Source!Bodies
<1>6. ASSUME NEW s \in Revisions, Kept(s) PROVE Made(s)' = Made(s) /\ Kept(s)'
  BY <1>5, <1>6 DEF Kept
<1>7. reference' = Made(r)' /\ sourceBuilt'[r] # None
  BY <1>1, <1>3, <1>4 DEF Made, Source!Reference
<1>8. ObjectsInv' /\ ShotsInv'
  BY <1>2, <1>4 DEF SourceInv, ObjectsInv, ShotsInv
<1>9. RowsInv'
  BY <1>2, <1>6, <1>7 DEF SourceInv, RowsInv
<1>10. ReadInv'
  BY <1>2, <1>5 DEF SourceInv, ReadInv
<1>11. QED
  BY <1>8, <1>9, <1>10 DEF SourceInv

\* An object comes under a key that had none: of no reference that counts.
LEMMA UploadKeeps == ASSUME SourceInv, Source!Upload PROVE SourceInv'
<1>1. /\ UNCHANGED <<sourceBuilt, reference, sourceVerified, rows, reviewed, sourceServed, images,
                     sourceShots>>
      /\ sourceStep = "upload"
  BY DEF Source!Upload
<1>2. CASE objects' = objects
  BY <1>1, <1>2, KeptStays DEF SourceInv, ObjectsInv, RowsInv, ReadInv, ShotsInv
<1>3. CASE objects' # objects
  <2>1. PICK body : /\ Source!Bodies(reference.key) = {}
                    /\ objects' = objects \union {<<reference.key, body>>}
    BY <1>3 DEF Source!Upload, Source!Stored
  <2> DEFINE k == reference.key
  <2>2. \A o \in objects : o[1] # k
    BY <2>1 DEF Source!Bodies
  <2>3. \A o, q \in objects' : o[1] = q[1] => o[2] = q[2]
    BY <2>1, <2>2 DEF SourceInv, ObjectsInv
  <2>4. ASSUME NEW s \in Revisions, Kept(s) PROVE Made(s)' = Made(s) /\ Kept(s)'
    <3>1. Made(s)' = Made(s)
      BY <1>1 DEF Made, Source!Reference
    <3>2. Made(s).key # k
      BY <2>1, <2>4 DEF Kept
    <3>3. {x \in objects' : x[1] = Made(s).key} = {x \in objects : x[1] = Made(s).key}
      BY <2>1, <3>2
    <3>4. QED
      BY <1>1, <2>4, <3>1, <3>3 DEF Kept, Source!Bodies
  <2>5. \A s \in Revisions : Made(s)' = Made(s)
    BY <1>1 DEF Made, Source!Reference
  <2>6. QED
    BY <1>1, <2>3, <2>4, <2>5 DEF SourceInv, ObjectsInv, RowsInv, ReadInv, ShotsInv
<1>4. QED
  BY <1>2, <1>3

\* What could be read back is there, and is what the reference says.
LEMMA ReadBackKeeps == ASSUME SourceInv, Source!ReadBack PROVE SourceInv'
<1>1. /\ UNCHANGED <<objects, sourceBuilt, reference, rows, reviewed, sourceServed, images,
                     sourceShots>>
      /\ sourceStep = "read"
      /\ \/ Source!Loads(reference) /\ sourceVerified' = sourceVerified \union {reference}
         \/ sourceVerified' = sourceVerified
  BY DEF Source!ReadBack
<1>2. PICK r \in Revisions : reference = Made(r) /\ sourceBuilt[r] # None
  BY <1>1 DEF SourceInv, RowsInv
<1>3. ASSUME Source!Loads(reference) PROVE Kept(r)
  <2>1. sourceBuilt[r] \in Source!Bodies(reference.key)
    BY <1>2, <1>3, MadeOf DEF Source!Loads
  <2>2. \A b, c \in Source!Bodies(reference.key) : b = c
    BY DEF SourceInv, ObjectsInv, Source!Bodies
  <2>3. QED
    BY <1>2, <2>1, <2>2 DEF Kept
<1>4. RowsInv'
  BY <1>1, <1>2, <1>3, KeptStays DEF SourceInv, RowsInv
<1>5. QED
  BY <1>1, <1>4 DEF SourceInv, ObjectsInv, ReadInv, ShotsInv

\* A row comes to name the reference that this process verified.
LEMMA SaveRowKeeps == ASSUME SourceInv, Source!saveCandidate PROVE SourceInv'
<1>1. /\ UNCHANGED <<objects, sourceBuilt, sourceVerified, reviewed, sourceServed, images, sourceShots>>
      /\ reference \in sourceVerified /\ sourceStep' = "idle"
      /\ rows' = [rows EXCEPT ![reference.revision] = reference] \/ rows' = rows
  BY DEF Source!saveCandidate, Source!assertVerifiedSourceSnapshot
<1>2. PICK r \in Revisions : reference = Made(r) /\ Kept(r)
  BY <1>1 DEF SourceInv, RowsInv
<1>3. reference.revision = r /\ Made(r) # None
  BY <1>2, MadeOf, MadeNot DEF Kept
<1>4. /\ DOMAIN rows' = Revisions
      /\ \A s \in Revisions : rows'[s] = rows[s] \/ (s = r /\ rows'[s] = Made(r))
  BY <1>1, <1>2, <1>3 DEF SourceInv, RowsInv
<1>5. RowsInv'
  BY <1>1, <1>2, <1>4, KeptStays DEF SourceInv, RowsInv
<1>6. ReadInv'
  BY <1>1, <1>3, <1>4 DEF SourceInv, ReadInv
<1>7. QED
  BY <1>1, <1>5, <1>6 DEF SourceInv, ObjectsInv, ShotsInv

\* A version is read, verified once more or reviewed.
LEMMA ReadersKeep ==
    ASSUME SourceInv, NEW r \in Revisions, Source!Load(r) \/ Source!Verify(r) \/ Source!Review(r)
    PROVE  SourceInv'
<1>1. UNCHANGED <<objects, sourceBuilt, sourceStep, reference, rows, images, sourceShots>>
  BY DEF Source!Load, Source!Verify, Source!Review
<1>2. rows[r] # None /\ rows[r] = Made(r) /\ Kept(r)
  BY DEF Source!Load, Source!Verify, Source!Review, SourceInv, RowsInv
<1>3. \/ UNCHANGED <<sourceVerified, reviewed>> /\ sourceServed' = <<r, sourceBuilt[r]>>
      \/ sourceVerified' = sourceVerified \union {rows[r]} /\ UNCHANGED <<reviewed, sourceServed>>
      \/ reviewed' = reviewed \union {r} /\ UNCHANGED <<sourceVerified, sourceServed>>
  <2>1. CASE Source!Load(r)
    BY <1>2, <2>1 DEF Source!Load, Kept
  <2>2. CASE Source!Verify(r) \/ Source!Review(r)
    BY <2>2 DEF Source!Verify, Source!Review
  <2>3. QED
    BY <2>1, <2>2
<1>4. RowsInv'
  BY <1>1, <1>2, <1>3, KeptStays DEF SourceInv, RowsInv
<1>5. ReadInv'
  BY <1>1, <1>2, <1>3 DEF SourceInv, ReadInv, Kept
<1>6. QED
  BY <1>1, <1>4, <1>5 DEF SourceInv, ObjectsInv, ShotsInv

\* Steps that only move the save, and a process that starts again.
LEMMA SavingKeeps ==
    ASSUME SourceInv, Source!UploadAgain \/ Source!Fail \/ Source!Restart
    PROVE  SourceInv'
<1>1. /\ UNCHANGED <<objects, sourceBuilt, rows, reviewed, sourceServed, images, sourceShots>>
      /\ sourceVerified' \subseteq sourceVerified
      /\ sourceStep' = "idle" \/ (sourceStep # "idle" /\ reference' = reference)
  BY DEF Source!UploadAgain, Source!Fail, Source!Restart
<1>2. RowsInv'
  BY <1>1, KeptStays DEF SourceInv, RowsInv
<1>3. QED
  BY <1>1, <1>2 DEF SourceInv, ObjectsInv, ReadInv, ShotsInv

\* A screenshot is stored under an id of its own.
LEMMA ArtifactKeeps ==
    ASSUME SourceInv, NEW i \in 1..MaxImages, Source!SaveArtifact(i) PROVE SourceInv'
<1>1. UNCHANGED <<objects, sourceBuilt, sourceStep, reference, sourceVerified, rows, reviewed, sourceServed>>
  BY DEF Source!SaveArtifact, Source!snapshot
<1>2. PICK image, body :
        /\ images[i] = None /\ images' = [images EXCEPT ![i] = body]
        /\ \/ body = image /\ sourceShots' = [sourceShots EXCEPT ![i] = image]
           \/ sourceShots' = sourceShots
  BY DEF Source!SaveArtifact
<1>3. sourceShots[i] = None
  BY <1>2 DEF SourceInv, ShotsInv
<1>4. ShotsInv'
  BY <1>2, <1>3 DEF SourceInv, ShotsInv
<1>5. RowsInv'
  BY <1>1, KeptStays DEF SourceInv, RowsInv
<1>6. QED
  BY <1>1, <1>4, <1>5 DEF SourceInv, ObjectsInv, ReadInv

\* Every step keeps the invariant, and a version stays what was built.
LEMMA NextSource == ASSUME SourceInv, Source!Next PROVE SourceInv'
BY PrepareKeeps, UploadKeeps, ReadBackKeeps, SaveRowKeeps, ReadersKeep, SavingKeeps, ArtifactKeeps
   DEF Source!Next, Revisions
LEMMA SourceProperty == ASSUME SourceInv PROVE Source!SourceIsKept
<1>1. \A r \in Revisions : rows[r] # None =>
        /\ Source!Bodies(rows[r].key) = {sourceBuilt[r]} /\ rows[r].sourceHash = sourceBuilt[r]
  BY MadeOf DEF SourceInv, RowsInv, Kept
<1>2. QED
  BY <1>1 DEF SourceInv, ReadInv, ShotsInv, Revisions, Source!SourceIsKept

-----------------------------------------------------------------------------
(* ProjectView: what a load has read while the server went on.               *)

Rows == [state : View!Terminal \union {"open"}, cleanup : {"none", "pending", "confirmed"}, parent : Nat]
Projects == [run : Nat, state : View!Terminal \union {"open", "none"},
             cleanup : {"none", "pending", "confirmed"}, revision : Nat]
Details == [run : Nat, state : View!Terminal \union {"open"},
            cleanup : {"none", "pending", "confirmed"}, parent : Nat]
\* Runs end in their order, and the project shows the last one that was saved, unless a
\* rollback hides it.
HistoryInv ==
    /\ history \in Seq(Rows) /\ {revisionNow, hiddenRuns} \subseteq Nat
    /\ \A n \in 1..Len(history) : history[n].state # "open" =>
          \A m \in 1..(n - 1) : history[m].state # "open"
    /\ Len(history) > hiddenRuns /\ history[Len(history)].state = "saved"
          => revisionNow = Len(history)
    /\ acceptedRun \in 0..Len(history)
\* An answer about the project agrees with itself; an outcome that was read stays.
Sound(p, h) ==
    /\ p \in Projects /\ p.run \in 0..Len(h)
    /\ p.run # 0 /\ p.state = "saved" => p.revision = p.run
Settled(d, h) ==
    /\ d \in Details /\ d.run \in 1..Len(h)
    /\ d.state \in View!Terminal => h[d.run].state = d.state
\* What a load has read when it is done agrees: the project read again knows the run.
Agrees(p, d) ==
    d # None /\ d.state \in View!Terminal /\ p.run = d.run => View!FinalSnapshot(p, d)
Loading(l, h) ==
    /\ l \in [at : {"idle", "project", "project read", "run", "project again", "apply"},
              runId : Nat, project : Projects \union {None}, detail : Details \union {None}]
    /\ l.at \in {"project read", "run", "project again", "apply"} => Sound(l.project, h)
    /\ l.at = "run" => l.runId \in 1..Len(h)
    /\ l.detail = None \/ Settled(l.detail, h)
    /\ l.at = "project again" => Settled(l.detail, h)
    /\ l.at \in {"project", "project read", "run"} => l.detail = None
    /\ l.at = "apply" => Agrees(l.project, l.detail)
ViewInv == HistoryInv /\ Loading(load, history) /\ View!ShownIsSaved

\* Nothing has run and nothing is read at first.
LEMMA InitView == (part = "View" /\ View!Init) => ViewInv
<1> SUFFICES ASSUME View!Init PROVE ViewInv
  OBVIOUS
<1>1. history = <<>> /\ history \in Seq(Rows) /\ Len(history) = 0
  BY EmptySeq DEF View!Init
<1>2. HistoryInv
  BY <1>1 DEF View!Init, HistoryInv
<1>3. Loading(load, history)
  BY DEF View!Init, View!Idle, Loading
<1>4. View!ShownIsSaved
  BY DEF View!Init, View!Unseen, View!ShownIsSaved
<1>5. QED
  BY <1>2, <1>3, <1>4 DEF ViewInv

\* What the server says of the project and of a run.
LEMMA ProjectAnswers ==
    ASSUME HistoryInv
    PROVE  /\ Sound(View!ProjectNow, history)
           /\ View!ProjectNow.run # 0 =>
                 View!ProjectNow.state = history[View!ProjectNow.run].state
<1> DEFINE latest == IF Len(history) > hiddenRuns THEN Len(history) ELSE 0
<1>1. /\ Len(history) \in Nat /\ hiddenRuns \in Nat /\ revisionNow \in Nat
      /\ \A n \in 1..Len(history) : history[n] \in Rows
  BY LenProperties, ElementOfSeq DEF HistoryInv
<1>2. latest \in 0..Len(history) /\ (latest # 0 => latest = Len(history) /\ Len(history) > hiddenRuns)
  BY <1>1
<1>3. View!ProjectNow = [run |-> latest,
                         state |-> IF latest = 0 THEN "none" ELSE history[latest].state,
                         cleanup |-> IF latest = 0 THEN "none" ELSE history[latest].cleanup,
                         revision |-> revisionNow]
  BY DEF View!ProjectNow, View!readProjectSnapshot
<1> HIDE DEF latest
<1>4. latest # 0 => latest \in 1..Len(history) /\ history[latest] \in Rows
  BY <1>1, <1>2
<1>5. View!ProjectNow \in Projects
  BY <1>1, <1>2, <1>3, <1>4 DEF Projects, Rows
<1>6. QED
  BY <1>2, <1>3, <1>5 DEF Sound, HistoryInv
LEMMA RunAnswers ==
    ASSUME HistoryInv, NEW n \in 1..Len(history)
    PROVE  Settled(View!RunNow(n), history) /\ View!RunNow(n).run = n
<1>1. history[n] \in Rows /\ n \in Nat
  BY LenProperties, ElementOfSeq DEF HistoryInv
<1>2. View!RunNow(n) = [run |-> n, state |-> history[n].state, cleanup |-> history[n].cleanup,
                        parent |-> history[n].parent]
  BY DEF View!RunNow, View!readRunSnapshot
<1>3. QED
  BY <1>1, <1>2 DEF Settled, Details, Rows

\* What was read stays true while runs are added and outcomes stay.
LEMMA ReadStays ==
    ASSUME ViewInv, HistoryInv', UNCHANGED <<load, seen>>, Len(history) <= Len(history'),
           \A n \in 1..Len(history) :
              history[n].state \in View!Terminal => history'[n].state = history[n].state
    PROVE  ViewInv'
<1>1. Len(history) \in Nat /\ Len(history') \in Nat
  BY LenProperties DEF ViewInv, HistoryInv
<1>2. \A p : Sound(p, history) => Sound(p, history')
  BY <1>1 DEF Sound
<1>3. \A d : Settled(d, history) => Settled(d, history')
  BY <1>1 DEF Settled
<1>4. Loading(load', history')
  <2>1. Loading(load, history) /\ load' = load
    BY DEF ViewInv
  <2>2. load.at = "run" => load.runId \in 1..Len(history')
    <3>1. load.at = "run" => load.runId \in 1..Len(history)
      BY <2>1 DEF Loading
    <3>2. 1..Len(history) \subseteq 1..Len(history')
      BY <1>1
    <3>3. QED
      BY <3>1, <3>2
  <2>3. load.at \in {"project read", "run", "project again", "apply"} => Sound(load.project, history')
    BY <1>2, <2>1 DEF Loading
  <2>4. /\ load.detail = None \/ Settled(load.detail, history')
        /\ load.at = "project again" => Settled(load.detail, history')
    BY <1>3, <2>1 DEF Loading
  <2>5. QED
    BY <2>1, <2>2, <2>3, <2>4 DEF Loading
<1>5. View!ShownIsSaved'
  BY DEF ViewInv, View!ShownIsSaved, View!FinalSnapshot, View!Terminal
<1>6. QED
  BY <1>4, <1>5 DEF ViewInv

\* A run is created, ends or is cleaned up; a rollback hides what was there.
LEMMA CreateKeeps ==
    ASSUME ViewInv, NEW byThisTab \in BOOLEAN, View!Create(byThisTab) PROVE ViewInv'
<1>1. PICK parent \in Nat :
        history' = Append(history, [state |-> "open", cleanup |-> "none", parent |-> parent])
  BY LenProperties DEF View!Create, ViewInv, HistoryInv
<1>2. UNCHANGED <<revisionNow, hiddenRuns, acceptedRun, load, seen>>
  BY DEF View!Create, View!client
<1> DEFINE new == [state |-> "open", cleanup |-> "none", parent |-> parent]
<1>3. new \in Rows /\ new.state = "open"
  BY DEF Rows
<1> HIDE DEF new
<1>4. /\ history \in Seq(Rows) /\ Len(history) \in Nat
      /\ history' \in Seq(Rows) /\ Len(history') = Len(history) + 1
      /\ \A n \in 1..Len(history) : history'[n] = history[n]
      /\ history'[Len(history) + 1].state = "open"
  BY <1>1, <1>3, AppendProperties, LenProperties DEF new, ViewInv, HistoryInv
<1>5. HistoryInv'
  <2>1. ASSUME NEW n \in 1..Len(history'), history'[n].state # "open", NEW m \in 1..(n - 1)
        PROVE  history'[m].state # "open"
    <3>1. n \in 1..Len(history) /\ m \in 1..Len(history)
      BY <1>4, <2>1
    <3>2. QED
      BY <1>4, <2>1, <3>1 DEF ViewInv, HistoryInv
  <2>2. /\ {revisionNow', hiddenRuns'} \subseteq Nat /\ acceptedRun' \in 0..Len(history')
        /\ history'[Len(history')].state # "saved"
    BY <1>2, <1>4 DEF ViewInv, HistoryInv
  <2>3. QED
    BY <1>4, <2>1, <2>2 DEF HistoryInv
<1>6. QED
  BY <1>2, <1>4, <1>5, ReadStays
LEMMA SettleKeeps ==
    ASSUME ViewInv, NEW n \in DOMAIN history, View!Settle(n) \/ View!Confirm(n) PROVE ViewInv'
<1>1. /\ history \in Seq(Rows) /\ Len(history) \in Nat /\ n \in 1..Len(history)
      /\ UNCHANGED <<hiddenRuns, acceptedRun, load, seen>>
  BY LenProperties DEF View!Settle, View!Confirm, View!client, ViewInv, HistoryInv
<1>2. PICK next \in Rows : history' = [history EXCEPT ![n] = next]
           /\ \/ /\ history[n].state = "open" /\ next.state \in View!Terminal
                 /\ \A m \in 1..(n - 1) : history[m].state # "open"
                 /\ revisionNow' = IF next.state = "saved" THEN n ELSE revisionNow
              \/ next.state = history[n].state /\ revisionNow' = revisionNow
  <2>1. history[n] \in Rows
    BY <1>1, ElementOfSeq
  <2>2. CASE View!Settle(n)
    <3>1. PICK outcome \in View!Terminal :
            /\ history' = [history EXCEPT ![n].state = outcome, ![n].cleanup = "pending"]
            /\ revisionNow' = IF outcome = "saved" THEN n ELSE revisionNow
      BY <2>2 DEF View!Settle
    <3> DEFINE next == [history[n] EXCEPT !.state = outcome, !.cleanup = "pending"]
    <3>2. next \in Rows /\ next.state = outcome
      BY <2>1 DEF Rows
    <3>3. history' = [history EXCEPT ![n] = next]
      BY <3>1
    <3> HIDE DEF next
    <3>4. QED
      BY <2>2, <3>1, <3>2, <3>3 DEF View!Settle
  <2>3. CASE View!Confirm(n)
    <3> DEFINE next == [history[n] EXCEPT !.cleanup = "confirmed"]
    <3>1. next \in Rows /\ next.state = history[n].state
      BY <2>1 DEF Rows
    <3>2. history' = [history EXCEPT ![n] = next] /\ revisionNow' = revisionNow
      BY <2>3 DEF View!Confirm
    <3> HIDE DEF next
    <3>3. QED
      BY <3>1, <3>2
  <2>4. QED
    BY <2>2, <2>3
<1>3. /\ history' \in Seq(Rows) /\ Len(history') = Len(history) /\ history'[n] = next
      /\ \A m \in 1..Len(history) : m # n => history'[m] = history[m]
  BY <1>1, <1>2, ExceptSeq
<1>4. revisionNow' \in Nat
  BY <1>1, <1>2 DEF ViewInv, HistoryInv
<1>5. ASSUME NEW k \in 1..Len(history'), history'[k].state # "open", NEW m \in 1..(k - 1)
      PROVE  history'[m].state # "open"
  <2>1. k \in 1..Len(history) /\ m \in 1..Len(history)
    BY <1>1, <1>3, <1>5
  <2>2. next.state # "open" \/ (history[n].state = "open" /\ next.state = "open")
    BY <1>2 DEF View!Terminal
  <2>3. k # n => history[k].state # "open"
    BY <1>3, <1>5, <2>1
  <2>4. QED
    BY <1>2, <1>3, <1>5, <2>1, <2>2, <2>3 DEF ViewInv, HistoryInv
<1>6. ASSUME Len(history') > hiddenRuns', history'[Len(history')].state = "saved"
      PROVE  revisionNow' = Len(history')
  <2>1. Len(history) \in 1..Len(history)
    BY <1>1
  <2>2. CASE Len(history) = n
    BY <1>1, <1>2, <1>3, <1>6, <2>2 DEF ViewInv, HistoryInv
  <2>3. CASE Len(history) # n
    <3>1. history[Len(history)].state = "saved" /\ n \in 1..(Len(history) - 1)
      BY <1>1, <1>3, <1>6, <2>1, <2>3
    <3>2. history[n].state # "open"
      BY <2>1, <3>1 DEF ViewInv, HistoryInv
    <3>3. QED
      BY <1>1, <1>2, <1>3, <1>6, <3>1, <3>2 DEF ViewInv, HistoryInv
  <2>4. QED
    BY <2>2, <2>3
<1>7. HistoryInv'
  BY <1>1, <1>3, <1>4, <1>5, <1>6 DEF ViewInv, HistoryInv
<1>8. \A m \in 1..Len(history) :
        history[m].state \in View!Terminal => history'[m].state = history[m].state
  BY <1>2, <1>3 DEF View!Terminal
<1>9. QED
  BY <1>1, <1>3, <1>7, <1>8, ReadStays
LEMMA RollBackKeeps == ASSUME ViewInv, View!RollBack PROVE ViewInv'
<1>1. /\ history' = history /\ hiddenRuns' = Len(history) /\ revisionNow' \in Nat
      /\ UNCHANGED <<acceptedRun, load, seen>> /\ Len(history) \in Nat
  BY LenProperties DEF View!RollBack, View!client, ViewInv, HistoryInv
<1>2. HistoryInv'
  BY <1>1 DEF ViewInv, HistoryInv
<1>3. QED
  BY <1>1, <1>2, ReadStays

\* A load starts, or one more is remembered.
LEMMA FreshLoad ==
    ASSUME NEW h, NEW l \in {View!Idle, [View!Idle EXCEPT !.at = "project"]} PROVE Loading(l, h)
<1>1. l = View!Idle \/ l = [View!Idle EXCEPT !.at = "project"]
  OBVIOUS
<1>2. l = [at |-> "idle", runId |-> 0, project |-> None, detail |-> None]
      \/ l = [at |-> "project", runId |-> 0, project |-> None, detail |-> None]
  BY <1>1 DEF View!Idle
<1>3. l.at \in {"idle", "project"} /\ l.runId = 0 /\ l.project = None /\ l.detail = None
  BY <1>2
<1>4. l \in [at : {"idle", "project", "project read", "run", "project again", "apply"},
             runId : Nat, project : Projects \union {None}, detail : Details \union {None}]
  <2>1. CASE l = [at |-> "idle", runId |-> 0, project |-> None, detail |-> None]
    BY <2>1
  <2>2. CASE l = [at |-> "project", runId |-> 0, project |-> None, detail |-> None]
    BY <2>2
  <2>3. QED
    BY <1>2, <2>1, <2>2
<1>5. QED
  BY <1>3, <1>4 DEF Loading
LEMMA IdleLoad ==
    ASSUME ViewInv, UNCHANGED <<history, revisionNow, hiddenRuns, seen>>,
           acceptedRun' \in 0..Len(history), load' \in {load, View!Idle, [View!Idle EXCEPT !.at = "project"]}
    PROVE  ViewInv'
<1>1. HistoryInv' /\ View!ShownIsSaved'
  BY DEF ViewInv, HistoryInv, View!ShownIsSaved, View!FinalSnapshot
<1>2. CASE load' = load
  BY <1>1, <1>2 DEF ViewInv
<1>3. CASE load' \in {View!Idle, [View!Idle EXCEPT !.at = "project"]}
  BY <1>1, <1>3, FreshLoad DEF ViewInv
<1>4. QED
  BY <1>1, <1>2, <1>3 DEF ViewInv
LEMMA AskingLoad ==
    ASSUME ViewInv, View!Poll \/ View!Focus \/ View!ReadFails
                    \/ (\E n \in DOMAIN history : View!Accepted(n))
    PROVE  ViewInv'
<1>1. /\ UNCHANGED <<history, revisionNow, hiddenRuns, seen>>
      /\ load' \in {load, View!Idle, [View!Idle EXCEPT !.at = "project"]}
  BY DEF View!Poll, View!Focus, View!ReadFails, View!Accepted, View!Refresh, View!Requested,
         View!Ended, View!server
<1>2. acceptedRun' \in 0..Len(history)
  <2>1. acceptedRun \in 0..Len(history) /\ DOMAIN history = 1..Len(history) /\ Len(history) \in Nat
    BY LenProperties DEF ViewInv, HistoryInv
  <2>2. acceptedRun' = acceptedRun \/ acceptedRun' \in DOMAIN history
    BY DEF View!Poll, View!Focus, View!ReadFails, View!Accepted, View!Refresh
  <2>3. QED
    BY <2>1, <2>2
<1>3. QED
  BY <1>1, <1>2, IdleLoad

\* The answers of a load arrive.
LEMMA ReadingLoad ==
    ASSUME ViewInv,
           View!ReadProject \/ View!ChooseRun \/ View!ReadRun \/ View!ReadProjectAgain
    PROVE  ViewInv'
<1>1. UNCHANGED <<history, revisionNow, hiddenRuns, acceptedRun, seen>>
  BY DEF View!ReadProject, View!ChooseRun, View!ReadRun, View!ReadProjectAgain, View!server
<1>2. HistoryInv' /\ View!ShownIsSaved' /\ HistoryInv /\ Loading(load, history)
  BY <1>1 DEF ViewInv, HistoryInv, View!ShownIsSaved, View!FinalSnapshot
<1>3. Len(history) \in Nat
  BY <1>2, LenProperties DEF HistoryInv
<1> SUFFICES Loading(load', history)
  BY <1>1, <1>2 DEF ViewInv
<1>5. CASE View!ReadProject
  <2> DEFINE p == View!ProjectNow
  <2>1. load.at = "project" /\ load' = [load EXCEPT !.at = "project read", !.project = p]
    BY <1>5 DEF View!ReadProject
  <2>2. Sound(p, history) /\ p \in Projects
    BY <1>2, ProjectAnswers DEF Sound
  <2> HIDE DEF p
  <2>3. QED
    BY <1>2, <2>1, <2>2 DEF Loading
<1>6. CASE View!ChooseRun
  <2>1. PICK n : /\ n = (IF acceptedRun # 0 THEN acceptedRun ELSE load.project.run)
                 /\ load' = [load EXCEPT !.at = IF n = 0 THEN "apply" ELSE "run", !.runId = n]
    BY <1>6 DEF View!ChooseRun
  <2>2. load.at = "project read"
    BY <1>6 DEF View!ChooseRun
  <2>3. Sound(load.project, history) /\ load.detail = None
    BY <1>2, <2>2 DEF Loading
  <2>4. n \in 0..Len(history) /\ n \in Nat
    BY <1>2, <1>3, <2>1, <2>3 DEF HistoryInv, Sound
  <2>5. CASE n = 0
    <3>1. load' = [load EXCEPT !.at = "apply", !.runId = 0]
      BY <2>1, <2>5
    <3>2. QED
      BY <1>2, <2>2, <2>3, <3>1 DEF Loading, Agrees
  <2>6. CASE n # 0
    <3>1. n \in 1..Len(history)
      BY <1>3, <2>4, <2>6
    <3>2. load' = [load EXCEPT !.at = "run", !.runId = n]
      BY <2>1, <2>6
    <3>3. QED
      BY <1>2, <2>2, <2>3, <2>4, <3>1, <3>2 DEF Loading
  <2>7. QED
    BY <2>5, <2>6
<1>7. CASE View!ReadRun
  <2> DEFINE d == View!RunNow(load.runId)
             at == View!AfterRun(load.project, d)
  <2>1. load.at = "run" /\ load' = [load EXCEPT !.runId = 0, !.detail = d, !.at = at]
    BY <1>7 DEF View!ReadRun
  <2>2. Settled(d, history) /\ d \in Details /\ Sound(load.project, history)
    BY <1>2, <2>1, RunAnswers DEF Loading, Settled
  <2>3. at = "project again" \/ (at = "apply" /\ Agrees(load.project, d))
    BY DEF View!AfterRun, Agrees
  <2> HIDE DEF d, at
  <2>4. QED
    BY <1>2, <2>1, <2>2, <2>3 DEF Loading
<1>8. CASE View!ReadProjectAgain
  <2> DEFINE p == View!ProjectNow
  <2>1. load.at = "project again" /\ load' = [load EXCEPT !.at = "apply", !.project = p]
    BY <1>8 DEF View!ReadProjectAgain
  <2>2. /\ Sound(p, history) /\ p \in Projects /\ Settled(load.detail, history)
        /\ p.run # 0 => p.state = history[p.run].state
    BY <1>2, <2>1, ProjectAnswers DEF Loading, Sound
  <2> HIDE DEF p
  <2>3. Agrees(p, load.detail)
    BY <1>3, <2>2 DEF Agrees, Sound, Settled, Details, View!FinalSnapshot
  <2>4. QED
    BY <1>2, <2>1, <2>2, <2>3 DEF Loading
<1>9. QED
  BY <1>5, <1>6, <1>7, <1>8

\* What was read is shown, unless it would take back a result.
LEMMA ApplyKeeps == ASSUME ViewInv, View!Apply PROVE ViewInv'
<1> DEFINE p == load.project
           d == load.detail
           r == View!Visible(p, d)
           new == [run |-> r.run, state |-> r.state, cleanup |-> r.cleanup, project |-> p]
<1>1. /\ load.at = "apply" /\ UNCHANGED <<history, revisionNow, hiddenRuns>>
      /\ acceptedRun' \in {0, acceptedRun} /\ seen' \in {seen, new}
      /\ load' \in {View!Idle, [View!Idle EXCEPT !.at = "project"]}
  BY DEF View!Apply, View!Ended, View!server
<1>2. Sound(p, history) /\ Agrees(p, d) /\ Len(history) \in Nat
  BY <1>1, LenProperties DEF ViewInv, Loading, HistoryInv
<1>3. r = p \/ (r = d /\ d # None)
  BY DEF View!Visible
<1>4. r.state \in View!Terminal /\ p.run = r.run /\ r.run # 0 => View!FinalSnapshot(p, r)
  <2>1. CASE r = p
    BY <1>2, <2>1 DEF Sound, View!FinalSnapshot
  <2>2. CASE r = d /\ d # None
    BY <1>2, <2>2 DEF Agrees
  <2>3. QED
    BY <1>3, <2>1, <2>2
<1> HIDE DEF p, d, r
<1>5. View!ShownIsSaved'
  <2>1. CASE seen' = seen
    BY <2>1 DEF ViewInv, View!ShownIsSaved, View!FinalSnapshot
  <2>2. CASE seen' = new
    <3>1. seen'.run = r.run /\ seen'.state = r.state /\ seen'.project = p
      BY <2>2
    <3>2. QED
      BY <1>4, <3>1 DEF View!ShownIsSaved, View!FinalSnapshot
  <2>3. QED
    BY <1>1, <2>1, <2>2
<1>6. HistoryInv'
  BY <1>1, <1>2 DEF ViewInv, HistoryInv
<1>7. Loading(load', history')
  BY <1>1, FreshLoad
<1>8. QED
  BY <1>5, <1>6, <1>7 DEF ViewInv

\* Every step keeps the invariant.
LEMMA NextView == ASSUME ViewInv, View!Next PROVE ViewInv'
BY CreateKeeps, SettleKeeps, RollBackKeeps, AskingLoad, ReadingLoad, ApplyKeeps
   DEF View!Next, View!Load

-----------------------------------------------------------------------------
(* What a version is, in the component of the behaviour.                     *)

VersionInv ==
    /\ part = "Coordinator" => DecisionInv
    /\ part = "Builder" => LogInv
    /\ part = "Build" => BuildInv
    /\ part = "Import" => ImportInv
    /\ part = "Source" => SourceInv
    /\ part = "View" => ViewInv

\* A behaviour starts with one component's initial state.
LEMMA InitVersion == Init => VersionInv
<1> SUFFICES ASSUME Init PROVE VersionInv
  OBVIOUS
<1>1. /\ part = "Coordinator" => Coordinator!Init
      /\ part = "Builder" => Builder!Init
      /\ part = "Build" => Build!Init
      /\ part = "Import" => Import!Init
      /\ part = "Source" => Source!Init
      /\ part = "View" => View!Init
  BY DEF Init
<1>2. QED
  BY <1>1, InitDecision, InitLog, InitBuild, InitImport, InitSource, InitView DEF VersionInv

\* A component of another behaviour stays as it is.
LEMMA DecisionSame == UNCHANGED CoordinatorVars /\ DecisionInv => DecisionInv'
BY DEF CoordinatorVars, DecisionInv, ChainInv, HandedInv, Calling
LEMMA LogSame == UNCHANGED BuilderVars /\ LogInv => LogInv'
<1> SUFFICES ASSUME UNCHANGED BuilderVars, LogInv PROVE LogInv'
  OBVIOUS
<1>1. UNCHANGED <<builderTurn, callNo, builderEvents, log, eventLost, batches, owner, stopping>>
  BY DEF BuilderVars
<1>2. EventsInv' /\ BuilderTypes'
  BY <1>1, UnchangedEvents
<1>3. OutputInv'
  BY <1>1 DEF LogInv, OutputInv
<1>4. QED
  BY <1>2, <1>3 DEF LogInv
LEMMA BuildSame == UNCHANGED BuildVars /\ BuildInv => BuildInv'
BY DEF BuildVars, BuildInv, TreesInv, MarkedInv
LEMMA SourceSame == UNCHANGED SourceVars /\ SourceInv => SourceInv'
<1> SUFFICES ASSUME UNCHANGED SourceVars, SourceInv PROVE SourceInv'
  OBVIOUS
<1>1. UNCHANGED <<objects, sourceBuilt, sourceStep, reference, sourceVerified, rows, reviewed,
                  sourceServed, images, sourceShots>>
  BY DEF SourceVars
<1>2. ObjectsInv' /\ ReadInv' /\ ShotsInv'
  BY <1>1 DEF SourceInv, ObjectsInv, ReadInv, ShotsInv
<1>3. RowsInv'
  BY <1>1, KeptStays DEF SourceInv, RowsInv
<1>4. QED
  BY <1>2, <1>3 DEF SourceInv
LEMMA ViewSame == UNCHANGED ViewVars /\ ViewInv => ViewInv'
<1> SUFFICES ASSUME UNCHANGED ViewVars, ViewInv PROVE ViewInv'
  OBVIOUS
<1>1. UNCHANGED <<history, revisionNow, hiddenRuns, viewAnswers, acceptedRun, load, again, seen>>
  BY DEF ViewVars
<1>2. HistoryInv'
  BY <1>1 DEF ViewInv, HistoryInv
<1>3. Loading(load', history')
  BY <1>1 DEF ViewInv
<1>4. View!ShownIsSaved'
  BY <1>1 DEF ViewInv, View!ShownIsSaved
<1>5. QED
  BY <1>2, <1>3, <1>4 DEF ViewInv, Loading, Sound, Settled, Agrees, View!FinalSnapshot

\* A step is one of the behaviour's component.
LEMMA NextVersion == ASSUME VersionInv, [Next]_vars PROVE VersionInv'
<1>1. CASE Next
  <2>1. /\ UNCHANGED part
        /\ part = "Coordinator" => Coordinator!Next
        /\ part = "Builder" => Builder!Next
        /\ part = "Build" => Build!Next
        /\ part = "Import" => Import!Next
        /\ part = "Source" => Source!Next
        /\ part = "View" => View!Next
    BY <1>1 DEF Next
  <2>2. QED
    BY <2>1, NextDecision, NextLog, NextBuild, NextImport, NextSource, NextView DEF VersionInv
<1>2. CASE UNCHANGED vars
  BY <1>2, DecisionSame, LogSame, BuildSame, ImportSame, SourceSame, ViewSame DEF vars, VersionInv
<1>3. QED
  BY <1>1, <1>2

\* A coordinator's decision comes after the events that led to it, a builder's calls are
\* saved one after another with their own output, a build is of the tree that was listed
\* and checked, a stored version reads back as it was built, and the workbench shows a
\* finished run as it was saved.
THEOREM VersionIsBoundHolds == Spec => []VersionIsBound
<1>1. VersionInv => VersionIsBound
  BY DecisionProperty, LogProperty, BuildProperty, ImportProperty, SourceProperty
     DEF VersionInv, VersionIsBound, ViewInv
<1>2. VersionInv /\ [Next]_vars => VersionInv'
  BY NextVersion
<1>3. QED
  BY <1>1, <1>2, InitVersion, PTL DEF Spec

-----------------------------------------------------------------------------
(* PlanLineage: who stands for a behaviour in the end.                       *)

PlanEntry == [text : PlanTexts, required : BOOLEAN, group : PlanGroups \union {None}]
PlanSet == [of : UNION {[S -> PlanEntry] : S \in SUBSET (1..PlanIds)},
            replaced : UNION {[S -> 1..PlanIds] : S \in SUBSET (1..PlanIds)}]
Follow(p, x) == IF x \in DOMAIN p.replaced /\ x \notin DOMAIN p.of THEN p.replaced[x] ELSE x
Chain(p, b, h) == h = [n \in 0..PlanIds |-> IF n = 0 THEN b ELSE Follow(p, h[n - 1])]

\* What a plan is made of.
LEMMA PlanSetType ==
    ASSUME NEW p \in PlanSet
    PROVE  /\ DOMAIN p.of \subseteq 1..PlanIds /\ DOMAIN p.replaced \subseteq 1..PlanIds
           /\ \A b \in DOMAIN p.of : p.of[b] \in PlanEntry
           /\ \A b \in DOMAIN p.replaced : p.replaced[b] \in 1..PlanIds
           /\ p = [of |-> p.of, replaced |-> p.replaced]
<1>1. p.of \in UNION {[S -> PlanEntry] : S \in SUBSET (1..PlanIds)}
  BY DEF PlanSet
<1>2. p.replaced \in UNION {[S -> 1..PlanIds] : S \in SUBSET (1..PlanIds)}
  BY DEF PlanSet
<1>3. PICK S \in SUBSET (1..PlanIds) : p.of \in [S -> PlanEntry]
  BY <1>1
<1>4. PICK T \in SUBSET (1..PlanIds) : p.replaced \in [T -> 1..PlanIds]
  BY <1>2
<1>5. p = [of |-> p.of, replaced |-> p.replaced]
  BY DEF PlanSet
<1>6. QED
  BY <1>3, <1>4, <1>5

\* There is a chain of the heirs of each behaviour, and it ends with its heir.
LEMMA ChainExists == ASSUME NEW p, NEW b PROVE \E h : Chain(p, b, h)
<1> DEFINE UpTo(h, m) == \A n \in 0..m : h[n] = IF n = 0 THEN b ELSE Follow(p, h[n - 1])
           missing == {m \in Nat : ~\E h : UpTo(h, m)}
<1>1. ASSUME missing # {} PROVE FALSE
  <2>1. PICK m \in missing : \A n \in missing : m <= n
    <3>1. missing \subseteq Nat
      OBVIOUS
    <3> HIDE DEF missing
    <3>2. QED
      BY <1>1, <3>1, LeastOf
  <2>2. m \in Nat /\ ~\E h : UpTo(h, m)
    OBVIOUS
  <2>3. CASE m = 0
    <3> DEFINE first == [n \in Nat |-> b]
    <3>1. UpTo(first, 0)
      OBVIOUS
    <3>2. QED
      BY <2>2, <2>3, <3>1
  <2>4. CASE m # 0
    <3>1. m - 1 \in Nat /\ ~(m <= m - 1)
      BY <2>2, <2>4
    <3>2. m - 1 \notin missing
      BY <2>1, <3>1
    <3>3. PICK h : UpTo(h, m - 1)
      BY <3>1, <3>2
    <3> DEFINE next == [n \in Nat |-> IF n = m THEN Follow(p, h[m - 1]) ELSE h[n]]
    <3>4. ASSUME NEW n \in 0..m PROVE next[n] = IF n = 0 THEN b ELSE Follow(p, next[n - 1])
      <4>1. CASE n = m
        <5>1. next[n] = Follow(p, h[m - 1]) /\ next[n - 1] = h[m - 1]
          BY <2>2, <3>1, <4>1
        <5>2. QED
          BY <2>4, <4>1, <5>1
      <4>2. CASE n # m
        <5>1. n \in 0..(m - 1) /\ next[n] = h[n]
          BY <2>2, <4>2
        <5>2. CASE n = 0
          BY <3>3, <5>1, <5>2
        <5>3. CASE n # 0
          <6>1. n - 1 \in Nat /\ n - 1 # m
            BY <2>2, <5>1, <5>3
          <6>2. next[n - 1] = h[n - 1]
            BY <6>1
          <6>3. QED
            BY <3>3, <5>1, <5>3, <6>2
        <5>4. QED
          BY <5>2, <5>3
      <4>3. QED
        BY <4>1, <4>2
    <3> HIDE DEF next
    <3>5. UpTo(next, m)
      BY <3>4
    <3>6. QED
      BY <2>2, <3>5
  <2>5. QED
    BY <2>3, <2>4
<1>2. PlanIds \in Nat
  BY LineageAssumption
<1>3. PICK g : UpTo(g, PlanIds)
  BY <1>1, <1>2
<1> DEFINE h == [n \in 0..PlanIds |-> g[n]]
<1>4. ASSUME NEW n \in 0..PlanIds
      PROVE  h[n] = IF n = 0 THEN b ELSE Follow(p, h[n - 1])
  <2>1. CASE n = 0
    BY <1>3, <2>1
  <2>2. CASE n # 0
    <3>1. n - 1 \in 0..PlanIds
      BY <1>2, <2>2
    <3>2. h[n - 1] = g[n - 1] /\ h[n] = g[n]
      BY <3>1
    <3>3. QED
      BY <1>3, <2>2, <3>2
  <2>3. QED
    BY <2>1, <2>2
<1>5. h = [n \in 0..PlanIds |-> h[n]]
  OBVIOUS
<1> HIDE DEF h
<1>6. Chain(p, b, h)
  BY <1>4, <1>5 DEF Chain
<1>7. QED
  BY <1>6

LEMMA HeirIs == ASSUME NEW p, NEW b PROVE \E h : Chain(p, b, h) /\ Plans!Heir(p, b) = h[PlanIds]
<1> DEFINE heir == CHOOSE h : Chain(p, b, h)
<1>1. Plans!Heir(p, b) = heir[PlanIds]
  BY DEF Plans!Heir, Chain, Follow
<1>2. Chain(p, b, heir)
  <2> HIDE DEF heir
  <2>1. \E h : Chain(p, b, h)
    BY ChainExists
  <2>2. QED
    BY <2>1 DEF heir
<1>3. QED
  BY <1>1, <1>2

\* A chain step by step, and that it stays among the ids.
LEMMA ChainFacts ==
    ASSUME NEW p, NEW b, NEW h, Chain(p, b, h)
    PROVE  h[0] = b /\ \A n \in 1..PlanIds : h[n] = Follow(p, h[n - 1])
<1>1. PlanIds \in Nat
  BY LineageAssumption
<1>2. h = [n \in 0..PlanIds |-> IF n = 0 THEN b ELSE Follow(p, h[n - 1])]
  BY DEF Chain
<1>3. h[0] = b
  BY <1>1, <1>2
<1>4. ASSUME NEW n \in 1..PlanIds PROVE h[n] = Follow(p, h[n - 1])
  <2>1. n \in 0..PlanIds /\ n # 0
    BY <1>1
  <2>2. QED
    BY <1>2, <2>1
<1>5. QED
  BY <1>3, <1>4

\* It stays where nothing follows.
LEMMA ChainStays ==
    ASSUME NEW p, NEW b, NEW h, Chain(p, b, h), NEW i \in 0..PlanIds, Follow(p, h[i]) = h[i]
    PROVE  \A n \in i..PlanIds : h[n] = h[i]
<1> DEFINE bad == {n \in i..PlanIds : h[n] # h[i]}
<1>1. ASSUME bad # {} PROVE FALSE
  <2>1. PICK n \in bad : \A m \in bad : n <= m
    <3>1. bad \subseteq Nat
      BY LineageAssumption
    <3> HIDE DEF bad
    <3>2. QED
      BY <1>1, <3>1, LeastOf
  <2>2. n \in i..PlanIds /\ h[n] # h[i] /\ n # i /\ PlanIds \in Nat
    BY LineageAssumption
  <2>3. n - 1 \in i..PlanIds /\ ~(n <= n - 1) /\ n \in 1..PlanIds
    BY <2>2
  <2>4. h[n - 1] = h[i]
    BY <2>1, <2>3
  <2>5. h[n] = Follow(p, h[n - 1])
    BY <2>3, ChainFacts
  <2>6. QED
    BY <2>2, <2>4, <2>5
<1>2. QED
  BY <1>1

\* Whoever stands for an id is an id.
LEMMA ChainTypes ==
    ASSUME NEW p \in PlanSet, NEW b \in 1..PlanIds, NEW h, Chain(p, b, h)
    PROVE  \A n \in 0..PlanIds : h[n] \in 1..PlanIds
<1> DEFINE bad == {n \in 0..PlanIds : h[n] \notin 1..PlanIds}
<1>1. ASSUME bad # {} PROVE FALSE
  <2>1. PICK n \in bad : \A m \in bad : n <= m
    <3>1. bad \subseteq Nat
      BY LineageAssumption
    <3> HIDE DEF bad
    <3>2. QED
      BY <1>1, <3>1, LeastOf
  <2>2. n \in 0..PlanIds /\ h[n] \notin 1..PlanIds /\ PlanIds \in Nat
    BY LineageAssumption
  <2>3. n # 0
    BY <2>2, ChainFacts
  <2>4. n - 1 \in 0..PlanIds /\ ~(n <= n - 1) /\ n \in 1..PlanIds
    BY <2>2, <2>3
  <2>5. h[n - 1] \in 1..PlanIds
    BY <2>1, <2>4
  <2>6. h[n] = Follow(p, h[n - 1])
    BY <2>4, ChainFacts
  <2>7. QED
    BY <2>2, <2>5, <2>6, PlanSetType DEF Follow
<1>2. QED
  BY <1>1

\* Two places of a chain that agree go on alike.
LEMMA ChainShift ==
    ASSUME NEW p, NEW b, NEW h, Chain(p, b, h),
           NEW x \in 0..PlanIds, NEW y \in 0..PlanIds, x < y, h[x] = h[y]
    PROVE  \A t \in 0..(PlanIds - y) : h[x + t] = h[y + t]
<1> DEFINE bad == {t \in 0..(PlanIds - y) : h[x + t] # h[y + t]}
<1>1. PlanIds \in Nat /\ x \in Nat /\ y \in Nat
  BY LineageAssumption
<1>2. ASSUME bad # {} PROVE FALSE
  <2>1. PICK t \in bad : \A m \in bad : t <= m
    <3>1. bad \subseteq Nat
      BY <1>1
    <3> HIDE DEF bad
    <3>2. QED
      BY <1>2, <3>1, LeastOf
  <2>2. t \in 0..(PlanIds - y) /\ h[x + t] # h[y + t]
    OBVIOUS
  <2>3. t # 0
    <3>1. x + 0 = x /\ y + 0 = y
      BY <1>1
    <3>2. QED
      BY <2>2, <3>1
  <2>4. t - 1 \in 0..(PlanIds - y) /\ ~(t <= t - 1) /\ x + t \in 1..PlanIds /\ y + t \in 1..PlanIds
        /\ x + (t - 1) = (x + t) - 1 /\ y + (t - 1) = (y + t) - 1
    BY <1>1, <2>2, <2>3
  <2>5. h[x + (t - 1)] = h[y + (t - 1)]
    BY <2>1, <2>4
  <2>6. h[x + t] = Follow(p, h[(x + t) - 1]) /\ h[y + t] = Follow(p, h[(y + t) - 1])
    BY <2>4, ChainFacts
  <2>7. QED
    BY <2>2, <2>4, <2>5, <2>6
<1>3. QED
  BY <1>2

\* A chain that ends at a behaviour is there before all ids were passed.
LEMMA ChainFirst ==
    ASSUME NEW p \in PlanSet, NEW b \in 1..PlanIds, NEW h, Chain(p, b, h), h[PlanIds] \in DOMAIN p.of
    PROVE  \E j \in 0..(PlanIds - 1) :
              /\ h[j] = h[PlanIds]
              /\ \A i \in 0..(j - 1) : h[i] \in DOMAIN p.replaced /\ h[i] \notin DOMAIN p.of
<1> DEFINE there == {n \in 0..PlanIds : h[n] \in DOMAIN p.of}
<1>1. PlanIds \in Nat /\ PlanIds # 0
  BY LineageAssumption
<1>2. PICK j \in there : \A n \in there : j <= n
  <2>1. there \subseteq Nat
    BY <1>1
  <2>2. PlanIds \in there
    BY <1>1
  <2> HIDE DEF there
  <2>3. QED
    BY <2>1, <2>2, LeastOf
<1>3. j \in 0..PlanIds /\ j \in Nat /\ h[j] \in DOMAIN p.of
  BY <1>1
<1>4. \A i \in 0..(j - 1) : h[i] \notin DOMAIN p.of
  <2>1. ASSUME NEW i \in 0..(j - 1), h[i] \in DOMAIN p.of PROVE FALSE
    <3>1. i \in 0..PlanIds /\ ~(j <= i)
      BY <1>1, <1>3
    <3>2. QED
      BY <1>2, <2>1, <3>1
  <2>2. QED
    BY <2>1
<1> HIDE DEF there
<1>5. h[j] = h[PlanIds]
  <2>1. Follow(p, h[j]) = h[j]
    BY <1>3 DEF Follow
  <2>2. PlanIds \in j..PlanIds
    BY <1>1, <1>3
  <2>3. QED
    BY <1>3, <2>1, <2>2, ChainStays
<1>6. j # PlanIds
  <2>1. SUFFICES ASSUME j = PlanIds PROVE FALSE
    OBVIOUS
  <2> DEFINE S == 0..PlanIds
             T == 1..PlanIds
             f == [n \in S |-> h[n]]
  <2>2. /\ IsFiniteSet(S) /\ Cardinality(S) = PlanIds + 1
        /\ IsFiniteSet(T) /\ Cardinality(T) = PlanIds
    BY <1>1, FS_Interval
  <2>3. Cardinality(T) < Cardinality(S)
    BY <1>1, <2>2
  <2>4. f \in [S -> T]
    BY ChainTypes
  <2>5. \E x, y \in S : x # y /\ f[x] = f[y]
    <3> HIDE DEF S, T, f
    <3> QED
      BY <2>2, <2>3, <2>4, FS_PigeonHole
  <2>6. \E x, y \in 0..PlanIds : x < y /\ h[x] = h[y]
    <3>1. PICK x \in S, y \in S : x # y /\ f[x] = f[y]
      BY <2>5
    <3>2. h[x] = h[y]
      BY <3>1
    <3>3. x < y \/ y < x
      BY <1>1, <3>1
    <3>4. QED
      BY <3>2, <3>3
  <2>7. PICK x \in 0..PlanIds, y \in 0..PlanIds : x < y /\ h[x] = h[y]
    BY <2>6
  <2> HIDE DEF S, T, f
  <2>8. PlanIds - y \in 0..(PlanIds - y) /\ y + (PlanIds - y) = PlanIds /\ x + (PlanIds - y) \in 0..(j - 1)
    BY <1>1, <2>1, <2>7
  <2>9. h[x + (PlanIds - y)] = h[y + (PlanIds - y)]
    BY <2>7, <2>8, ChainShift
  <2>10. QED
    BY <1>4, <2>8, <2>9
<1>7. j \in 0..(PlanIds - 1)
  BY <1>1, <1>3, <1>6
<1>8. ASSUME NEW i \in 0..(j - 1) PROVE h[i] \in DOMAIN p.replaced
  <2>1. SUFFICES ASSUME h[i] \notin DOMAIN p.replaced PROVE FALSE
    OBVIOUS
  <2>2. Follow(p, h[i]) = h[i]
    BY <2>1 DEF Follow
  <2>3. i \in 0..PlanIds /\ j \in i..PlanIds
    BY <1>1, <1>3, <1>8
  <2>4. h[j] = h[i]
    BY <2>2, <2>3, ChainStays
  <2>5. QED
    BY <1>3, <1>4, <1>8, <2>4
<1>9. QED
  BY <1>4, <1>5, <1>7, <1>8

\* Who is there stands for itself; who was replaced by someone who is there has it as its heir.
LEMMA HeirOfPresent ==
    ASSUME NEW p, NEW b \in DOMAIN p.of
    PROVE  Plans!Heir(p, b) = b
<1>1. PICK h : Chain(p, b, h) /\ Plans!Heir(p, b) = h[PlanIds]
  BY HeirIs
<1>2. PlanIds \in Nat
  BY LineageAssumption
<1>3. h[0] = b
  BY <1>1, ChainFacts
<1>4. Follow(p, h[0]) = h[0]
  BY <1>3 DEF Follow
<1>5. h[PlanIds] = h[0]
  BY <1>1, <1>2, <1>4, ChainStays
<1>6. QED
  BY <1>1, <1>3, <1>5

\* One who was replaced by a behaviour of the plan has that behaviour as its heir.
LEMMA HeirOfReplaced ==
    ASSUME NEW p, NEW b \in DOMAIN p.replaced, b \notin DOMAIN p.of, p.replaced[b] \in DOMAIN p.of
    PROVE  Plans!Heir(p, b) = p.replaced[b]
<1>1. PICK h : Chain(p, b, h) /\ Plans!Heir(p, b) = h[PlanIds]
  BY HeirIs
<1>2. PlanIds \in Nat /\ 1 \in 1..PlanIds /\ 1 \in 0..PlanIds /\ PlanIds \in 1..PlanIds
  BY LineageAssumption
<1>3. h[0] = b /\ h[1] = Follow(p, h[1 - 1])
  BY <1>1, <1>2, ChainFacts
<1>4. h[1] = p.replaced[b]
  BY <1>3 DEF Follow
<1>5. Follow(p, h[1]) = h[1]
  BY <1>4 DEF Follow
<1>6. h[PlanIds] = h[1]
  BY <1>1, <1>2, <1>5, ChainStays
<1>7. QED
  BY <1>1, <1>4, <1>6
\* Who has an heir and is not there was replaced.
LEMMA HeirLeft ==
    ASSUME NEW p, NEW b, b \notin DOMAIN p.of, Plans!Heir(p, b) \in DOMAIN p.of
    PROVE  b \in DOMAIN p.replaced
<1>1. PICK h : Chain(p, b, h) /\ Plans!Heir(p, b) = h[PlanIds]
  BY HeirIs
<1>2. PlanIds \in Nat /\ 0 \in 0..PlanIds /\ PlanIds \in 0..PlanIds
  BY LineageAssumption
<1>3. h[0] = b
  BY <1>1, ChainFacts
<1>4. SUFFICES ASSUME b \notin DOMAIN p.replaced PROVE FALSE
  OBVIOUS
<1>5. Follow(p, h[0]) = h[0]
  BY <1>3, <1>4 DEF Follow
<1>6. h[PlanIds] = h[0]
  BY <1>1, <1>2, <1>5, ChainStays
<1>7. QED
  BY <1>1, <1>3, <1>6

\* A later plan that keeps what was replaced only continues its chains.
LEMMA HeirExtends ==
    ASSUME NEW p \in PlanSet, NEW q, NEW b \in 1..PlanIds, Plans!Heir(p, b) \in DOMAIN p.of,
           \A x \in DOMAIN p.replaced : x \notin DOMAIN p.of =>
              x \in DOMAIN q.replaced /\ x \notin DOMAIN q.of /\ q.replaced[x] = p.replaced[x]
    PROVE  /\ Plans!Heir(p, b) \in DOMAIN q.of => Plans!Heir(q, b) = Plans!Heir(p, b)
           /\ LET m == Plans!Heir(p, b)
              IN  m \notin DOMAIN q.of /\ m \in DOMAIN q.replaced /\ q.replaced[m] \in DOMAIN q.of
                  => Plans!Heir(q, b) = q.replaced[m]
<1> DEFINE m == Plans!Heir(p, b)
<1>1. PICK h : Chain(p, b, h) /\ Plans!Heir(p, b) = h[PlanIds]
  BY HeirIs
<1>2. PICK k : Chain(q, b, k) /\ Plans!Heir(q, b) = k[PlanIds]
  BY HeirIs
<1>3. PlanIds \in Nat
  BY LineageAssumption
<1>4. PICK j \in 0..(PlanIds - 1) :
              /\ h[j] = h[PlanIds]
              /\ \A i \in 0..(j - 1) : h[i] \in DOMAIN p.replaced /\ h[i] \notin DOMAIN p.of
  BY <1>1, ChainFirst
<1> DEFINE bad == {i \in 0..j : k[i] # h[i]}
<1>5. ASSUME bad # {} PROVE FALSE
  <2>1. PICK i \in bad : \A n \in bad : i <= n
    <3>1. bad \subseteq Nat
      BY <1>3, <1>4
    <3> HIDE DEF bad
    <3>2. QED
      BY <1>5, <3>1, LeastOf
  <2>2. i \in 0..j /\ k[i] # h[i] /\ j \in Nat /\ j < PlanIds
    BY <1>3, <1>4
  <2>3. i # 0
    BY <1>1, <1>2, <2>2, ChainFacts
  <2>4. i - 1 \in 0..j /\ ~(i <= i - 1) /\ i \in 1..PlanIds /\ i - 1 \in 0..(j - 1)
    BY <1>3, <2>2, <2>3
  <2>5. k[i - 1] = h[i - 1]
    BY <2>1, <2>4
  <2> HIDE DEF bad
  <2>6. k[i] = Follow(q, k[i - 1]) /\ h[i] = Follow(p, h[i - 1])
    BY <1>1, <1>2, <2>4, ChainFacts
  <2>7. h[i - 1] \in DOMAIN p.replaced /\ h[i - 1] \notin DOMAIN p.of
    BY <1>4, <2>4
  <2>8. QED
    BY <2>2, <2>5, <2>6, <2>7 DEF Follow
<1>6. k[j] = h[j] /\ j \in 0..PlanIds /\ j + 1 \in 1..PlanIds /\ j + 1 \in 0..PlanIds
      /\ PlanIds \in j..PlanIds /\ PlanIds \in (j + 1)..PlanIds /\ (j + 1) - 1 = j
  <2>1. j \in Nat /\ j < PlanIds
    BY <1>3, <1>4
  <2>2. k[j] = h[j]
    BY <1>5, <2>1
  <2>3. QED
    BY <1>3, <2>1, <2>2
<1> HIDE DEF bad
<1>7. k[j] = m
  BY <1>1, <1>4, <1>6
<1> HIDE DEF m
<1>8. ASSUME m \in DOMAIN q.of PROVE Plans!Heir(q, b) = m
  <2>1. Follow(q, k[j]) = k[j]
    BY <1>7, <1>8 DEF Follow
  <2>2. k[PlanIds] = k[j]
    BY <1>2, <1>6, <2>1, ChainStays
  <2>3. QED
    BY <1>2, <1>7, <2>2
<1>9. ASSUME m \notin DOMAIN q.of, m \in DOMAIN q.replaced, q.replaced[m] \in DOMAIN q.of
      PROVE  Plans!Heir(q, b) = q.replaced[m]
  <2>1. k[j + 1] = Follow(q, k[(j + 1) - 1])
    BY <1>2, <1>6, ChainFacts
  <2>2. k[j + 1] = q.replaced[m]
    BY <1>6, <1>7, <1>9, <2>1 DEF Follow
  <2>3. Follow(q, k[j + 1]) = k[j + 1]
    BY <1>9, <2>2 DEF Follow
  <2>4. k[PlanIds] = k[j + 1]
    BY <1>2, <1>6, <2>3, ChainStays
  <2>5. QED
    BY <1>2, <2>2, <2>4
<1>10. QED
  BY <1>8, <1>9 DEF m

-----------------------------------------------------------------------------
(* PlanLineage: what the versions promise.                                   *)

PlanLinks(p) ==
    /\ Plans!IsInjective(p.replaced)
    /\ \A b \in DOMAIN p.replaced :
          b \notin DOMAIN p.of /\ Plans!Heir(p, p.replaced[b]) \in DOMAIN p.of
GoodPlan(p) == p \in PlanSet /\ PlanLinks(p) /\ (Plans!Flat(p) \/ Plans!WellFormed(p))
\* A version has an older base, unless it was made from a template, and its plan keeps what
\* that of its base promised.
PlanVersion == [base : Nat, plan : {None} \union PlanSet, asked : SUBSET (1..PlanIds), accepted : BOOLEAN]
PlanVersionInv(v) ==
    /\ plans[v].base \in 0..(v - 1)
    /\ plans[v].plan = None => plans[v].base = 0
    /\ plans[v].plan # None =>
          /\ GoodPlan(plans[v].plan)
          /\ Plans!preservesPreviousBehavior(plans[v].plan, Plans!PlanOf(plans[v].base), plans[v].asked)
VersionsInv == plans \in Seq(PlanVersion) /\ \A v \in 1..Len(plans) : PlanVersionInv(v)

\* The versions before one are those before its base, and it.
LEMMA LineageOf ==
    ASSUME VersionsInv
    PROVE  /\ Plans!Ancestors(0) = {}
           /\ \A v \in 1..Len(plans) :
                 Plans!Ancestors(v) = {v} \union Plans!Ancestors(plans[v].base)
<1> DEFINE UpTo(l, m) == \A n \in 0..m : l[n] = IF n = 0 THEN {} ELSE {n} \union l[plans[n].base]
           count == Len(plans)
           missing == {m \in 0..count : ~\E l : UpTo(l, m)}
           Line(l) == l = [n \in 0..Len(plans) |-> IF n = 0 THEN {} ELSE {n} \union l[plans[n].base]]
           line == CHOOSE l : Line(l)
<1>1. count \in Nat /\ \A n \in 1..count : plans[n].base \in 0..(n - 1)
  BY DEF VersionsInv, PlanVersionInv
<1>2. \A v : Plans!Ancestors(v) = line[v]
  BY DEF Plans!Ancestors
<1>3. ASSUME missing # {} PROVE FALSE
  <2>1. PICK m \in missing : \A n \in missing : m <= n
    <3>1. missing \subseteq Nat
      BY <1>1
    <3> HIDE DEF missing
    <3>2. QED
      BY <1>3, <3>1, LeastOf
  <2>2. m \in 0..count /\ m \in Nat /\ ~\E l : UpTo(l, m)
    <3> HIDE DEF UpTo, count
    <3>1. m \in 0..count /\ ~\E l : UpTo(l, m)
      OBVIOUS
    <3>2. QED
      BY <1>1, <3>1
  <2>3. CASE m = 0
    <3> DEFINE first == [n \in Nat |-> {}]
    <3>1. UpTo(first, 0)
      OBVIOUS
    <3>2. QED
      BY <2>2, <2>3, <3>1
  <2>4. CASE m # 0
    <3>1. m - 1 \in 0..count /\ ~(m <= m - 1)
      BY <1>1, <2>2, <2>4
    <3>2. m - 1 \notin missing
      BY <2>1, <3>1
    <3>3. PICK l : UpTo(l, m - 1)
      BY <3>1, <3>2
    <3> DEFINE next == [n \in Nat |-> IF n = m THEN {m} \union l[plans[m].base] ELSE l[n]]
    <3>4. ASSUME NEW n \in 0..m
          PROVE  next[n] = IF n = 0 THEN {} ELSE {n} \union next[plans[n].base]
      <4>1. CASE n = 0
        <5>1. next[n] = l[n] /\ n \in 0..(m - 1)
          BY <2>2, <2>4, <4>1
        <5>2. QED
          BY <3>3, <4>1, <5>1
      <4>2. CASE n # 0
        <5>1. n \in 1..count /\ n \in Nat
          BY <1>1, <2>2, <4>2
        <5>2. plans[n].base \in 0..(n - 1)
          BY <1>1, <5>1
        <5>3. next[plans[n].base] = l[plans[n].base]
          BY <2>2, <5>1, <5>2
        <5>4. CASE n = m
          <6>1. next[n] = {m} \union l[plans[m].base]
            BY <2>2, <5>4
          <6>2. QED
            BY <4>2, <5>3, <5>4, <6>1
        <5>5. CASE n # m
          <6>1. n \in 0..(m - 1) /\ next[n] = l[n]
            BY <2>2, <5>1, <5>5
          <6>2. l[n] = {n} \union l[plans[n].base]
            BY <3>3, <4>2, <6>1
          <6>3. QED
            BY <4>2, <5>3, <6>1, <6>2
        <5>6. QED
          BY <5>4, <5>5
      <4>3. QED
        BY <4>1, <4>2
    <3> HIDE DEF next
    <3>5. UpTo(next, m)
      BY <3>4
    <3>6. QED
      BY <2>2, <3>5
  <2>5. QED
    BY <2>3, <2>4
<1>4. PICK g : UpTo(g, count)
  <2> HIDE DEF UpTo, count
  <2>1. count \in 0..count /\ count \notin missing
    BY <1>1, <1>3
  <2>2. QED
    BY <2>1
<1> DEFINE all == [n \in 0..count |-> g[n]]
<1>5. ASSUME NEW n \in 0..count
      PROVE  all[n] = IF n = 0 THEN {} ELSE {n} \union all[plans[n].base]
  <2>1. CASE n = 0
    BY <1>4, <2>1
  <2>2. CASE n # 0
    <3>1. n \in 1..count
      BY <1>1, <2>2
    <3>2. plans[n].base \in 0..count
      BY <1>1, <3>1
    <3>3. all[n] = g[n] /\ all[plans[n].base] = g[plans[n].base]
      BY <3>2
    <3>4. QED
      BY <1>4, <2>2, <3>3
  <2>3. QED
    BY <2>1, <2>2
<1>6. all = [n \in 0..count |-> all[n]]
  OBVIOUS
<1> HIDE DEF all
<1>7. Line(all)
  BY <1>5, <1>6
<1>8. Line(line)
  <2> HIDE DEF Line
  <2> QED
    BY <1>7
<1>9. line = [n \in 0..count |-> IF n = 0 THEN {} ELSE {n} \union line[plans[n].base]]
  BY <1>8
<1> HIDE DEF line
<1>10. line[0] = {}
  BY <1>1, <1>9
<1>11. ASSUME NEW v \in 1..count PROVE line[v] = {v} \union line[plans[v].base]
  <2>1. v \in 0..count /\ v # 0
    BY <1>1
  <2>2. QED
    BY <1>9, <2>1
<1>12. QED
  BY <1>2, <1>10, <1>11

\* An ancestor is not younger.
LEMMA AncestorsAre ==
    ASSUME VersionsInv
    PROVE  \A v \in 0..Len(plans) : Plans!Ancestors(v) \subseteq 1..v
<1> DEFINE bad == {v \in 0..Len(plans) : ~(Plans!Ancestors(v) \subseteq 1..v)}
<1>1. Len(plans) \in Nat /\ \A n \in 1..Len(plans) : plans[n].base \in 0..(n - 1)
  BY DEF VersionsInv, PlanVersionInv
<1>2. ASSUME bad # {} PROVE FALSE
  <2>1. PICK v \in bad : \A n \in bad : v <= n
    <3>1. bad \subseteq Nat
      BY <1>1
    <3> HIDE DEF bad
    <3>2. QED
      BY <1>2, <3>1, LeastOf
  <2>2. v \in 0..Len(plans) /\ v \in Nat /\ ~(Plans!Ancestors(v) \subseteq 1..v)
    BY <1>1
  <2>3. v # 0
    BY <2>2, LineageOf
  <2>4. v \in 1..Len(plans)
    BY <1>1, <2>2, <2>3
  <2> DEFINE u == plans[v].base
  <2>5. u \in 0..(v - 1) /\ u \in Nat /\ u < v /\ u \in 0..Len(plans)
    BY <1>1, <2>2, <2>4
  <2>6. Plans!Ancestors(v) = {v} \union Plans!Ancestors(u)
    BY <2>4, LineageOf
  <2> HIDE DEF u
  <2>7. u \notin bad
    BY <2>1, <2>2, <2>5
  <2>8. Plans!Ancestors(u) \subseteq 1..u
    BY <2>5, <2>7
  <2>9. Plans!Ancestors(u) \subseteq 1..v
    BY <2>2, <2>5, <2>8
  <2>10. v \in 1..v
    BY <2>2, <2>3
  <2>11. QED
    BY <2>2, <2>6, <2>9, <2>10
<1>3. QED
  BY <1>2

\* What one plan keeps of the one before it.
LEMMA StepPromise ==
    ASSUME NEW mid, NEW now, NEW wanted, mid # None, PlanLinks(mid),
           Plans!preservesPreviousBehavior(now, mid, wanted),
           NEW b \in DOMAIN mid.of, mid.of[b].required
    PROVE  /\ b \in DOMAIN now.of => /\ Plans!sameObservableBehavior(now.of[b], mid.of[b])
                                     /\ Plans!SameGroup(now.of[b], mid.of[b])
           /\ b \notin DOMAIN now.of =>
                 /\ b \in DOMAIN now.replaced /\ now.replaced[b] \in DOMAIN now.of
                 /\ now.of[now.replaced[b]].required = mid.of[b].required
                 /\ Plans!SameGroup(now.of[now.replaced[b]], mid.of[b])
                 /\ b \in wanted
<1>1. b \in DOMAIN now.of => /\ Plans!sameObservableBehavior(now.of[b], mid.of[b])
                             /\ Plans!SameGroup(now.of[b], mid.of[b])
  BY DEF Plans!preservesPreviousBehavior
<1>2. b \notin DOMAIN now.of => b \in DOMAIN now.replaced
  BY DEF Plans!preservesPreviousBehavior
<1>3. b \notin DOMAIN mid.replaced
  BY DEF PlanLinks
<1>4. Plans!ReplacesWhatWasAsked(now, mid, wanted)
  BY DEF Plans!preservesPreviousBehavior
<1>5. b \in DOMAIN now.replaced =>
         /\ b \in wanted /\ now.replaced[b] \in DOMAIN now.of
         /\ now.of[now.replaced[b]].required = mid.of[b].required
         /\ Plans!SameGroup(now.of[now.replaced[b]], mid.of[b])
  BY <1>3, <1>4 DEF Plans!ReplacesWhatWasAsked
<1>6. QED
  BY <1>1, <1>2, <1>5

\* Groups and what is required are passed on.
LEMMA SameGroupOn ==
    ASSUME NEW x, NEW y, NEW z, Plans!SameGroup(x, y), Plans!SameGroup(y, z)
    PROVE  Plans!SameGroup(x, z)
BY DEF Plans!SameGroup

\* To be the same behaviour is transitive.
LEMMA SameOn ==
    ASSUME NEW x, NEW y, NEW z, Plans!sameObservableBehavior(x, y), Plans!sameObservableBehavior(y, z)
    PROVE  Plans!sameObservableBehavior(x, z)
BY DEF Plans!sameObservableBehavior

\* What v owes a of its behaviour b.
Owes(v, a, b) ==
    LET then == Plans!PlanOf(a)
        now == Plans!PlanOf(v)
    IN  /\ now # None
        /\ b \in DOMAIN now.of => /\ Plans!sameObservableBehavior(now.of[b], then.of[b])
                                  /\ Plans!SameGroup(now.of[b], then.of[b])
        /\ b \notin DOMAIN now.of =>
              /\ Plans!Heir(now, b) \in DOMAIN now.of
              /\ now.of[Plans!Heir(now, b)].required = then.of[b].required
              /\ Plans!SameGroup(now.of[Plans!Heir(now, b)], then.of[b])
              /\ \E w \in Plans!Ancestors(v) \ Plans!Ancestors(a) : b \in plans[w].asked
\* It owes the same as its base, or what it made of it.
LEMMA OwesNext ==
    ASSUME VersionsInv, NEW v \in 1..Len(plans), NEW a \in 1..Len(plans), NEW u, u = plans[v].base, u # 0,
           Plans!PlanOf(a) # None, NEW b \in DOMAIN Plans!PlanOf(a).of, Plans!PlanOf(a).of[b].required,
           v \notin Plans!Ancestors(a), u = a \/ Owes(u, a, b)
    PROVE  Owes(v, a, b)
<1> DEFINE then == Plans!PlanOf(a)
           mid == Plans!PlanOf(u)
           now == Plans!PlanOf(v)
           wanted == plans[v].asked
<1>1. /\ Len(plans) \in Nat /\ u \in 1..(v - 1) /\ u \in 1..Len(plans)
      /\ PlanVersionInv(v) /\ PlanVersionInv(u) /\ PlanVersionInv(a)
  <2>1. Len(plans) \in Nat /\ PlanVersionInv(v)
    BY DEF VersionsInv
  <2>2. u \in 0..(v - 1)
    BY <2>1 DEF PlanVersionInv
  <2>3. u \in 1..(v - 1) /\ u \in 1..Len(plans)
    BY <2>1, <2>2
  <2>4. PlanVersionInv(u) /\ PlanVersionInv(a)
    BY <2>3 DEF VersionsInv
  <2>5. QED
    BY <2>1, <2>3, <2>4
<1>2. now = plans[v].plan /\ mid = plans[u].plan /\ then = plans[a].plan
  BY <1>1 DEF Plans!PlanOf
<1>3. mid # None
  BY DEF Owes
<1>4. now # None
  BY <1>1, <1>2 DEF PlanVersionInv
<1>5. GoodPlan(now) /\ GoodPlan(mid) /\ GoodPlan(then) /\ Plans!preservesPreviousBehavior(now, mid, wanted)
  BY <1>1, <1>2, <1>3, <1>4 DEF PlanVersionInv
<1>6. /\ v \in Plans!Ancestors(v) \ Plans!Ancestors(a)
      /\ \A w \in Plans!Ancestors(u) : w \in Plans!Ancestors(v)
  BY LineageOf
<1> HIDE DEF then, mid, now
<1>7. ASSUME NEW m \in DOMAIN mid.of, mid.of[m].required = then.of[b].required,
             Plans!SameGroup(mid.of[m], then.of[b]), m \notin DOMAIN now.of
      PROVE  /\ m \in DOMAIN now.replaced /\ now.replaced[m] \in DOMAIN now.of
             /\ now.of[now.replaced[m]].required = then.of[b].required
             /\ Plans!SameGroup(now.of[now.replaced[m]], then.of[b])
             /\ m \in wanted
  <2>1. mid.of[m].required
    BY <1>7 DEF then
  <2>2. /\ m \in DOMAIN now.replaced /\ now.replaced[m] \in DOMAIN now.of
        /\ now.of[now.replaced[m]].required = mid.of[m].required
        /\ Plans!SameGroup(now.of[now.replaced[m]], mid.of[m])
        /\ m \in wanted
    BY <1>3, <1>5, <1>7, <2>1, StepPromise DEF GoodPlan
  <2>3. QED
    BY <1>7, <2>2, SameGroupOn
\* What is still there in the base is passed on or replaced here.
<1>8. CASE /\ b \in DOMAIN mid.of
           /\ Plans!sameObservableBehavior(mid.of[b], then.of[b]) /\ Plans!SameGroup(mid.of[b], then.of[b])
  <2>1. mid.of[b].required = then.of[b].required
    BY <1>8 DEF Plans!sameObservableBehavior
  <2>2. mid.of[b].required
    BY <2>1 DEF then
  <2>3. CASE b \in DOMAIN now.of
    <3>1. Plans!sameObservableBehavior(now.of[b], mid.of[b]) /\ Plans!SameGroup(now.of[b], mid.of[b])
      BY <1>3, <1>5, <1>8, <2>2, <2>3, StepPromise DEF GoodPlan
    <3>2. Plans!sameObservableBehavior(now.of[b], then.of[b]) /\ Plans!SameGroup(now.of[b], then.of[b])
      BY <1>8, <3>1, SameOn, SameGroupOn
    <3>3. QED
      BY <1>4, <2>3, <3>2 DEF Owes, then, now
  <2>4. CASE b \notin DOMAIN now.of
    <3>1. /\ b \in DOMAIN now.replaced /\ now.replaced[b] \in DOMAIN now.of
          /\ now.of[now.replaced[b]].required = then.of[b].required
          /\ Plans!SameGroup(now.of[now.replaced[b]], then.of[b])
          /\ b \in wanted
      BY <1>7, <1>8, <2>1, <2>4
    <3>2. Plans!Heir(now, b) = now.replaced[b]
      BY <2>4, <3>1, HeirOfReplaced
    <3>3. \E w \in Plans!Ancestors(v) \ Plans!Ancestors(a) : b \in plans[w].asked
      BY <1>6, <3>1
    <3>4. QED
      BY <1>4, <2>4, <3>1, <3>2, <3>3 DEF Owes, then, now
  <2>5. QED
    BY <2>3, <2>4
\* What was replaced before keeps its heir, or the heir is replaced here.
<1>9. CASE b \notin DOMAIN mid.of /\ u # a
  <2> DEFINE m == Plans!Heir(mid, b)
  <2>1. /\ m \in DOMAIN mid.of /\ mid.of[m].required = then.of[b].required
        /\ Plans!SameGroup(mid.of[m], then.of[b])
        /\ \E w \in Plans!Ancestors(u) \ Plans!Ancestors(a) : b \in plans[w].asked
    BY <1>9 DEF Owes, then, mid
  <2>2. b \in DOMAIN mid.replaced
    BY <1>9, <2>1, HeirLeft
  <2>3. \A x \in DOMAIN mid.replaced :
           x \in DOMAIN now.replaced /\ now.replaced[x] = mid.replaced[x] /\ x \notin DOMAIN now.of
    <3>1. \A x \in DOMAIN mid.replaced : x \in DOMAIN now.replaced /\ now.replaced[x] = mid.replaced[x]
      BY <1>3, <1>5 DEF Plans!preservesPreviousBehavior
    <3>2. \A x \in DOMAIN now.replaced : x \notin DOMAIN now.of
      BY <1>5 DEF GoodPlan, PlanLinks
    <3>3. QED
      BY <3>1, <3>2
  <2>4. b \notin DOMAIN now.of
    BY <2>2, <2>3
  <2>5. mid \in PlanSet /\ b \in 1..PlanIds
    <3>1. mid \in PlanSet
      BY <1>5 DEF GoodPlan
    <3>2. QED
      BY <2>2, <3>1, PlanSetType
  <2>6. /\ m \in DOMAIN now.of => Plans!Heir(now, b) = m
        /\ m \notin DOMAIN now.of /\ m \in DOMAIN now.replaced /\ now.replaced[m] \in DOMAIN now.of
              => Plans!Heir(now, b) = now.replaced[m]
    BY <2>1, <2>3, <2>5, HeirExtends
  <2>7. \E w \in Plans!Ancestors(v) \ Plans!Ancestors(a) : b \in plans[w].asked
    BY <1>6, <2>1
  <2> HIDE DEF m
  <2>8. mid.of[m].required
    BY <2>1 DEF then
  <2>9. CASE m \in DOMAIN now.of
    <3>1. Plans!sameObservableBehavior(now.of[m], mid.of[m]) /\ Plans!SameGroup(now.of[m], mid.of[m])
      BY <1>3, <1>5, <2>1, <2>8, <2>9, StepPromise DEF GoodPlan
    <3>2. now.of[m].required = then.of[b].required /\ Plans!SameGroup(now.of[m], then.of[b])
      BY <2>1, <3>1, SameGroupOn DEF Plans!sameObservableBehavior
    <3>3. QED
      BY <1>4, <2>4, <2>6, <2>7, <2>9, <3>2 DEF Owes, then, now
  <2>10. CASE m \notin DOMAIN now.of
    <3>1. /\ m \in DOMAIN now.replaced /\ now.replaced[m] \in DOMAIN now.of
          /\ now.of[now.replaced[m]].required = then.of[b].required
          /\ Plans!SameGroup(now.of[now.replaced[m]], then.of[b])
      BY <1>7, <2>1, <2>10
    <3>2. QED
      BY <1>4, <2>4, <2>6, <2>7, <2>10, <3>1 DEF Owes, then, now
  <2>11. QED
    BY <2>9, <2>10
<1>10. CASE u = a
  <2>1. mid = then
    BY <1>10 DEF mid, then
  <2>2. b \in DOMAIN mid.of
    BY <2>1 DEF then
  <2>3. Plans!sameObservableBehavior(mid.of[b], then.of[b]) /\ Plans!SameGroup(mid.of[b], then.of[b])
    BY <2>1 DEF Plans!sameObservableBehavior, Plans!SameGroup
  <2>4. QED
    BY <1>8, <2>2, <2>3
<1>11. CASE u # a /\ b \in DOMAIN mid.of
  <2>1. Plans!sameObservableBehavior(mid.of[b], then.of[b]) /\ Plans!SameGroup(mid.of[b], then.of[b])
    BY <1>11 DEF Owes, mid, then
  <2>2. QED
    BY <1>8, <1>11, <2>1
<1>12. QED
  BY <1>9, <1>10, <1>11

\* What holds of every version and its base holds of it and all those before it.
LEMMA PromisesProperty == VersionsInv => Plans!PromisesKept
<1> SUFFICES ASSUME VersionsInv PROVE Plans!PromisesKept
  OBVIOUS
<1> DEFINE KeptBy(v) == \A a \in Plans!Ancestors(v) \ {v} : Plans!PlanOf(a) # None =>
                         \A b \in {x \in DOMAIN Plans!PlanOf(a).of : Plans!PlanOf(a).of[x].required} :
                            Owes(v, a, b)
           bad == {v \in 1..Len(plans) : ~KeptBy(v)}
<1>1. Len(plans) \in Nat /\ DOMAIN plans = 1..Len(plans)
  BY DEF VersionsInv
<1>2. ASSUME bad # {} PROVE FALSE
  <2>1. PICK v \in bad : \A n \in bad : v <= n
    <3>1. bad \subseteq Nat
      BY <1>1
    <3> HIDE DEF bad
    <3>2. QED
      BY <1>2, <3>1, LeastOf
  <2>2. v \in 1..Len(plans) /\ ~KeptBy(v)
    <3> HIDE DEF KeptBy
    <3> QED
      OBVIOUS
  <2> DEFINE u == plans[v].base
  <2>3. u \in 0..(v - 1) /\ Plans!Ancestors(v) = {v} \union Plans!Ancestors(u)
    BY <2>2, LineageOf DEF VersionsInv, PlanVersionInv
  <2>4. u # 0 => u \in 1..Len(plans) /\ ~(v <= u) /\ u \notin bad /\ KeptBy(u)
    <3> HIDE DEF KeptBy, u
    <3>1. u # 0 => u \in 1..Len(plans) /\ ~(v <= u)
      BY <1>1, <2>2, <2>3
    <3>2. u # 0 => u \notin bad
      BY <2>1, <3>1
    <3>3. QED
      BY <3>1, <3>2
  <2>5. ASSUME NEW a \in Plans!Ancestors(v) \ {v}, Plans!PlanOf(a) # None,
               NEW b \in DOMAIN Plans!PlanOf(a).of, Plans!PlanOf(a).of[b].required
        PROVE  Owes(v, a, b)
    <3>1. a \in Plans!Ancestors(u) /\ u # 0
      BY <2>3, <2>5, LineageOf
    <3>2. Plans!Ancestors(u) \subseteq 1..u /\ u \in 0..Len(plans)
      <4>1. u \in 0..Len(plans)
        BY <1>1, <2>2, <2>3
      <4>2. QED
        BY <4>1, AncestorsAre
    <3>3. a \in 1..Len(plans) /\ a \in 0..Len(plans) /\ a < v
      BY <1>1, <2>2, <2>3, <3>1, <3>2
    <3>4. v \notin Plans!Ancestors(a)
      <4>1. Plans!Ancestors(a) \subseteq 1..a
        BY <3>3, AncestorsAre
      <4>2. v \notin 1..a
        BY <2>2, <3>3
      <4>3. QED
        BY <4>1, <4>2
    <3>5. u = a \/ Owes(u, a, b)
      <4>1. CASE u # a
        <5>1. a \in Plans!Ancestors(u) \ {u} /\ KeptBy(u)
          BY <2>4, <3>1, <4>1
        <5>2. QED
          BY <2>5, <5>1
      <4>2. QED
        BY <4>1
    <3> HIDE DEF u
    <3>6. QED
      BY <2>2, <2>5, <3>1, <3>3, <3>4, <3>5, OwesNext DEF u
  <2>6. QED
    BY <2>2, <2>5
<1>3. ASSUME NEW v \in 1..Len(plans), NEW a \in Plans!Ancestors(v) \ {v}, Plans!PlanOf(a) # None,
             NEW b \in {x \in DOMAIN Plans!PlanOf(a).of : Plans!PlanOf(a).of[x].required}
      PROVE  Owes(v, a, b)
  <2>1. KeptBy(v)
    <3> HIDE DEF KeptBy
    <3> QED
      BY <1>2
  <2>2. QED
    BY <1>3, <2>1
<1>4. QED
  BY <1>1, <1>3 DEF Plans!PromisesKept, Owes

-----------------------------------------------------------------------------
(* PlanLineage: an increment is a plan.                                      *)

PlanPart(E) == UNION {[S -> E] : S \in SUBSET (1..PlanIds)}

\* Functions on some of the ids.
LEMMA PartIs ==
    ASSUME NEW E, NEW f
    PROVE  f \in PlanPart(E) <=> /\ f = [x \in DOMAIN f |-> f[x]] /\ DOMAIN f \subseteq 1..PlanIds
                                 /\ \A x \in DOMAIN f : f[x] \in E
BY DEF PlanPart
LEMMA PlanIs ==
    ASSUME NEW f \in PlanPart(PlanEntry), NEW r \in PlanPart(1..PlanIds)
    PROVE  [of |-> f, replaced |-> r] \in PlanSet
BY DEF PlanPart, PlanSet
LEMMA PlanParts ==
    ASSUME NEW p \in PlanSet
    PROVE  /\ p.of \in PlanPart(PlanEntry) /\ p.replaced \in PlanPart(1..PlanIds)
           /\ p = [of |-> p.of, replaced |-> p.replaced]
BY DEF PlanPart, PlanSet

\* The first unused id.
LEMMA FirstUnused ==
    ASSUME NEW p, Plans!Unused(p) # {}
    PROVE  LET id == Plans!Min(Plans!Unused(p))
           IN  /\ id \in 1..PlanIds /\ id \in Plans!Unused(p)
               /\ id \notin DOMAIN p.of /\ id \notin DOMAIN p.replaced
               /\ \A x \in DOMAIN p.replaced : p.replaced[x] # id
<1> DEFINE T == Plans!Unused(p)
           id == Plans!Min(T)
<1>1. T \subseteq 1..PlanIds /\ T \subseteq Nat /\ T # {}
  BY LineageAssumption DEF Plans!Unused, Plans!Ids
<1>2. \E x \in T : \A y \in T : x <= y
  <2> HIDE DEF T
  <2> QED
    BY <1>1, LeastOf
<1>3. id \in T
  <2> HIDE DEF T
  <2> QED
    BY <1>2 DEF Plans!Min
<1>4. id \notin Plans!Used(p)
  <2> HIDE DEF id
  <2> QED
    BY <1>3 DEF Plans!Unused
<1> HIDE DEF id
<1>5. id \notin DOMAIN p.of /\ id \notin DOMAIN p.replaced /\ \A x \in DOMAIN p.replaced : p.replaced[x] # id
  BY <1>4 DEF Plans!Used, Plans!Range
<1>6. QED
  BY <1>1, <1>3, <1>5 DEF id

GroupsHold(p) ==
    \A g \in PlanGroups : \E b \in DOMAIN p.of : p.of[b].group = g /\ p.of[b].required

\* A plan is well formed when it is within the schema's limits, its groups hold and its links do.
LEMMA WellFormedIs ==
    ASSUME NEW p
    PROVE  Plans!WellFormed(p) <=> Plans!WithinSchema(p) /\ GroupsHold(p) /\ PlanLinks(p)
BY DEF Plans!WellFormed, GroupsHold, PlanLinks

\* A plan in which one behaviour has a new id.
Renewed(p, q, b, id, item) ==
    /\ q \in PlanSet
    /\ DOMAIN q.of = (DOMAIN p.of \ {b}) \union {id}
    /\ q.of[id] = item /\ (\A x \in DOMAIN p.of \ {b} : q.of[x] = p.of[x])
    /\ DOMAIN q.replaced = DOMAIN p.replaced \union {b}
    /\ q.replaced[b] = id /\ (\A x \in DOMAIN p.replaced \ {b} : q.replaced[x] = p.replaced[x])

\* That is what a replacement makes, under an id that nobody ever used.
LEMMA ReplacingIs ==
    ASSUME NEW p \in PlanSet, NEW b \in DOMAIN p.of, NEW text \in PlanTexts, Plans!Unused(p) # {}
    PROVE  Renewed(p, Plans!Replacing(p, b, text), b, Plans!Min(Plans!Unused(p)),
                   [p.of[b] EXCEPT !.text = text])
<1> DEFINE id == Plans!Min(Plans!Unused(p))
           item == [p.of[b] EXCEPT !.text = text]
           f == [x \in (DOMAIN p.of \ {b}) \union {id} |-> IF x = id THEN item ELSE p.of[x]]
           r == [x \in DOMAIN p.replaced \union {b} |-> IF x = b THEN id ELSE p.replaced[x]]
           q == Plans!Replacing(p, b, text)
<1>1. q = [of |-> f, replaced |-> r]
  BY DEF Plans!Replacing
<1>2. id \in 1..PlanIds /\ id \notin DOMAIN p.of
  BY FirstUnused
<1>3. item \in PlanEntry
  <2>1. p.of[b] \in PlanEntry
    BY PlanSetType
  <2>2. QED
    BY <2>1 DEF PlanEntry
<1> HIDE DEF id, item, q
<1>4. f \in PlanPart(PlanEntry)
  <2>1. f = [x \in DOMAIN f |-> f[x]] /\ DOMAIN f \subseteq 1..PlanIds
    BY <1>2, PlanSetType
  <2>2. \A x \in DOMAIN f : f[x] \in PlanEntry
    BY <1>3, PlanSetType
  <2> HIDE DEF f
  <2>3. QED
    BY <2>1, <2>2, PartIs
<1>5. r \in PlanPart(1..PlanIds)
  <2>1. r = [x \in DOMAIN r |-> r[x]] /\ DOMAIN r \subseteq 1..PlanIds
    BY <1>2, PlanSetType
  <2>2. \A x \in DOMAIN r : r[x] \in 1..PlanIds
    BY <1>2, PlanSetType
  <2> HIDE DEF r
  <2>3. QED
    BY <2>1, <2>2, PartIs
<1>6. q \in PlanSet /\ q.of = f /\ q.replaced = r
  <2> HIDE DEF f, r
  <2> QED
    BY <1>1, <1>4, <1>5, PlanIs
<1>7. Renewed(p, q, b, id, item)
  BY <1>2, <1>6 DEF Renewed
<1>8. QED
  BY <1>7 DEF q, id, item

\* It keeps the groups and the links.
LEMMA RenewedGood ==
    ASSUME NEW p \in PlanSet, PlanLinks(p), GroupsHold(p), p # None, NEW b \in DOMAIN p.of, NEW id,
           id \notin DOMAIN p.of, id \notin DOMAIN p.replaced,
           \A x \in DOMAIN p.replaced : p.replaced[x] # id,
           NEW item, item.required = p.of[b].required, item.group = p.of[b].group,
           NEW q, Renewed(p, q, b, id, item)
    PROVE  PlanLinks(q) /\ GroupsHold(q) /\ Plans!preservesPreviousBehavior(q, p, {b})
<1>1. b \notin DOMAIN p.replaced /\ id # b /\ \A x \in DOMAIN p.replaced : x \notin DOMAIN p.of
  BY DEF PlanLinks
<1>2. GroupsHold(q)
  <2>1. ASSUME NEW g \in PlanGroups PROVE \E x \in DOMAIN q.of : q.of[x].group = g /\ q.of[x].required
    <3>1. PICK x \in DOMAIN p.of : p.of[x].group = g /\ p.of[x].required
      BY DEF GroupsHold
    <3>2. CASE x = b
      <4>1. id \in DOMAIN q.of /\ q.of[id] = item
        BY DEF Renewed
      <4>2. QED
        BY <3>1, <3>2, <4>1
    <3>3. CASE x # b
      <4>1. x \in DOMAIN q.of /\ q.of[x] = p.of[x]
        BY <3>3 DEF Renewed
      <4>2. QED
        BY <3>1, <4>1
    <3>4. QED
      BY <3>2, <3>3
  <2>2. QED
    BY <2>1 DEF GroupsHold
<1>3. Plans!IsInjective(q.replaced)
  <2>1. \A x, y \in DOMAIN p.replaced : p.replaced[x] = p.replaced[y] => x = y
    BY DEF PlanLinks, Plans!IsInjective
  <2>2. QED
    BY <1>1, <2>1 DEF Plans!IsInjective, Renewed
<1>4. \A x \in DOMAIN q.replaced : x \notin DOMAIN q.of
  BY <1>1 DEF Renewed
<1>5. ASSUME NEW x \in DOMAIN q.replaced PROVE Plans!Heir(q, q.replaced[x]) \in DOMAIN q.of
  <2>1. CASE x = b
    <3>1. q.replaced[x] = id /\ id \in DOMAIN q.of
      BY <2>1 DEF Renewed
    <3>2. QED
      BY <3>1, HeirOfPresent
  <2>2. CASE x # b
    <3> DEFINE y == p.replaced[x]
               m == Plans!Heir(p, y)
    <3>1. x \in DOMAIN p.replaced /\ q.replaced[x] = y
      BY <2>2 DEF Renewed
    <3>2. y \in 1..PlanIds /\ m \in DOMAIN p.of
      BY <3>1, PlanSetType DEF PlanLinks
    <3>3. \A z \in DOMAIN p.replaced : z \notin DOMAIN p.of =>
             z \in DOMAIN q.replaced /\ z \notin DOMAIN q.of /\ q.replaced[z] = p.replaced[z]
      BY <1>1, <1>4 DEF Renewed
    <3> HIDE DEF y
    <3>4. /\ m \in DOMAIN q.of => Plans!Heir(q, y) = m
          /\ m \notin DOMAIN q.of /\ m \in DOMAIN q.replaced /\ q.replaced[m] \in DOMAIN q.of
                => Plans!Heir(q, y) = q.replaced[m]
      BY <3>2, <3>3, HeirExtends
    <3> HIDE DEF m
    <3>5. CASE m = b
      <4>1. m \in DOMAIN q.replaced /\ m \notin DOMAIN q.of /\ q.replaced[m] \in DOMAIN q.of
        BY <1>4, <3>5 DEF Renewed
      <4>2. QED
        BY <3>1, <3>4, <4>1
    <3>6. CASE m # b
      <4>1. m \in DOMAIN q.of
        BY <3>2, <3>6 DEF Renewed
      <4>2. QED
        BY <3>1, <3>4, <4>1
    <3>7. QED
      BY <3>5, <3>6
  <2>3. QED
    BY <2>1, <2>2
<1>6. PlanLinks(q)
  BY <1>3, <1>4, <1>5 DEF PlanLinks
<1>7. \A x \in DOMAIN p.replaced : x \in DOMAIN q.replaced /\ q.replaced[x] = p.replaced[x]
  BY <1>1 DEF Renewed
<1>8. Plans!ReplacesWhatWasAsked(q, p, {b})
  <2>1. ASSUME NEW x \in DOMAIN q.replaced, x \notin DOMAIN p.replaced
        PROVE  /\ x \in DOMAIN p.of /\ x \in {b} /\ q.replaced[x] \in DOMAIN q.of \ DOMAIN p.of
               /\ q.of[q.replaced[x]].required = p.of[x].required
               /\ Plans!SameGroup(q.of[q.replaced[x]], p.of[x])
    <3>1. x = b /\ q.replaced[x] = id /\ q.of[id] = item /\ id \in DOMAIN q.of
      BY <2>1 DEF Renewed
    <3>2. QED
      BY <3>1 DEF Plans!SameGroup
  <2>2. QED
    BY <2>1 DEF Plans!ReplacesWhatWasAsked
<1>9. ASSUME NEW x \in DOMAIN p.of
      PROVE  IF x \in DOMAIN q.of
             THEN Plans!sameObservableBehavior(q.of[x], p.of[x]) /\ Plans!SameGroup(q.of[x], p.of[x])
             ELSE p.of[x].required => x \in DOMAIN q.replaced
  <2>1. CASE x = b
    BY <1>1, <2>1 DEF Renewed
  <2>2. CASE x # b
    <3>1. x \in DOMAIN q.of /\ q.of[x] = p.of[x]
      BY <2>2 DEF Renewed
    <3>2. QED
      BY <3>1 DEF Plans!sameObservableBehavior, Plans!SameGroup
  <2>3. QED
    BY <2>1, <2>2
<1>10. QED
  BY <1>2, <1>6, <1>7, <1>8, <1>9 DEF Plans!preservesPreviousBehavior

\* A plan with one behaviour more.
Extended(p, q, id, item) ==
    /\ q \in PlanSet /\ q.replaced = p.replaced
    /\ DOMAIN q.of = DOMAIN p.of \union {id}
    /\ q.of[id] = item /\ (\A x \in DOMAIN p.of : q.of[x] = p.of[x])

\* That is what an addition makes, under an id that nobody ever used.
LEMMA AddingIs ==
    ASSUME NEW p \in PlanSet, NEW item \in PlanEntry, Plans!Unused(p) # {}
    PROVE  Extended(p, Plans!Adding(p, item), Plans!Min(Plans!Unused(p)), item)
<1> DEFINE id == Plans!Min(Plans!Unused(p))
           f == [x \in DOMAIN p.of \union {id} |-> IF x \in DOMAIN p.of THEN p.of[x] ELSE item]
           q == Plans!Adding(p, item)
<1>1. q = [p EXCEPT !.of = f]
  BY DEF Plans!Adding
<1>2. id \in 1..PlanIds /\ id \notin DOMAIN p.of
  BY FirstUnused
<1> HIDE DEF id, q
<1>3. f \in PlanPart(PlanEntry)
  <2>1. f = [x \in DOMAIN f |-> f[x]] /\ DOMAIN f \subseteq 1..PlanIds
    BY <1>2, PlanSetType
  <2>2. \A x \in DOMAIN f : f[x] \in PlanEntry
    BY PlanSetType
  <2> HIDE DEF f
  <2>3. QED
    BY <2>1, <2>2, PartIs
<1>4. q = [of |-> f, replaced |-> p.replaced] /\ p.replaced \in PlanPart(1..PlanIds)
  <2> HIDE DEF f
  <2> QED
    BY <1>1, PlanParts
<1>5. q \in PlanSet /\ q.of = f /\ q.replaced = p.replaced
  <2> HIDE DEF f
  <2> QED
    BY <1>3, <1>4, PlanIs
<1>6. Extended(p, q, id, item)
  BY <1>2, <1>5 DEF Extended
<1>7. QED
  BY <1>6 DEF q, id

\* It keeps the groups and the links.
LEMMA ExtendedGood ==
    ASSUME NEW p \in PlanSet, PlanLinks(p), GroupsHold(p), NEW id,
           id \notin DOMAIN p.of, id \notin DOMAIN p.replaced, NEW item, NEW q, Extended(p, q, id, item)
    PROVE  PlanLinks(q) /\ GroupsHold(q)
<1>1. GroupsHold(q)
  <2>1. ASSUME NEW g \in PlanGroups PROVE \E x \in DOMAIN q.of : q.of[x].group = g /\ q.of[x].required
    <3>1. PICK x \in DOMAIN p.of : p.of[x].group = g /\ p.of[x].required
      BY DEF GroupsHold
    <3>2. x \in DOMAIN q.of /\ q.of[x] = p.of[x]
      BY DEF Extended
    <3>3. QED
      BY <3>1, <3>2
  <2>2. QED
    BY <2>1 DEF GroupsHold
<1>2. Plans!IsInjective(q.replaced)
  BY DEF PlanLinks, Extended
<1>3. \A x \in DOMAIN q.replaced : x \notin DOMAIN q.of
  BY DEF PlanLinks, Extended
<1>4. ASSUME NEW x \in DOMAIN q.replaced PROVE Plans!Heir(q, q.replaced[x]) \in DOMAIN q.of
  <2> DEFINE y == p.replaced[x]
             m == Plans!Heir(p, y)
  <2>1. x \in DOMAIN p.replaced /\ q.replaced[x] = y
    BY DEF Extended
  <2>2. y \in 1..PlanIds /\ m \in DOMAIN p.of
    BY <2>1, PlanSetType DEF PlanLinks
  <2>3. \A z \in DOMAIN p.replaced : z \notin DOMAIN p.of =>
           z \in DOMAIN q.replaced /\ z \notin DOMAIN q.of /\ q.replaced[z] = p.replaced[z]
    BY <1>3 DEF Extended
  <2> HIDE DEF y
  <2>4. m \in DOMAIN q.of => Plans!Heir(q, y) = m
    BY <2>2, <2>3, HeirExtends
  <2> HIDE DEF m
  <2>5. m \in DOMAIN q.of
    BY <2>2 DEF Extended
  <2>6. QED
    BY <2>1, <2>4, <2>5
<1>5. QED
  BY <1>1, <1>2, <1>3, <1>4 DEF PlanLinks
\* It keeps what was kept.
LEMMA ExtendedKeeps ==
    ASSUME NEW p, NEW previous, NEW wanted, previous # None,
           Plans!preservesPreviousBehavior(p, previous, wanted), NEW id, id \notin DOMAIN previous.of,
           NEW item, NEW q, Extended(p, q, id, item)
    PROVE  Plans!preservesPreviousBehavior(q, previous, wanted)
<1>1. \A x \in DOMAIN previous.replaced :
         x \in DOMAIN q.replaced /\ q.replaced[x] = previous.replaced[x]
  BY DEF Plans!preservesPreviousBehavior, Extended
<1>2. Plans!ReplacesWhatWasAsked(p, previous, wanted)
  BY DEF Plans!preservesPreviousBehavior
<1>3. ASSUME NEW x \in DOMAIN q.replaced, x \notin DOMAIN previous.replaced
      PROVE  /\ x \in DOMAIN previous.of /\ x \in wanted
             /\ q.replaced[x] \in DOMAIN q.of \ DOMAIN previous.of
             /\ q.of[q.replaced[x]].required = previous.of[x].required
             /\ Plans!SameGroup(q.of[q.replaced[x]], previous.of[x])
  <2> DEFINE heir == p.replaced[x]
  <2>1. x \in DOMAIN p.replaced /\ q.replaced[x] = heir
    BY DEF Extended
  <2>2. /\ x \in DOMAIN previous.of /\ x \in wanted /\ heir \in DOMAIN p.of \ DOMAIN previous.of
        /\ p.of[heir].required = previous.of[x].required
        /\ Plans!SameGroup(p.of[heir], previous.of[x])
    BY <1>2, <1>3, <2>1 DEF Plans!ReplacesWhatWasAsked
  <2> HIDE DEF heir
  <2>3. heir \in DOMAIN q.of /\ q.of[heir] = p.of[heir]
    BY <2>2 DEF Extended
  <2>4. QED
    BY <2>1, <2>2, <2>3
<1>4. Plans!ReplacesWhatWasAsked(q, previous, wanted)
  BY <1>3 DEF Plans!ReplacesWhatWasAsked
<1>5. ASSUME NEW x \in DOMAIN previous.of
      PROVE  IF x \in DOMAIN q.of
             THEN /\ Plans!sameObservableBehavior(q.of[x], previous.of[x])
                  /\ Plans!SameGroup(q.of[x], previous.of[x])
             ELSE previous.of[x].required => x \in DOMAIN q.replaced
  <2>1. IF x \in DOMAIN p.of
        THEN Plans!sameObservableBehavior(p.of[x], previous.of[x]) /\ Plans!SameGroup(p.of[x], previous.of[x])
        ELSE previous.of[x].required => x \in DOMAIN p.replaced
    BY DEF Plans!preservesPreviousBehavior
  <2>2. CASE x \in DOMAIN p.of
    <3>1. x \in DOMAIN q.of /\ q.of[x] = p.of[x]
      BY <2>2 DEF Extended
    <3>2. QED
      BY <2>1, <2>2, <3>1
  <2>3. CASE x \notin DOMAIN p.of
    <3>1. x \notin DOMAIN q.of
      BY <2>3 DEF Extended
    <3>2. QED
      BY <2>1, <2>3, <3>1 DEF Extended
  <2>4. QED
    BY <2>2, <2>3
<1>6. QED
  BY <1>1, <1>4, <1>5 DEF Plans!preservesPreviousBehavior

\* A plan keeps what it promises.
LEMMA KeepsItself ==
    ASSUME NEW p, p # None
    PROVE  Plans!preservesPreviousBehavior(p, p, {})
BY DEF Plans!preservesPreviousBehavior, Plans!ReplacesWhatWasAsked,
       Plans!sameObservableBehavior, Plans!SameGroup

\* The ids that are left can be counted; if one is left there is one.
LEMMA PlansCardinality == \A S : Plans!Cardinality(S) = Cardinality(S)
BY Zenon DEF Plans!Cardinality, Cardinality
LEMMA UnusedFinite ==
    ASSUME NEW p
    PROVE  IsFiniteSet(Plans!Unused(p)) /\ Cardinality(Plans!Unused(p)) \in Nat
<1>1. IsFiniteSet(1..PlanIds)
  BY LineageAssumption, FS_Interval
<1>2. Plans!Unused(p) \subseteq 1..PlanIds
  BY DEF Plans!Unused, Plans!Ids
<1>3. IsFiniteSet(Plans!Unused(p))
  BY <1>1, <1>2, FS_Subset
<1>4. QED
  BY <1>3, FS_CardinalityType
LEMMA RoomLeft ==
    ASSUME NEW p, Cardinality(Plans!Unused(p)) >= 1
    PROVE  Plans!Unused(p) # {}
<1>1. Cardinality({}) = 0
  BY FS_EmptySet
<1>2. SUFFICES ASSUME Plans!Unused(p) = {} PROVE FALSE
  OBVIOUS
<1>3. Cardinality(Plans!Unused(p)) = 0
  BY <1>1, <1>2
<1>4. QED
  BY <1>3
\* What is renewed takes one id.
LEMMA UnusedRenewed ==
    ASSUME NEW p \in PlanSet, NEW b \in DOMAIN p.of, NEW id \in 1..PlanIds, NEW item, NEW q,
           b \notin DOMAIN p.replaced, Renewed(p, q, b, id, item)
    PROVE  Plans!Unused(q) = Plans!Unused(p) \ {id}
<1>1. \A x : x \in Plans!Range(q.replaced) <=> x \in Plans!Range(p.replaced) \/ x = id
  <2>1. ASSUME NEW x \in DOMAIN q.replaced
        PROVE  q.replaced[x] \in Plans!Range(p.replaced) \/ q.replaced[x] = id
    BY <2>1 DEF Renewed, Plans!Range
  <2>2. ASSUME NEW x \in DOMAIN p.replaced PROVE p.replaced[x] \in Plans!Range(q.replaced)
    <3>1. x \in DOMAIN q.replaced /\ q.replaced[x] = p.replaced[x]
      BY DEF Renewed
    <3>2. QED
      BY <3>1 DEF Plans!Range
  <2>3. id \in Plans!Range(q.replaced)
    BY DEF Renewed, Plans!Range
  <2>4. QED
    BY <2>1, <2>2, <2>3 DEF Plans!Range
<1>2. \A x : x \in Plans!Used(q) <=> x \in Plans!Used(p) \/ x = id
  <2>1. /\ DOMAIN q.of = (DOMAIN p.of \ {b}) \union {id}
        /\ DOMAIN q.replaced = DOMAIN p.replaced \union {b}
    BY DEF Renewed
  <2>2. QED
    BY <1>1, <2>1 DEF Plans!Used
<1>3. QED
  BY <1>2 DEF Plans!Unused

\* What may be changed is nothing or one behaviour.
LEMMA WishIs ==
    ASSUME NEW p \in PlanSet, NEW changed \in Plans!Wishes(p)
    PROVE  \/ changed = {} /\ Cardinality(changed) = 0
           \/ \E b \in DOMAIN p.of : changed = {b} /\ Cardinality(changed) = 1 /\ Plans!Min(changed) = b
<1>1. CASE changed = {}
  BY <1>1, FS_EmptySet
<1>2. CASE changed # {}
  <2>1. PICK b \in DOMAIN p.of : changed = {b}
    BY <1>2 DEF Plans!Wishes
  <2>2. b \in Nat
    BY PlanSetType, LineageAssumption
  <2>3. Plans!Min({b}) = b
    BY <2>2 DEF Plans!Min
  <2>4. Cardinality({b}) = 1
    BY FS_Singleton
  <2>5. QED
    BY <2>1, <2>3, <2>4
<1>3. QED
  BY <1>1, <1>2

\* How many behaviours and replacements a plan has: a renewal keeps the one number and adds
\* one to the other, an addition adds one to the first.
LEMMA PlanSizes ==
    ASSUME NEW p \in PlanSet
    PROVE  /\ IsFiniteSet(DOMAIN p.of) /\ Cardinality(DOMAIN p.of) \in Nat
           /\ IsFiniteSet(DOMAIN p.replaced) /\ Cardinality(DOMAIN p.replaced) \in Nat
<1>1. IsFiniteSet(1..PlanIds)
  BY LineageAssumption, FS_Interval
<1>2. DOMAIN p.of \subseteq 1..PlanIds /\ DOMAIN p.replaced \subseteq 1..PlanIds
  BY PlanSetType
<1>3. IsFiniteSet(DOMAIN p.of) /\ IsFiniteSet(DOMAIN p.replaced)
  BY <1>1, <1>2, FS_Subset
<1>4. QED
  BY <1>3, FS_CardinalityType
LEMMA RenewedSize ==
    ASSUME NEW p \in PlanSet, NEW b \in DOMAIN p.of, b \notin DOMAIN p.replaced, NEW id,
           id \notin DOMAIN p.of, NEW item, NEW q, Renewed(p, q, b, id, item)
    PROVE  /\ Cardinality(DOMAIN q.of) = Cardinality(DOMAIN p.of)
           /\ Cardinality(DOMAIN q.replaced) = Cardinality(DOMAIN p.replaced) + 1
<1> DEFINE others == DOMAIN p.of \ {b}
<1>1. DOMAIN q.of = others \union {id} /\ DOMAIN q.replaced = DOMAIN p.replaced \union {b}
  BY DEF Renewed
<1>2. IsFiniteSet(others) /\ Cardinality(others) = Cardinality(DOMAIN p.of) - 1
  BY PlanSizes, FS_RemoveElement
<1>3. id \notin others
  OBVIOUS
<1> HIDE DEF others
<1>4. Cardinality(others \union {id}) = Cardinality(others) + 1
  BY <1>2, <1>3, FS_AddElement
<1>5. Cardinality(DOMAIN p.replaced \union {b}) = Cardinality(DOMAIN p.replaced) + 1
  BY PlanSizes, FS_AddElement
<1>6. Cardinality(DOMAIN p.of) \in Nat
  BY PlanSizes
<1>7. QED
  BY <1>1, <1>2, <1>4, <1>5, <1>6
LEMMA ExtendedSize ==
    ASSUME NEW p \in PlanSet, NEW id, id \notin DOMAIN p.of, NEW item, NEW q, Extended(p, q, id, item)
    PROVE  /\ Cardinality(DOMAIN q.of) = Cardinality(DOMAIN p.of) + 1
           /\ Cardinality(DOMAIN q.replaced) = Cardinality(DOMAIN p.replaced)
<1>1. DOMAIN q.of = DOMAIN p.of \union {id} /\ DOMAIN q.replaced = DOMAIN p.replaced
  BY DEF Extended
<1>2. Cardinality(DOMAIN p.of \union {id}) = Cardinality(DOMAIN p.of) + 1
  BY PlanSizes, FS_AddElement
<1>3. QED
  BY <1>1, <1>2

\* An increment for which there is room is a plan that has grown by what was added and what
\* was changed; on a sound one its groups and links hold and it keeps what was promised but
\* for what is changed.
LEMMA ComposedGood ==
    ASSUME NEW p \in PlanSet, p # None, PlanLinks(p), GroupsHold(p), NEW changed \in Plans!Wishes(p),
           NEW text \in PlanTexts, NEW added \in Plans!Behaviour \union {None}, Plans!Room(p, changed, added)
    PROVE  LET q == Plans!Composed(p, changed, text, added)
           IN  /\ q \in PlanSet /\ PlanLinks(q) /\ GroupsHold(q)
               /\ Plans!preservesPreviousBehavior(q, p, changed)
               /\ Cardinality(DOMAIN q.of)
                    = Cardinality(DOMAIN p.of) + (IF added = None THEN 0 ELSE 1)
               /\ Cardinality(DOMAIN q.replaced)
                    = Cardinality(DOMAIN p.replaced) + Cardinality(changed)
<1> DEFINE mid == IF changed = {} THEN p ELSE Plans!Replacing(p, Plans!Min(changed), text)
<1>1. /\ mid \in PlanSet /\ PlanLinks(mid) /\ GroupsHold(mid)
      /\ Plans!preservesPreviousBehavior(mid, p, changed)
      /\ added # None => Plans!Unused(mid) # {}
      /\ \A x \in DOMAIN p.of : x \notin DOMAIN mid.of => x \in DOMAIN mid.replaced
      /\ Cardinality(DOMAIN mid.of) = Cardinality(DOMAIN p.of)
      /\ Cardinality(DOMAIN mid.replaced) = Cardinality(DOMAIN p.replaced) + Cardinality(changed)
  <2>1. CASE changed = {} /\ Cardinality(changed) = 0
    <3>1. mid = p
      BY <2>1
    <3>2. added # None => Cardinality(Plans!Unused(p)) >= 1
      <4>1. added # None => Cardinality(Plans!Unused(p)) >= 0 + 1
        BY <2>1, PlansCardinality DEF Plans!Room
      <4>2. QED
        BY <4>1
    <3>3. Cardinality(DOMAIN p.replaced) = Cardinality(DOMAIN p.replaced) + Cardinality(changed)
      BY <2>1, PlanSizes
    <3>4. QED
      BY <2>1, <3>1, <3>2, <3>3, RoomLeft, KeepsItself
  <2>2. ASSUME NEW b \in DOMAIN p.of, changed = {b}, Cardinality(changed) = 1, Plans!Min(changed) = b
        PROVE  /\ mid \in PlanSet /\ PlanLinks(mid) /\ GroupsHold(mid)
               /\ Plans!preservesPreviousBehavior(mid, p, changed)
               /\ added # None => Plans!Unused(mid) # {}
               /\ \A x \in DOMAIN p.of : x \notin DOMAIN mid.of => x \in DOMAIN mid.replaced
               /\ Cardinality(DOMAIN mid.of) = Cardinality(DOMAIN p.of)
               /\ Cardinality(DOMAIN mid.replaced) = Cardinality(DOMAIN p.replaced) + Cardinality(changed)
    <3> DEFINE id == Plans!Min(Plans!Unused(p))
               item == [p.of[b] EXCEPT !.text = text]
    <3>1. mid = Plans!Replacing(p, b, text)
      BY <2>2
    <3>2. Cardinality(Plans!Unused(p)) >= 1 /\ (added # None => Cardinality(Plans!Unused(p)) >= 2)
      <4>1. Cardinality(Plans!Unused(p)) >= 1 + (IF added = None THEN 0 ELSE 1)
        BY <2>2, PlansCardinality DEF Plans!Room
      <4>2. Cardinality(Plans!Unused(p)) \in Nat
        BY UnusedFinite
      <4>3. QED
        BY <4>1, <4>2
    <3>3. Plans!Unused(p) # {}
      BY <3>2, RoomLeft
    <3>4. Renewed(p, mid, b, id, item)
      BY <3>1, <3>3, ReplacingIs
    <3>5. /\ id \in 1..PlanIds /\ id \in Plans!Unused(p) /\ id \notin DOMAIN p.of /\ id \notin DOMAIN p.replaced
          /\ \A x \in DOMAIN p.replaced : p.replaced[x] # id
      BY <3>3, FirstUnused
    <3>6. item.required = p.of[b].required /\ item.group = p.of[b].group
      <4>1. p.of[b] \in PlanEntry
        BY PlanSetType
      <4>2. QED
        BY <4>1 DEF PlanEntry
    <3> HIDE DEF id, item, mid
    <3>7. PlanLinks(mid) /\ GroupsHold(mid) /\ Plans!preservesPreviousBehavior(mid, p, {b})
      BY <3>4, <3>5, <3>6, RenewedGood
    <3>8. Plans!Unused(mid) = Plans!Unused(p) \ {id}
      <4>1. b \notin DOMAIN p.replaced
        BY DEF PlanLinks
      <4>2. QED
        BY <3>4, <3>5, <4>1, UnusedRenewed
    <3>9. added # None => Plans!Unused(mid) # {}
      <4>1. Cardinality(Plans!Unused(mid)) = Cardinality(Plans!Unused(p)) - 1
        BY <3>5, <3>8, UnusedFinite, FS_RemoveElement
      <4>2. Cardinality(Plans!Unused(p)) \in Nat
        BY UnusedFinite
      <4>3. added # None => Cardinality(Plans!Unused(mid)) >= 1
        BY <3>2, <4>1, <4>2
      <4>4. QED
        BY <4>3, RoomLeft
    <3>10. mid \in PlanSet /\ \A x \in DOMAIN p.of : x \notin DOMAIN mid.of => x \in DOMAIN mid.replaced
      BY <3>4 DEF Renewed
    <3>11. /\ Cardinality(DOMAIN mid.of) = Cardinality(DOMAIN p.of)
           /\ Cardinality(DOMAIN mid.replaced) = Cardinality(DOMAIN p.replaced) + 1
      <4>1. b \notin DOMAIN p.replaced
        BY DEF PlanLinks
      <4>2. QED
        BY <3>4, <3>5, <4>1, RenewedSize
    <3>12. QED
      BY <2>2, <3>7, <3>9, <3>10, <3>11
  <2>3. QED
    BY <2>1, <2>2, WishIs
<1>2. Plans!Composed(p, changed, text, added) = IF added = None THEN mid ELSE Plans!Adding(mid, added)
  BY DEF Plans!Composed
<1> HIDE DEF mid
<1>3. CASE added = None
  <2>1. Cardinality(DOMAIN p.of) = Cardinality(DOMAIN p.of) + (IF added = None THEN 0 ELSE 1)
    BY <1>3, PlanSizes
  <2>2. QED
    BY <1>1, <1>2, <1>3, <2>1
<1>4. CASE added # None
  <2> DEFINE id == Plans!Min(Plans!Unused(mid))
             q == Plans!Adding(mid, added)
  <2>1. added \in PlanEntry
    BY <1>4 DEF Plans!Behaviour, PlanEntry
  <2>2. Extended(mid, q, id, added)
    BY <1>1, <1>4, <2>1, AddingIs
  <2>3. id \notin DOMAIN mid.of /\ id \notin DOMAIN mid.replaced
    BY <1>1, <1>4, FirstUnused
  <2> HIDE DEF id, q
  <2>4. PlanLinks(q) /\ GroupsHold(q)
    BY <1>1, <2>2, <2>3, ExtendedGood
  <2>5. id \notin DOMAIN p.of
    BY <1>1, <2>3
  <2>6. Plans!preservesPreviousBehavior(q, p, changed)
    BY <1>1, <2>2, <2>5, ExtendedKeeps
  <2>7. /\ Cardinality(DOMAIN q.of) = Cardinality(DOMAIN mid.of) + 1
        /\ Cardinality(DOMAIN q.replaced) = Cardinality(DOMAIN mid.replaced)
    BY <1>1, <2>2, <2>3, ExtendedSize
  <2>8. q \in PlanSet
    BY <2>2 DEF Extended
  <2>9. QED
    BY <1>1, <1>2, <1>4, <2>4, <2>6, <2>7, <2>8 DEF q
<1>5. QED
  BY <1>3, <1>4

-----------------------------------------------------------------------------
(* PlanLineage: what is proposed, decided and saved.                         *)

\* Parts of a plan stay parts: none, two together, what is added, what is kept.
LEMMA NoPart == ASSUME NEW E PROVE <<>> \in PlanPart(E)
<1>1. DOMAIN <<>> = {} /\ <<>> = [x \in DOMAIN <<>> |-> <<>>[x]]
  OBVIOUS
<1>2. QED
  BY <1>1, PartIs
LEMMA OverIsPart ==
    ASSUME NEW E, NEW f \in PlanPart(E), NEW g \in PlanPart(E)
    PROVE  Plans!Over(f, g) \in PlanPart(E)
<1> DEFINE h == [x \in DOMAIN f \union DOMAIN g |-> IF x \in DOMAIN f THEN f[x] ELSE g[x]]
<1>1. h = Plans!Over(f, g)
  BY DEF Plans!Over
<1>2. /\ DOMAIN f \subseteq 1..PlanIds /\ DOMAIN g \subseteq 1..PlanIds
      /\ (\A x \in DOMAIN f : f[x] \in E) /\ (\A x \in DOMAIN g : g[x] \in E)
  BY PartIs
<1>3. DOMAIN h \subseteq 1..PlanIds /\ (\A x \in DOMAIN h : h[x] \in E) /\ h = [x \in DOMAIN h |-> h[x]]
  BY <1>2
<1> HIDE DEF h
<1>4. QED
  BY <1>1, <1>3, PartIs
LEMMA BehaviourIsEntry == Plans!Behaviour \subseteq PlanEntry
BY DEF Plans!Behaviour, PlanEntry
LEMMA AdditionIsPart ==
    ASSUME NEW p, NEW what \in Plans!Additions(p)
    PROVE  what \in PlanPart(PlanEntry)
<1>1. PICK fresh \in Plans!NewIds(p) : what \in [fresh -> Plans!Behaviour]
  BY DEF Plans!Additions
<1>2. fresh \subseteq 1..PlanIds
  BY DEF Plans!NewIds, Plans!Ids
<1>3. QED
  BY <1>1, <1>2, BehaviourIsEntry, PartIs
LEMMA KeptIsPart ==
    ASSUME NEW p \in PlanSet, NEW gone, NEW kept \in Plans!KeptBehaviors(p, gone)
    PROVE  kept \in PlanPart(PlanEntry)
<1> DEFINE others == Plans!Restrict(p.of, DOMAIN p.of \ gone)
<1>1. /\ others = [x \in DOMAIN others |-> others[x]] /\ DOMAIN others = DOMAIN p.of \ gone
      /\ \A x \in DOMAIN others : others[x] = p.of[x]
  BY DEF Plans!Restrict
<1>2. \/ \E g \in PlanGroups : kept = [b \in DOMAIN others |-> [others[b] EXCEPT !.group = g]]
      \/ kept = others
      \/ \E b \in DOMAIN others, what \in Plans!Behaviour : kept = [others EXCEPT ![b] = what]
  <2>1. kept \in IF Plans!Flat(p)
                THEN {[b \in DOMAIN others |-> [others[b] EXCEPT !.group = g]] : g \in PlanGroups}
                ELSE {others} \union {[others EXCEPT ![b] = what] :
                                       b \in DOMAIN others, what \in Plans!Behaviour}
    BY DEF Plans!KeptBehaviors
  <2> HIDE DEF others
  <2>2. CASE Plans!Flat(p)
    BY <2>1, <2>2
  <2>3. CASE ~Plans!Flat(p)
    BY <2>1, <2>3
  <2>4. QED
    BY <2>2, <2>3
<1> HIDE DEF others
<1>3. DOMAIN others \subseteq 1..PlanIds /\ \A x \in DOMAIN others : others[x] \in PlanEntry
  BY <1>1, PlanSetType
<1>4. ASSUME NEW g \in PlanGroups, kept = [b \in DOMAIN others |-> [others[b] EXCEPT !.group = g]]
      PROVE  kept \in PlanPart(PlanEntry)
  <2>1. \A e \in PlanEntry : [e EXCEPT !.group = g] \in PlanEntry
    BY DEF PlanEntry
  <2>2. \A x \in DOMAIN others : kept[x] \in PlanEntry
    BY <1>3, <1>4, <2>1
  <2>3. DOMAIN kept = DOMAIN others /\ kept = [x \in DOMAIN kept |-> kept[x]]
    BY <1>4
  <2>4. QED
    BY <1>3, <2>2, <2>3, PartIs
<1>5. CASE kept = others
  BY <1>1, <1>3, <1>5, PartIs
<1>6. ASSUME NEW b \in DOMAIN others, NEW what \in Plans!Behaviour, kept = [others EXCEPT ![b] = what]
      PROVE  kept \in PlanPart(PlanEntry)
  <2>1. DOMAIN kept = DOMAIN others /\ kept = [x \in DOMAIN kept |-> kept[x]]
    BY <1>6
  <2>2. \A x \in DOMAIN others : kept[x] \in PlanEntry
    BY <1>3, <1>6, BehaviourIsEntry
  <2>3. QED
    BY <1>3, <2>1, <2>2, PartIs
<1>7. QED
  BY <1>2, <1>4, <1>5, <1>6

\* What a model may propose is a plan.
LEMMA ProposalIs ==
    ASSUME NEW p \in {None} \union PlanSet, NEW content \in Plans!Proposals(p)
    PROVE  content \in PlanSet
<1>1. CASE p = None
  <2>1. PICK what \in Plans!Additions(Plans!Nothing) : content = [of |-> what, replaced |-> <<>>]
    BY <1>1 DEF Plans!Proposals
  <2>2. QED
    BY <2>1, AdditionIsPart, NoPart, PlanIs
<1>2. CASE p # None
  <2>1. \E gone \in {x \in SUBSET DOMAIN p.of : Plans!Cardinality(x) <= 1}, what \in Plans!Additions(p) :
           content \in {[of |-> Plans!Over(kept, what), replaced |-> Plans!Over(heirs, links)] :
                        kept \in Plans!KeptBehaviors(p, gone), links \in {p.replaced, <<>>},
                        heirs \in {<<>>} \union [gone -> DOMAIN what]}
    BY <1>2 DEF Plans!Proposals
  <2>2. PICK gone \in SUBSET DOMAIN p.of, what \in Plans!Additions(p) :
           content \in {[of |-> Plans!Over(kept, what), replaced |-> Plans!Over(heirs, links)] :
                        kept \in Plans!KeptBehaviors(p, gone), links \in {p.replaced, <<>>},
                        heirs \in {<<>>} \union [gone -> DOMAIN what]}
    BY <2>1
  <2>3. PICK kept \in Plans!KeptBehaviors(p, gone), links \in {p.replaced, <<>>},
             heirs \in {<<>>} \union [gone -> DOMAIN what] :
           content = [of |-> Plans!Over(kept, what), replaced |-> Plans!Over(heirs, links)]
    BY <2>2
  <2>4. p \in PlanSet
    BY <1>2
  <2>5. what \in PlanPart(PlanEntry) /\ kept \in PlanPart(PlanEntry)
    BY <2>4, AdditionIsPart, KeptIsPart
  <2>6. links \in PlanPart(1..PlanIds)
    BY <2>4, PlanParts, NoPart
  <2>7. heirs \in PlanPart(1..PlanIds)
    <3>1. CASE heirs = <<>>
      BY <3>1, NoPart
    <3>2. CASE heirs \in [gone -> DOMAIN what]
      <4>1. gone \subseteq 1..PlanIds /\ DOMAIN what \subseteq 1..PlanIds
        BY <2>4, <2>5, PlanSetType, PartIs
      <4>2. QED
        BY <3>2, <4>1, PartIs
    <3>3. QED
      BY <3>1, <3>2
  <2>8. QED
    BY <2>3, <2>5, <2>6, <2>7, OverIsPart, PlanIs
<1>3. QED
  BY <1>1, <1>2

\* The request that waits and the run that works know the plan of what they start from.
PlanRequest ==
    [base : Nat, previous : {None} \union PlanSet, expected : Nat, since : Nat, retryOf : Nat]
PlanWork ==
    [base : Nat, previous : {None} \union PlanSet, retryOf : Nat, asked : SUBSET (1..PlanIds),
     plan : {None} \union PlanSet]
RequestInv(r) ==
    /\ r \in PlanRequest
    /\ r.base <= Len(plans) /\ r.retryOf <= Len(plans) /\ r.previous = Plans!PlanOf(r.base)
WorkInv(r) ==
    /\ r \in PlanWork
    /\ r.base <= Len(plans) /\ r.retryOf <= Len(plans) /\ r.previous = Plans!PlanOf(r.base)
    /\ r.plan # None => /\ GoodPlan(r.plan)
                        /\ Plans!preservesPreviousBehavior(r.plan, r.previous, r.asked)
PlanInv ==
    /\ VersionsInv /\ planCurrent \in 0..Len(plans)
    /\ planWaiting # None => RequestInv(planWaiting)
    /\ planWork # None => WorkInv(planWork)

\* The plan of a version is a good one.
LEMMA PlanOfType ==
    ASSUME VersionsInv, NEW v \in 0..Len(plans)
    PROVE  /\ Plans!PlanOf(v) \in {None} \union PlanSet
           /\ Plans!PlanOf(v) # None => GoodPlan(Plans!PlanOf(v))
<1>1. Len(plans) \in Nat
  BY DEF VersionsInv
<1>2. CASE v = 0
  BY <1>2 DEF Plans!PlanOf
<1>3. CASE v # 0
  <2>1. v \in 1..Len(plans) /\ Plans!PlanOf(v) = plans[v].plan
    BY <1>1, <1>3 DEF Plans!PlanOf
  <2>2. plans[v] \in PlanVersion /\ PlanVersionInv(v)
    BY <2>1, ElementOfSeq DEF VersionsInv
  <2>3. QED
    BY <2>1, <2>2 DEF PlanVersion, PlanVersionInv
<1>4. QED
  BY <1>2, <1>3

\* So is a plan of old.
LEMMA LegacyGood ==
    ASSUME NEW p \in Plans!Legacy
    PROVE  GoodPlan(p) /\ Plans!preservesPreviousBehavior(p, None, {})
<1>1. PICK r \in BOOLEAN, x \in {CHOOSE y \in PlanTexts : TRUE} :
         p = [of |-> [b \in {1} |-> [text |-> x, required |-> r, group |-> None]], replaced |-> <<>>]
  BY DEF Plans!Legacy
<1>2. x \in PlanTexts
  BY LineageAssumption
<1> DEFINE f == [b \in {1} |-> [text |-> x, required |-> r, group |-> None]]
<1>3. f \in PlanPart(PlanEntry)
  <2>1. DOMAIN f = {1} /\ f = [b \in DOMAIN f |-> f[b]] /\ f[1].group = None
    OBVIOUS
  <2>2. {1} \subseteq 1..PlanIds
    BY LineageAssumption
  <2>3. \A b \in DOMAIN f : f[b] \in PlanEntry
    BY <1>2 DEF PlanEntry
  <2> HIDE DEF f
  <2>4. QED
    BY <2>1, <2>2, <2>3, PartIs
<1>4. Plans!Flat(p)
  BY <1>1 DEF Plans!Flat
<1>5. DOMAIN p.replaced = {}
  BY <1>1
<1>6. p \in PlanSet
  <2> HIDE DEF f
  <2>1. p = [of |-> f, replaced |-> <<>>]
    BY <1>1 DEF f
  <2>2. QED
    BY <1>3, <2>1, NoPart, PlanIs
<1>7. PlanLinks(p)
  BY <1>5 DEF PlanLinks, Plans!IsInjective
<1>8. QED
  BY <1>4, <1>5, <1>6, <1>7 DEF GoodPlan, Plans!preservesPreviousBehavior

\* There is no version at first, or one of old.
LEMMA InitPlans == Plans!Init => PlanInv
<1> SUFFICES ASSUME Plans!Init PROVE PlanInv
  OBVIOUS
<1>1. CASE plans = <<>>
  <2>1. plans \in Seq(PlanVersion) /\ Len(plans) = 0
    BY <1>1
  <2>2. QED
    BY <2>1 DEF Plans!Init, PlanInv, VersionsInv
<1>2. ASSUME NEW p \in {None} \union Plans!Legacy,
             plans = <<[base |-> 0, plan |-> p, asked |-> {}, accepted |-> TRUE]>>
      PROVE  PlanInv
  <2> DEFINE first == [base |-> 0, plan |-> p, asked |-> {}, accepted |-> TRUE]
  <2>1. p \in {None} \union PlanSet
    BY LegacyGood DEF GoodPlan
  <2>2. first \in PlanVersion
    BY <2>1 DEF PlanVersion
  <2>3. /\ first.base = 0 /\ first.plan = p /\ first.asked = {}
    OBVIOUS
  <2> HIDE DEF first
  <2>4. plans \in Seq(PlanVersion) /\ Len(plans) = 1 /\ plans[1] = first
    BY <1>2, <2>2 DEF first
  <2>5. PlanVersionInv(1)
    <3>1. plans[1].base \in 0..(1 - 1) /\ plans[1].base = 0
      BY <2>3, <2>4
    <3>2. Plans!PlanOf(plans[1].base) = None
      BY <3>1 DEF Plans!PlanOf
    <3>3. p # None => GoodPlan(p) /\ Plans!preservesPreviousBehavior(p, None, {})
      BY LegacyGood
    <3>4. QED
      BY <2>3, <2>4, <3>1, <3>2, <3>3 DEF PlanVersionInv
  <2>6. VersionsInv
    BY <2>4, <2>5 DEF VersionsInv
  <2>7. QED
    BY <2>4, <2>6 DEF PlanInv, Plans!Init
<1>3. QED
  BY <1>1, <1>2 DEF Plans!Init

\* With the versions as they are, everything they are about is.
LEMMA SameRequest ==
    ASSUME UNCHANGED <<plans, planWaiting>>
    PROVE  (planWaiting # None => RequestInv(planWaiting)) => (planWaiting # None => RequestInv(planWaiting))'
BY DEF RequestInv, Plans!PlanOf
LEMMA SameWork ==
    ASSUME UNCHANGED <<plans, planWork>>
    PROVE  (planWork # None => WorkInv(planWork)) => (planWork # None => WorkInv(planWork))'
BY DEF WorkInv, Plans!PlanOf
LEMMA SameVersions == ASSUME UNCHANGED plans PROVE VersionsInv => VersionsInv'
BY DEF VersionsInv, PlanVersionInv, Plans!PlanOf

\* A plan that was decided on is well formed and keeps what the one before it promised.
LEMMA DecidedKeeps ==
    ASSUME PlanInv, planWork # None, NEW content \in {None} \union PlanSet, NEW wanted \in SUBSET (1..PlanIds),
           Plans!Decided(content, wanted), UNCHANGED <<plans, planCurrent, planWaiting>>
    PROVE  PlanInv'
<1>1. WorkInv(planWork)
  BY DEF PlanInv
<1>2. planWork' = [planWork EXCEPT !.plan = content, !.asked = wanted]
  BY DEF Plans!Decided
<1>3. Plans!WellFormed(content) /\ Plans!preservesPreviousBehavior(content, planWork.previous, wanted)
  BY DEF Plans!Decided
<1>4. /\ planWork' \in PlanWork /\ planWork'.base = planWork.base /\ planWork'.previous = planWork.previous
      /\ planWork'.retryOf = planWork.retryOf /\ planWork'.plan = content /\ planWork'.asked = wanted
  BY <1>1, <1>2 DEF WorkInv, PlanWork
<1>5. content # None => GoodPlan(content)
  BY <1>3, WellFormedIs DEF GoodPlan
<1>6. /\ planWork.base <= Len(plans) /\ planWork.retryOf <= Len(plans)
      /\ planWork.previous = Plans!PlanOf(planWork.base)
  BY <1>1 DEF WorkInv
<1>7. WorkInv(planWork)'
  BY <1>3, <1>4, <1>5, <1>6 DEF WorkInv, Plans!PlanOf
<1>8. VersionsInv' /\ (planCurrent \in 0..Len(plans))'
  BY SameVersions DEF PlanInv
<1>9. (planWaiting # None => RequestInv(planWaiting))'
  BY SameRequest DEF PlanInv
<1>10. QED
  BY <1>7, <1>8, <1>9 DEF PlanInv

\* What a request wants changed are ids.
LEMMA WishesAreIds ==
    ASSUME NEW p \in {None} \union PlanSet, NEW wanted \in Plans!Wishes(p)
    PROVE  wanted \in SUBSET (1..PlanIds)
<1>1. CASE wanted = {}
  BY <1>1
<1>2. CASE wanted # {}
  <2>1. p # None
    BY <1>2 DEF Plans!Wishes
  <2>2. p \in PlanSet /\ \E b \in DOMAIN p.of : wanted = {b}
    BY <1>2, <2>1 DEF Plans!Wishes
  <2>3. QED
    BY <2>2, PlanSetType
<1>3. QED
  BY <1>1, <1>2

\* A whole plan is submitted.
LEMMA SubmitPlanKeeps == ASSUME PlanInv, Plans!SubmitPlan PROVE PlanInv'
<1>1. planWork # None /\ UNCHANGED <<plans, planCurrent, planWaiting>>
  BY DEF Plans!SubmitPlan
<1>2. planWork.previous \in {None} \union PlanSet
  BY <1>1 DEF PlanInv, WorkInv, PlanWork
<1>3. PICK content \in Plans!Proposals(planWork.previous), wanted \in Plans!Wishes(planWork.previous) :
         Plans!Decided(content, wanted)
  BY DEF Plans!SubmitPlan
<1>4. content \in PlanSet /\ wanted \in SUBSET (1..PlanIds)
  BY <1>2, ProposalIs, WishesAreIds
<1>5. QED
  BY <1>1, <1>3, <1>4, DecidedKeeps

\* An increment is made on a plan with groups.
LEMMA IncrementOn ==
    ASSUME PlanInv, planWork # None, planWork.previous # None, ~Plans!Flat(planWork.previous)
    PROVE  /\ planWork.previous \in PlanSet /\ PlanLinks(planWork.previous) /\ GroupsHold(planWork.previous)
           /\ Plans!WithinSchema(planWork.previous)
<1>1. VersionsInv /\ WorkInv(planWork) /\ Len(plans) \in Nat
  BY DEF PlanInv, VersionsInv
<1>2. planWork.base \in 0..Len(plans) /\ planWork.previous = Plans!PlanOf(planWork.base)
  BY <1>1 DEF WorkInv, PlanWork
<1>3. GoodPlan(planWork.previous)
  BY <1>1, <1>2, PlanOfType
<1>4. QED
  BY <1>3, WellFormedIs DEF GoodPlan

\* An increment is submitted.
LEMMA SubmitIncrementKeeps == ASSUME PlanInv, Plans!SubmitIncrement PROVE PlanInv'
<1>1. /\ planWork # None /\ planWork.previous # None /\ ~Plans!Flat(planWork.previous)
      /\ UNCHANGED <<plans, planCurrent, planWaiting>>
  BY DEF Plans!SubmitIncrement
<1>2. planWork.previous \in PlanSet /\ PlanLinks(planWork.previous) /\ GroupsHold(planWork.previous)
  BY <1>1, IncrementOn
<1>3. PICK changed \in Plans!Wishes(planWork.previous), wanted \in Plans!Wishes(planWork.previous),
           text \in PlanTexts, added \in Plans!Behaviour \union {None} :
         /\ Plans!Room(planWork.previous, changed, added)
         /\ Plans!Decided(Plans!Composed(planWork.previous, changed, text, added), wanted)
  BY DEF Plans!SubmitIncrement
<1>4. Plans!Composed(planWork.previous, changed, text, added) \in PlanSet
  BY <1>1, <1>2, <1>3, ComposedGood
<1>5. wanted \in SUBSET (1..PlanIds)
  BY <1>2, WishesAreIds
<1>6. QED
  BY <1>1, <1>3, <1>4, <1>5, DecidedKeeps

\* The plan of the version that is retried is submitted again.
LEMMA SubmitReusedKeeps == ASSUME PlanInv, Plans!SubmitReused PROVE PlanInv'
<1> DEFINE v == planWork.retryOf
<1>1. planWork # None /\ UNCHANGED <<plans, planCurrent, planWaiting>> /\ v # 0
  BY DEF Plans!SubmitReused, Plans!Reusable
<1>2. plans \in Seq(PlanVersion) /\ v \in 1..Len(plans)
  BY <1>1 DEF PlanInv, VersionsInv, WorkInv, PlanWork
<1>3. plans[v] \in PlanVersion
  BY <1>2, ElementOfSeq
<1>4. plans[v].plan \in {None} \union PlanSet /\ plans[v].asked \in SUBSET (1..PlanIds)
  BY <1>3 DEF PlanVersion
<1>5. Plans!Decided(plans[v].plan, plans[v].asked)
  BY DEF Plans!SubmitReused
<1>6. QED
  BY <1>1, <1>4, <1>5, DecidedKeeps

\* A request is accepted, on the current version or on one that is continued.
LEMMA PlanAcceptKeeps == ASSUME PlanInv, Plans!Accept PROVE PlanInv'
<1>1. PICK v \in {planCurrent} \union Plans!Candidates, failed \in {0} \union Plans!Candidates :
         planWaiting' = [base |-> v, previous |-> Plans!PlanOf(v), expected |-> planCurrent,
                         since |-> Len(plans), retryOf |-> failed]
  BY DEF Plans!Accept
<1>2. UNCHANGED <<plans, planCurrent, planWork>> /\ VersionsInv /\ Len(plans) \in Nat
      /\ planCurrent \in 0..Len(plans)
  BY DEF Plans!Accept, PlanInv, VersionsInv
<1>3. Plans!Candidates \subseteq 0..Len(plans)
  BY <1>2 DEF Plans!Candidates, VersionsInv
<1>4. v \in 0..Len(plans) /\ failed \in 0..Len(plans)
  BY <1>2, <1>3
<1>5. Plans!PlanOf(v) \in {None} \union PlanSet
  BY <1>2, <1>4, PlanOfType
<1>6. /\ planWaiting' \in PlanRequest /\ planWaiting'.base = v /\ planWaiting'.retryOf = failed
      /\ planWaiting'.previous = Plans!PlanOf(v)
  <2> DEFINE content == Plans!PlanOf(v)
  <2> HIDE DEF content
  <2>1. content \in {None} \union PlanSet
    BY <1>5 DEF content
  <2>2. planWaiting' = [base |-> v, previous |-> content, expected |-> planCurrent,
                        since |-> Len(plans), retryOf |-> failed]
    BY <1>1 DEF content
  <2>3. v \in Nat /\ failed \in Nat /\ planCurrent \in Nat
    BY <1>2, <1>4
  <2>4. planWaiting' \in PlanRequest
    BY <1>2, <2>1, <2>2, <2>3 DEF PlanRequest
  <2>5. QED
    BY <2>2, <2>4 DEF content
<1>7. RequestInv(planWaiting)'
  BY <1>2, <1>4, <1>6 DEF RequestInv, Plans!PlanOf
<1>8. VersionsInv' /\ (planCurrent \in 0..Len(plans))'
  BY <1>2, SameVersions
<1>9. (planWork # None => WorkInv(planWork))'
  BY <1>2, SameWork DEF PlanInv
<1>10. QED
  BY <1>7, <1>8, <1>9 DEF PlanInv

\* A request is dispatched with the plan of the version that it starts from.
LEMMA RunIs ==
    ASSUME NEW r, RequestInv(r), Len(plans) \in Nat
    PROVE  WorkInv(Plans!Run(r))
BY DEF RequestInv, PlanRequest, WorkInv, PlanWork, Plans!Run

\* A request that waited is put on what is current by then.
LEMMA RebasedIs ==
    ASSUME VersionsInv, planCurrent \in 0..Len(plans), NEW r, RequestInv(r)
    PROVE  RequestInv(Plans!Rebased(r))
<1> DEFINE content == Plans!PlanOf(planCurrent)
           s == Plans!Rebased(r)
<1>1. s = [r EXCEPT !.base = planCurrent, !.previous = content]
  BY DEF Plans!Rebased
<1>2. content \in {None} \union PlanSet
  BY PlanOfType
<1>3. planCurrent \in Nat /\ planCurrent <= Len(plans)
  BY DEF VersionsInv
<1> HIDE DEF content, s
<1>4. s \in PlanRequest /\ s.base = planCurrent /\ s.previous = content /\ s.retryOf = r.retryOf
  BY <1>1, <1>2, <1>3 DEF RequestInv, PlanRequest
<1>5. RequestInv(s)
  BY <1>3, <1>4 DEF RequestInv, content
<1>6. QED
  BY <1>5 DEF s

\* A request is dispatched.
LEMMA DispatchKeeps == ASSUME PlanInv, Plans!prepareDispatch PROVE PlanInv'
<1>1. /\ planWaiting # None /\ planWork = None /\ planWaiting' = None /\ UNCHANGED <<plans, planCurrent>>
      /\ VersionsInv /\ planCurrent \in 0..Len(plans) /\ RequestInv(planWaiting) /\ Len(plans) \in Nat
  BY DEF Plans!prepareDispatch, PlanInv, VersionsInv
<1>2. (planWork # None => WorkInv(planWork))'
  <2>1. CASE UNCHANGED planWork
    BY <1>1, <2>1
  <2>2. CASE planWork' = Plans!Run(planWaiting)
    <3>1. WorkInv(Plans!Run(planWaiting))
      BY <1>1, RunIs
    <3>2. QED
      BY <1>1, <2>2, <3>1 DEF WorkInv, Plans!PlanOf
  <2>3. CASE planWork' = Plans!Run(Plans!Rebased(planWaiting))
    <3>1. WorkInv(Plans!Run(Plans!Rebased(planWaiting)))
      BY <1>1, RunIs, RebasedIs
    <3>2. QED
      BY <1>1, <2>3, <3>1 DEF WorkInv, Plans!PlanOf
  <2>4. QED
    BY <2>1, <2>2, <2>3 DEF Plans!prepareDispatch
<1>3. QED
  BY <1>1, <1>2, SameVersions DEF PlanInv

\* A version is added with the plan and the base of its run.
LEMMA SavedKeeps ==
    ASSUME VersionsInv, planWork # None, planWork.plan # None, WorkInv(planWork), NEW ok \in BOOLEAN,
           plans' = Plans!Saved(ok)
    PROVE  /\ VersionsInv' /\ Len(plans') = Len(plans) + 1 /\ Len(plans) \in Nat
           /\ \A v \in 0..Len(plans) : Plans!PlanOf(v)' = Plans!PlanOf(v)
<1>1. PICK new : new = [base |-> planWork.base, plan |-> planWork.plan,
                        asked |-> planWork.asked, accepted |-> ok]
  OBVIOUS
<1>2. PICK n : n = Len(plans)
  OBVIOUS
<1>3. plans \in Seq(PlanVersion) /\ n \in Nat /\ plans' = Append(plans, new)
  BY <1>1, <1>2 DEF VersionsInv, Plans!Saved
<1>4. new \in PlanVersion /\ new.base \in 0..n
  BY <1>1, <1>2, <1>3 DEF WorkInv, PlanWork, PlanVersion
<1>5. /\ GoodPlan(new.plan) /\ new.plan # None
      /\ Plans!preservesPreviousBehavior(new.plan, Plans!PlanOf(new.base), new.asked)
  BY <1>1 DEF WorkInv
<1>6. /\ plans' \in Seq(PlanVersion) /\ Len(plans') = n + 1 /\ plans'[n + 1] = new
      /\ \A v \in 1..n : plans'[v] = plans[v]
  BY <1>2, <1>3, <1>4
<1>7. \A v \in 0..n : Plans!PlanOf(v)' = Plans!PlanOf(v)
  <2>1. ASSUME NEW v \in 0..n PROVE Plans!PlanOf(v)' = Plans!PlanOf(v)
    <3>1. CASE v = 0
      BY <3>1 DEF Plans!PlanOf
    <3>2. CASE v # 0
      <4>1. v \in 1..n
        BY <1>3, <3>2
      <4>2. QED
        BY <1>6, <4>1 DEF Plans!PlanOf
    <3>3. QED
      BY <3>1, <3>2
  <2>2. QED
    BY <2>1
<1>8. ASSUME NEW v \in 1..n PROVE PlanVersionInv(v)'
  <2>1. PlanVersionInv(v) /\ plans'[v] = plans[v]
    BY <1>2, <1>6 DEF VersionsInv
  <2>2. plans[v].base \in 0..n
    BY <1>3, <2>1 DEF PlanVersionInv
  <2>3. Plans!PlanOf(plans[v].base)' = Plans!PlanOf(plans[v].base)
    BY <1>6, <1>7, <2>1, <2>2 DEF Plans!PlanOf
  <2>4. QED
    BY <2>1, <2>3 DEF PlanVersionInv
<1>9. PlanVersionInv(n + 1)'
  <2>1. plans'[n + 1] = new
    BY <1>6
  <2>2. Plans!PlanOf(new.base)' = Plans!PlanOf(new.base)
    BY <1>4, <1>7
  <2>3. Plans!PlanOf(plans[n + 1].base)' = Plans!PlanOf(new.base)
    BY <2>1, <2>2 DEF Plans!PlanOf
  <2>4. new.base \in 0..((n + 1) - 1)
    BY <1>3, <1>4
  <2>5. QED
    BY <1>5, <2>1, <2>3, <2>4 DEF PlanVersionInv
<1>10. VersionsInv'
  <2>1. ASSUME NEW v \in 1..(n + 1) PROVE PlanVersionInv(v)'
    <3>1. CASE v \in 1..n
      BY <1>8, <3>1
    <3>2. CASE v \notin 1..n
      <4>1. v = n + 1
        BY <1>3, <3>2
      <4>2. QED
        BY <1>9, <4>1
    <3>3. QED
      BY <3>1, <3>2
  <2>2. QED
    BY <1>6, <2>1 DEF VersionsInv
<1>11. QED
  BY <1>2, <1>3, <1>6, <1>7, <1>10

\* The work is over, with a version or without.
LEMMA PlanFinishKeeps ==
    ASSUME PlanInv, Plans!FinishAccepted \/ Plans!FinishCandidate \/ Plans!FinishWithout
    PROVE  PlanInv'
<1>1. planWork # None /\ planWork' = None /\ UNCHANGED planWaiting
  BY DEF Plans!FinishAccepted, Plans!FinishCandidate, Plans!FinishWithout
<1>2. CASE UNCHANGED <<plans, planCurrent>>
  BY <1>1, <1>2, SameVersions, SameRequest DEF PlanInv
<1>3. ASSUME NEW ok \in BOOLEAN, plans' = Plans!Saved(ok), planWork.plan # None,
             planCurrent' = Len(plans') \/ UNCHANGED planCurrent
      PROVE  PlanInv'
  <2>1. /\ VersionsInv' /\ Len(plans') = Len(plans) + 1 /\ Len(plans) \in Nat
        /\ \A v \in 0..Len(plans) : Plans!PlanOf(v)' = Plans!PlanOf(v)
    BY <1>1, <1>3, SavedKeeps DEF PlanInv
  <2>2. planCurrent' \in 0..Len(plans')
    BY <1>3, <2>1 DEF PlanInv
  <2>3. ASSUME planWaiting # None PROVE RequestInv(planWaiting)'
    <3>1. RequestInv(planWaiting)
      BY <2>3 DEF PlanInv
    <3>2. planWaiting.base \in 0..Len(plans) /\ planWaiting.retryOf \in Nat
      BY <2>1, <3>1 DEF RequestInv, PlanRequest
    <3>3. Plans!PlanOf(planWaiting.base)' = Plans!PlanOf(planWaiting.base)
      BY <1>1, <2>1, <3>2 DEF Plans!PlanOf
    <3>4. planWaiting.base <= Len(plans') /\ planWaiting.retryOf <= Len(plans')
      BY <2>1, <3>1, <3>2 DEF RequestInv
    <3>5. QED
      BY <1>1, <3>1, <3>3, <3>4 DEF RequestInv
  <2>4. QED
    BY <1>1, <2>1, <2>2, <2>3 DEF PlanInv
<1>4. CASE Plans!FinishAccepted
  BY <1>3, <1>4 DEF Plans!FinishAccepted
<1>5. CASE Plans!FinishCandidate
  BY <1>3, <1>5 DEF Plans!FinishCandidate
<1>6. CASE Plans!FinishWithout
  BY <1>2, <1>6 DEF Plans!FinishWithout
<1>7. QED
  BY <1>4, <1>5, <1>6

\* An older version becomes the current one.
LEMMA RollbackKeeps == ASSUME PlanInv, Plans!Rollback PROVE PlanInv'
<1>1. UNCHANGED <<plans, planWaiting, planWork>> /\ planCurrent' \in DOMAIN plans
  BY DEF Plans!Rollback
<1>2. DOMAIN plans = 1..Len(plans) /\ Len(plans) \in Nat
  BY DEF PlanInv, VersionsInv
<1>3. planCurrent' \in 0..Len(plans')
  BY <1>1, <1>2
<1>4. QED
  BY <1>1, <1>3, SameVersions, SameRequest, SameWork DEF PlanInv

\* Every step keeps the invariant, and the properties follow from it.
LEMMA NextPlans == PlanInv /\ Plans!Next => PlanInv'
BY SubmitPlanKeeps, SubmitIncrementKeeps, SubmitReusedKeeps, PlanAcceptKeeps, DispatchKeeps,
   PlanFinishKeeps, RollbackKeeps DEF Plans!Next

LEMMA PlansProperty ==
    PlanInv => Plans!PromisesKept /\ Plans!IncrementIsWhole /\ Plans!TypeOK
<1> SUFFICES ASSUME PlanInv PROVE Plans!PromisesKept /\ Plans!IncrementIsWhole /\ Plans!TypeOK
  OBVIOUS
<1>1. VersionsInv /\ Len(plans) \in Nat /\ DOMAIN plans = 1..Len(plans)
  BY DEF PlanInv, VersionsInv
<1>2. Plans!PromisesKept
  BY <1>1, PromisesProperty
<1>3. Plans!IncrementIsWhole
  <2>1. ASSUME planWork # None, planWork.previous # None, ~Plans!Flat(planWork.previous),
               NEW changed \in Plans!Wishes(planWork.previous), NEW text \in PlanTexts,
               NEW added \in Plans!Behaviour \union {None}, Plans!Admits(planWork.previous, changed, added),
               Plans!PlanBytes(Plans!Composed(planWork.previous, changed, text, added)) <= MostPlanBytes
        PROVE  LET q == Plans!Composed(planWork.previous, changed, text, added)
               IN  Plans!WellFormed(q) /\ Plans!preservesPreviousBehavior(q, planWork.previous, changed)
    <3> DEFINE p == planWork.previous
               q == Plans!Composed(p, changed, text, added)
    <3>1. p \in PlanSet /\ PlanLinks(p) /\ GroupsHold(p) /\ Plans!WithinSchema(p)
      BY <2>1, IncrementOn
    <3>2. /\ Plans!Room(p, changed, added)
          /\ added # None => Cardinality(DOMAIN p.of) < MostPlanned
          /\ Cardinality(DOMAIN p.replaced) + Cardinality(changed) <= MostReplaced
      BY <2>1, PlansCardinality DEF Plans!Admits
    <3>3. /\ q \in PlanSet /\ PlanLinks(q) /\ GroupsHold(q)
          /\ Plans!preservesPreviousBehavior(q, p, changed)
          /\ Cardinality(DOMAIN q.of) = Cardinality(DOMAIN p.of) + (IF added = None THEN 0 ELSE 1)
          /\ Cardinality(DOMAIN q.replaced) = Cardinality(DOMAIN p.replaced) + Cardinality(changed)
      BY <2>1, <3>1, <3>2, ComposedGood
    <3>4. Cardinality(DOMAIN p.of) <= MostPlanned
      BY <3>1, PlansCardinality DEF Plans!WithinSchema
    <3>5. Plans!PlanBytes(q) <= MostPlanBytes
      BY <2>1
    <3> HIDE DEF p, q
    <3>6. Cardinality(DOMAIN q.of) <= MostPlanned
      BY <3>1, <3>2, <3>3, <3>4, PlanSizes, LineageAssumption
    <3>7. Cardinality(DOMAIN q.replaced) <= MostReplaced
      BY <3>2, <3>3
    <3>8. Plans!WithinSchema(q)
      BY <3>5, <3>6, <3>7, PlansCardinality DEF Plans!WithinSchema
    <3>9. Plans!WellFormed(q)
      BY <3>3, <3>8, WellFormedIs
    <3>10. QED
      BY <3>3, <3>9 DEF p, q
  <2>2. QED
    BY <2>1 DEF Plans!IncrementIsWhole
<1>4. ASSUME NEW p \in Plans!Plans \ {None} PROVE GoodPlan(p)
  <2>1. CASE \E v \in DOMAIN plans : p = Plans!PlanOf(v)
    <3>1. PICK v \in DOMAIN plans : p = Plans!PlanOf(v)
      BY <2>1
    <3>2. v \in 0..Len(plans)
      BY <1>1
    <3>3. QED
      BY <1>1, <1>4, <3>1, <3>2, PlanOfType
  <2>2. CASE planWork # None /\ p = planWork.plan
    BY <1>4, <2>2 DEF PlanInv, WorkInv
  <2>3. QED
    BY <1>4, <2>1, <2>2 DEF Plans!Plans
<1>5. ASSUME NEW p \in Plans!Plans \ {None}
      PROVE  /\ DOMAIN p.of \subseteq Plans!Ids /\ DOMAIN p.replaced \subseteq Plans!Ids
             /\ Plans!Flat(p) \/ \A b \in DOMAIN p.of : p.of[b] \in Plans!Behaviour
  <2>1. GoodPlan(p)
    BY <1>4
  <2>2. DOMAIN p.of \subseteq 1..PlanIds /\ DOMAIN p.replaced \subseteq 1..PlanIds
    BY <2>1, PlanSetType DEF GoodPlan
  <2>3. ASSUME ~Plans!Flat(p), NEW b \in DOMAIN p.of PROVE p.of[b] \in Plans!Behaviour
    <3>1. p.of[b] \in PlanEntry
      BY <2>1, PlanSetType DEF GoodPlan
    <3>2. p.of[b].group # None
      BY <2>3 DEF Plans!Flat
    <3>3. QED
      BY <3>1, <3>2 DEF PlanEntry, Plans!Behaviour
  <2>4. QED
    BY <2>2, <2>3 DEF Plans!Ids
<1>6. Plans!TypeOK
  BY <1>5 DEF PlanInv, Plans!TypeOK
<1>7. QED
  BY <1>2, <1>3, <1>6

-----------------------------------------------------------------------------
(* Limits, in the component of the behaviour.                                *)

LimitsInv ==
    /\ part = "Tokens" => TokenInv
    /\ part = "Capacity" => CapacityInv
    /\ part = "Summary" => NoteInv
    /\ part = "Browser" => BrowserInv
    /\ part = "Workspace" => WorkspaceInv
    /\ part = "Plans" => PlanInv

\* A behaviour starts with one component's initial state.
LEMMA InitLimits == Init => LimitsInv
<1> SUFFICES ASSUME Init PROVE LimitsInv
  OBVIOUS
<1>1. /\ part = "Tokens" => Tokens!Init
      /\ part = "Capacity" => Capacity!Init
      /\ part = "Summary" => Summary!Init
      /\ part = "Browser" => Browser!Init
      /\ part = "Workspace" => Workspace!Init
      /\ part = "Plans" => Plans!Init
  BY DEF Init
<1>2. QED
  BY <1>1, InitTokens, InitCapacity, InitNote, InitBrowser, InitWorkspace, InitPlans DEF LimitsInv

\* A component of another behaviour stays as it is.
LEMMA TokensSame == UNCHANGED TokensVars /\ TokenInv => TokenInv'
<1> SUFFICES ASSUME UNCHANGED TokensVars, TokenInv PROVE TokenInv'
  OBVIOUS
<1>1. UNCHANGED <<tokensPhase, reserved, accounted, charged, sample, tokensPending, tokensUsed>>
  BY DEF TokensVars
<1>2. TokenTypes' /\ \A s \in TokenStreams : StreamInv(s)'
  BY <1>1 DEF TokenInv, TokenTypes, StreamInv
<1>3. Sent' = Sent
  BY <1>1 DEF Sent
<1>4. Beyond' = Beyond
  BY <1>1 DEF Beyond, Tokens!Excess
<1>5. LedgerInv'
  BY <1>1, <1>3, <1>4 DEF TokenInv, LedgerInv
<1>6. QED
  BY <1>2, <1>5 DEF TokenInv
LEMMA CapacitySame == UNCHANGED CapacityVars /\ CapacityInv => CapacityInv'
BY DEF CapacityVars, CapacityInv
LEMMA NoteSame == UNCHANGED SummaryVars /\ NoteInv => NoteInv'
<1> SUFFICES ASSUME UNCHANGED SummaryVars, NoteInv PROVE NoteInv'
  OBVIOUS
<1>1. UNCHANGED <<summaryItem, summaryEvents, base, summaryPhase, index, bytes, truncated,
                  summaryOutcome>>
  BY DEF SummaryVars
<1>2. NoteTypes'
  BY <1>1 DEF NoteInv, NoteTypes
<1>3. NoteWhole'
  BY <1>1 DEF NoteInv, NoteWhole
<1>4. QED
  BY <1>1, <1>2, <1>3 DEF NoteInv
LEMMA BrowserSame == UNCHANGED BrowserVars /\ BrowserInv => BrowserInv'
BY DEF BrowserVars, BrowserInv, BrowserTypes, FlightInv, ClosedInv
LEMMA WorkspaceSame == UNCHANGED WorkspaceVars /\ WorkspaceInv => WorkspaceInv'
BY DEF WorkspaceVars, WorkspaceInv, WorkspaceTypes, ResourceTypes, LeaseTypes, ShellTypes,
       ResourceInv, ShellInv, LeaseInv
LEMMA PlansSame == UNCHANGED PlansVars /\ PlanInv => PlanInv'
<1> SUFFICES ASSUME UNCHANGED PlansVars, PlanInv PROVE PlanInv'
  OBVIOUS
<1>1. UNCHANGED <<plans, planCurrent, planWaiting, planWork>>
  BY DEF PlansVars
<1>2. VersionsInv' /\ planCurrent' \in 0..Len(plans')
  BY <1>1, SameVersions DEF PlanInv
<1>3. (planWaiting # None => RequestInv(planWaiting))'
  BY <1>1, SameRequest DEF PlanInv
<1>4. (planWork # None => WorkInv(planWork))'
  BY <1>1, SameWork DEF PlanInv
<1>5. QED
  BY <1>2, <1>3, <1>4 DEF PlanInv

\* A step is one of the behaviour's component.
LEMMA NextLimits == ASSUME LimitsInv, [Next]_vars PROVE LimitsInv'
<1>1. CASE Next
  <2>1. /\ UNCHANGED part
        /\ part = "Tokens" => Tokens!Next
        /\ part = "Capacity" => Capacity!Next
        /\ part = "Summary" => Summary!Next
        /\ part = "Browser" => Browser!Next
        /\ part = "Workspace" => Workspace!Next
        /\ part = "Plans" => Plans!Next
    BY <1>1 DEF Next
  <2>2. QED
    BY <2>1, NextTokens, NextCapacity, NextNote, NextBrowser, NextWorkspace, NextPlans
       DEF LimitsInv
<1>2. CASE UNCHANGED vars
  BY <1>2, TokensSame, CapacitySame, NoteSame, BrowserSame, WorkspaceSame, PlansSame
     DEF vars, LimitsInv
<1>3. QED
  BY <1>1, <1>2

\* What was reserved covers what was spent; a split of a plan can be carried out; a note
\* that is not marked is whole; a browser and a sandbox that are confirmed gone are gone;
\* the output of a command is read whole and a lease is never reported longer than it is;
\* and every version keeps what those before it promised and leaves ids for an increment.
THEOREM LimitsAlwaysHold == Spec => []LimitsHold
<1>1. LimitsInv => LimitsHold
  BY TokensProperty, CapacityProperty, NoteProperty, BrowserProperty, WorkspaceProperty,
     PlansProperty DEF LimitsInv, LimitsHold
<1>2. LimitsInv /\ [Next]_vars => LimitsInv'
  BY NextLimits
<1>3. QED
  BY <1>1, <1>2, InitLimits, PTL DEF Spec

\* The variables of these components have their types.
THEOREM LimitTypesHold ==
    Spec => [](/\ part = "Tokens" => Tokens!TypeOK
               /\ part = "Capacity" => Capacity!CapacityTypeOK
               /\ part = "Summary" => Summary!SummaryTypeOK
               /\ part = "Browser" => Browser!TypeOK
               /\ part = "Workspace" => Workspace!TypeOK
               /\ part = "Plans" => Plans!TypeOK)
<1>1. LimitsInv => /\ part = "Tokens" => Tokens!TypeOK
                   /\ part = "Capacity" => Capacity!CapacityTypeOK
                   /\ part = "Summary" => Summary!SummaryTypeOK
                   /\ part = "Browser" => Browser!TypeOK
                   /\ part = "Workspace" => Workspace!TypeOK
                   /\ part = "Plans" => Plans!TypeOK
  BY TokensProperty, CapacityProperty, NoteProperty, BrowserProperty, WorkspaceProperty,
     PlansProperty DEF LimitsInv
<1>2. LimitsInv /\ [Next]_vars => LimitsInv'
  BY NextLimits
<1>3. QED
  BY <1>1, <1>2, InitLimits, PTL DEF Spec
=============================================================================
