----------------------- MODULE CandidateSessionProofs -----------------------
(***************************************************************************)
(* For every budget that keeps Budgets, and any number of requests and     *)
(* waiting reports: the lease of a candidate does not lapse under it,      *)
(* nobody believes in a longer one, and its log has no gap.                *)
(***************************************************************************)
EXTENDS CandidateSession, TLAPS

Kinds == {"noise", "generating", "stream", "tool", "retry", "building", "previewing"}
Reports == [kind : Kinds, request : Nat]
Stages == {"creating", "created", "preparing", "making", "building", "flushing", "retaining",
           "retained", "ending", "draining", "ended"}
Types ==
    /\ stage \in Stages
    /\ serving \in {"idle", "renewing", "registering", "saving"}
    /\ remote \in 0..Segment /\ row \in 0..Segment /\ handle \in 0..Segment
    /\ asked \in 0..Segment \union {None}
    /\ silent \in Nat /\ overlong \in BOOLEAN /\ slow \in 0..2
    /\ idle \in 0..Idle /\ (stage = "creating" => idle = Idle) /\ request \in 1..(MaxRequests + 1)
    /\ signal \in {None, "CANCELLED", "RUN_TIMEOUT"}
    /\ eventFailure \in BOOLEAN /\ leaseFailure \in BOOLEAN /\ record \in {"all", "cut", "gap"}

\* The chain is busy only with a report, and only while nothing has failed; what was not
\* saved is known to have failed.  A call of the chain takes a unit at most, and where no
\* call is under way none is counted; a silence ends with a report, and is forgotten when
\* it has been dealt with.
ChainInv ==
    /\ serving # "idle" => reports # <<>> /\ ~Latched
    /\ serving \in {"renewing", "registering"} => asked # None
    /\ stage \in {"creating", "created", "retaining", "retained"} => reports = <<>>
    /\ stage \in {"creating", "created"} => silent = 0 /\ ~overlong
    /\ stage = "creating" => slow = 0
    /\ reports # <<>> => silent = 0
    /\ stage = "flushing" /\ reports = <<>> => silent = 0 /\ ~overlong
    /\ stage = "retaining" => silent = 0
    /\ Underway /\ stage # "retaining" /\ serving = "idle" => slow = 0
    /\ Underway /\ serving # "idle" => slow <= 1
    /\ stage = "retained" => ~Aborted
    /\ record = "cut" => Latched
    /\ record # "gap"

\* How much of the lease is left at the least, by what has happened since it was looked at:
\* nothing but a silence, or a silence and the calls of a renewal.
Alive == Underway /\ ~Aborted
ClockInv ==
    /\ stage = "created" => handle = row /\ row + slow >= Segment
    /\ Alive \/ stage = "retained" => handle <= row /\ row <= remote
    /\ Alive /\ ~overlong /\ stage # "retaining" /\ reports = <<>> => handle + silent >= Threshold
    /\ Alive /\ ~overlong /\ stage # "retaining" /\ serving = "idle" => handle + Request >= Threshold
    /\ Alive /\ ~overlong /\ serving = "renewing" => handle + slow + Request >= Threshold
    /\ Alive /\ serving = "renewing" => asked + slow >= Segment
    /\ Alive /\ ~overlong /\ serving = "registering" => handle + slow + 1 + Request >= Threshold
    /\ Alive /\ serving = "registering" => asked + slow + 1 >= Segment /\ asked <= remote
    /\ Alive /\ serving = "saving" => handle + slow > Threshold
    /\ Alive /\ stage = "retaining" => handle + slow >= Threshold
    /\ stage = "retained" => handle > 0
Queued == reports \in Seq(Reports)
IInv == Types /\ Queued /\ ChainInv /\ ClockInv

-----------------------------------------------------------------------------
(* Types.                                                                    *)

\* The budgets one by one.
LEMMA BudgetTypes ==
    /\ Initial \in Nat /\ Segment \in Nat /\ Threshold \in Nat /\ Request \in Nat
    /\ Idle \in Nat /\ MaxRequests \in Nat
    /\ Initial <= Segment /\ Initial < Idle /\ Request > 0
    /\ Threshold > Request + 2 /\ Segment > Threshold + 2
    /\ None \notin Nat /\ None # "CANCELLED" /\ None # "RUN_TIMEOUT"
BY Budgets DEF Budgets

\* What is reported is a report.
LEMMA ReportTyped ==
    ASSUME Types, NEW kind \in Kinds
    PROVE  Report(kind) \in Reports
BY BudgetTypes DEF Types, Report, Reports

\* Every step keeps the types.
LEMMA TypesKept ==
    ASSUME Types, [Next]_candidate
    PROVE  Types'
<1>0. CASE UNCHANGED candidate
  BY <1>0, BudgetTypes DEF Types, candidate, lease, silence, progress, failures, Stages
<1>1. CASE Create
  <2>1. remote' \in 0..Segment /\ idle' \in 0..Idle
    <3>1. CASE \E ready \in 0..Initial : remote' = Initial - ready /\ idle' = idle - ready
      <4>1. PICK ready \in 0..Initial : remote' = Initial - ready /\ idle' = idle - ready
        BY <3>1
      <4>2. stage = "creating"
        BY <1>1 DEF Create
      <4>3. QED
        BY <4>1, <4>2, BudgetTypes DEF Types
    <3>2. CASE UNCHANGED <<remote, idle>>
      BY <3>2, BudgetTypes DEF Types
    <3>3. QED
      BY <1>1, <3>1, <3>2 DEF Create
  <2>2. row' \in 0..Segment /\ handle' \in 0..Segment /\ stage' \in Stages /\ stage' # "creating"
    BY <1>1, BudgetTypes DEF Types, Create, Stages
  <2>3. QED
    BY <1>1, <2>1, <2>2 DEF Types, Create, silence, progress, failures
<1>2. CASE Provision
  BY <1>2, BudgetTypes DEF Types, Provision, lease, silence, progress, failures, Stages
<1>3. CASE Prepare
  BY <1>3, BudgetTypes DEF Types, Prepare, Proceed, lease, silence, progress, failures, Stages
<1>4. CASE Emit
  BY <1>4, BudgetTypes DEF Types, Emit, lease, silence, progress, failures, Stages
<1>5. CASE StartBuild
  BY <1>5, BudgetTypes DEF Types, StartBuild, Proceed, lease, silence, progress, failures, Stages
<1>6. CASE FinishBuild
  BY <1>6, BudgetTypes DEF Types, FinishBuild, Proceed, lease, silence, progress, failures, Stages
<1>7. CASE Drop
  <2>1. slow' = 0 /\ overlong' \in BOOLEAN
    BY <1>7 DEF Drop, Done
  <2>2. QED
    BY <1>7, <2>1, BudgetTypes DEF Types, Drop, Done, lease, progress, failures
<1>8. CASE BeginRenewal
  BY <1>8, BudgetTypes DEF Types, BeginRenewal, Measured, lease, silence, progress, failures, Stages
<1>9. CASE BeginSaving
  BY <1>9, BudgetTypes DEF Types, BeginSaving, lease, silence, progress, failures, Stages
<1>10. CASE RenewLease
  <2>1. remote' \in 0..Segment
    BY <1>10, BudgetTypes DEF Types, RenewLease
  <2>2. CASE LeaseFails
    <3>1. overlong' \in BOOLEAN
      BY <2>2 DEF LeaseFails, Done
    <3>2. QED
      BY <1>10, <2>1, <2>2, <3>1, BudgetTypes DEF Types, RenewLease, LeaseFails, Done, progress
  <2>3. CASE ~LeaseFails
    BY <1>10, <2>1, <2>3 DEF Types, RenewLease, progress, failures
  <2>4. QED
    BY <2>2, <2>3
<1>11. CASE RegisterRenewal
  <2>1. Renewed \in 0..Segment
    BY BudgetTypes DEF Types, Renewed
  <2>2. CASE LeaseFails /\ UNCHANGED handle
    <3>1. overlong' \in BOOLEAN
      BY <2>2 DEF LeaseFails, Done
    <3>2. QED
      BY <1>11, <3>1, <2>1, <2>2, BudgetTypes DEF Types, RegisterRenewal, LeaseFails, Done, progress
  <2>3. CASE ~(LeaseFails /\ UNCHANGED handle)
    BY <1>11, <2>1, <2>3 DEF Types, RegisterRenewal, progress, failures
  <2>4. QED
    BY <2>2, <2>3
<1>12. CASE SaveEvent
  <2>1. stage' \in Stages /\ serving' = "idle" /\ slow' = 0 /\ overlong' \in BOOLEAN
        /\ UNCHANGED <<remote, row, handle, asked, silent, request>>
    BY <1>12 DEF Types, SaveEvent, Done, lease
  <2>2. idle' \in 0..Idle /\ (stage = "creating" => idle' = Idle)
    BY <1>12, BudgetTypes DEF Types, SaveEvent, PutOff
  <2>3. UNCHANGED signal /\ eventFailure' \in BOOLEAN /\ UNCHANGED leaseFailure /\ record' \in {"all", "cut", "gap"}
    BY <1>12 DEF Types, SaveEvent, failures
  <2>4. stage' = stage
    BY <1>12 DEF SaveEvent
  <2>5. QED
    BY <2>1, <2>2, <2>3, <2>4 DEF Types
<1>13. CASE Break
  BY <1>13, BudgetTypes DEF Types, Break, lease, silence, progress, failures, Stages
<1>14. CASE Flush
  BY <1>14, BudgetTypes DEF Types, Flush, Flushed, lease, silence, progress, failures, Stages
<1>15. CASE Retain
  BY <1>15, BudgetTypes DEF Types, Retain, lease, silence, progress, failures, Stages
<1>16. CASE AbortDestroy
  BY <1>16, BudgetTypes DEF Types, AbortDestroy, lease, silence, progress, failures, Stages
<1>17. CASE Destroy
  BY <1>17, BudgetTypes DEF Types, Destroy, lease, silence, progress, failures, Stages
<1>18. CASE End
  BY <1>18, BudgetTypes DEF Types, End, lease, silence, progress, failures, Stages
<1>19. CASE Cancel
  BY <1>19, BudgetTypes DEF Types, Cancel, lease, silence, progress, failures, Stages
<1>20. CASE Sweep
  BY <1>20, BudgetTypes DEF Types, Sweep, lease, silence, progress, failures, Stages
<1>21. CASE Tick
  <2>1. overlong' \in BOOLEAN
    BY <1>21 DEF Tick
  <2>2. slow' \in 0..2
    BY <1>21 DEF Types, Tick, Calls
  <2>3. remote' \in 0..Segment /\ row' \in 0..Segment /\ handle' \in 0..Segment /\ idle' \in 0..Idle
        /\ asked' \in 0..Segment \union {None}
    BY <1>21, BudgetTypes DEF Types, Tick, Down
  <2>4. silent' \in Nat /\ signal' \in {None, "CANCELLED", "RUN_TIMEOUT"}
    BY <1>21 DEF Types, Tick
  <2>5. stage' # "creating"
    BY <1>21 DEF Tick, Working, Underway
  <2>6. QED
    BY <1>21, <2>1, <2>2, <2>3, <2>4, <2>5 DEF Types, Tick
<1>22. QED
  BY <1>0, <1>1, <1>2, <1>3, <1>4, <1>5, <1>6, <1>7, <1>8, <1>9, <1>10, <1>11, <1>12, <1>13, <1>14, <1>15, <1>16, <1>17, <1>18, <1>19, <1>20, <1>21 DEF Next, Chain, Stops

\* What is left of the reports are reports.
LEMMA TailTyped ==
    ASSUME Queued, reports # <<>>
    PROVE  Tail(reports) \in Seq(Reports)
BY DEF Queued

\* One report alone is a queue of reports.
LEMMA OnlyReport ==
    ASSUME Types, NEW kind \in Kinds, reports' = <<Report(kind)>>
    PROVE  Queued'
<1>1. Report(kind) \in Reports
  BY ReportTyped
<1>2. <<Report(kind)>> \in Seq(Reports)
  BY <1>1
<1>3. QED
  BY <1>2 DEF Queued

\* Only reports wait.
LEMMA QueueKept ==
    ASSUME Types, Queued, ChainInv, [Next]_candidate
    PROVE  Queued'
<1>0. CASE UNCHANGED candidate
  BY <1>0 DEF Queued, candidate
<1>1. CASE Create
  BY <1>1 DEF Create, Queued
<1>2. CASE Provision
  <2>1. reports' = <<Report("noise")>> \/ reports' = reports
    BY <1>2 DEF Provision
  <2>2. QED
    BY <2>1, OnlyReport DEF Kinds, Queued
<1>3. CASE Prepare
  BY <1>3, OnlyReport DEF Prepare, Proceed, Kinds
<1>4. CASE Emit
  <2>1. PICK kind \in Kinds : reports' = Append(reports, Report(kind))
    BY <1>4 DEF Emit, Kinds
  <2>2. Report(kind) \in Reports
    BY ReportTyped
  <2>3. QED
    BY <2>1, <2>2 DEF Queued
<1>5. CASE StartBuild
  BY <1>5, OnlyReport DEF StartBuild, Proceed, Kinds
<1>6. CASE FinishBuild
  BY <1>6, OnlyReport DEF FinishBuild, Proceed, Kinds
<1>7. CASE Drop
  BY <1>7, TailTyped DEF Drop, Done, Queued, ChainInv
<1>8. CASE BeginRenewal
  BY <1>8 DEF BeginRenewal, Measured, Queued
<1>9. CASE BeginSaving
  BY <1>9 DEF BeginSaving, Queued
<1>10. CASE RenewLease
  BY <1>10, TailTyped DEF RenewLease, LeaseFails, Done, Queued, ChainInv
<1>11. CASE RegisterRenewal
  BY <1>11, TailTyped DEF RegisterRenewal, LeaseFails, Done, Queued, ChainInv
<1>12. CASE SaveEvent
  BY <1>12, TailTyped DEF SaveEvent, Done, Queued, ChainInv
<1>13. CASE Break
  BY <1>13 DEF Break, Queued
<1>14. CASE Flush
  BY <1>14 DEF Flush, Flushed, Queued
<1>15. CASE Retain
  BY <1>15 DEF Retain, Queued
<1>16. CASE AbortDestroy
  BY <1>16 DEF AbortDestroy, Queued
<1>17. CASE Destroy
  BY <1>17 DEF Destroy, Queued
<1>18. CASE End
  BY <1>18 DEF End, Queued
<1>19. CASE Cancel
  BY <1>19 DEF Cancel, Queued
<1>20. CASE Sweep
  BY <1>20 DEF Sweep, Queued
<1>21. CASE Tick
  BY <1>21 DEF Tick, Down, Unbounded, Calls, Queued
<1>22. QED
  BY <1>0, <1>1, <1>2, <1>3, <1>4, <1>5, <1>6, <1>7, <1>8, <1>9, <1>10, <1>11, <1>12, <1>13, <1>14, <1>15, <1>16, <1>17, <1>18, <1>19, <1>20, <1>21 DEF Next, Chain, Stops

-----------------------------------------------------------------------------
(* The chain and the clocks.                                                 *)

\* Every step keeps what the chain knows.
LEMMA ChainKept ==
    ASSUME Types, Queued, ChainInv, [Next]_candidate
    PROVE  ChainInv'
<1>0. CASE UNCHANGED candidate
  BY <1>0, BudgetTypes DEF Types, ChainInv, candidate, lease, silence, progress, failures, Latched, Aborted, Underway
<1>1. CASE Create
  BY <1>1, BudgetTypes DEF Types, ChainInv, Create, lease, silence, progress, failures, Latched, Aborted, Underway
<1>2. CASE Provision
  BY <1>2, BudgetTypes DEF Types, ChainInv, Provision, lease, silence, progress, failures, Latched, Aborted, Underway
<1>3. CASE Prepare
  BY <1>3, BudgetTypes DEF Types, ChainInv, Prepare, Proceed, lease, silence, progress, failures, Latched, Aborted, Underway
<1>4. CASE Emit
  BY <1>4, BudgetTypes DEF Types, ChainInv, Emit, lease, silence, progress, failures, Latched, Aborted, Underway
<1>5. CASE StartBuild
  BY <1>5, BudgetTypes DEF Types, ChainInv, StartBuild, Proceed, lease, silence, progress, failures, Latched, Aborted, Underway
<1>6. CASE FinishBuild
  BY <1>6, BudgetTypes DEF Types, ChainInv, FinishBuild, Proceed, lease, silence, progress, failures, Latched, Aborted, Underway
<1>7. CASE Drop
  BY <1>7, BudgetTypes DEF Types, ChainInv, Drop, Done, lease, silence, progress, failures, Latched, Aborted, Underway
<1>8. CASE BeginRenewal
  BY <1>8, BudgetTypes DEF Types, ChainInv, BeginRenewal, Measured, lease, silence, progress, failures, Latched, Aborted, Underway
<1>9. CASE BeginSaving
  BY <1>9, BudgetTypes DEF Types, ChainInv, BeginSaving, lease, silence, progress, failures, Latched, Aborted, Underway
<1>10. CASE RenewLease
  BY <1>10, BudgetTypes DEF Types, ChainInv, RenewLease, LeaseFails, Done, lease, silence, progress, failures, Latched, Aborted, Underway
<1>11. CASE RegisterRenewal
  BY <1>11, BudgetTypes DEF Types, ChainInv, RegisterRenewal, LeaseFails, Done, Renewed, lease, silence, progress, failures, Latched, Aborted, Underway
<1>12. CASE SaveEvent
  BY <1>12, BudgetTypes DEF Types, ChainInv, SaveEvent, Done, PutOff, lease, silence, progress, failures, Latched, Aborted, Underway
<1>13. CASE Break
  BY <1>13, BudgetTypes DEF Types, ChainInv, Break, lease, silence, progress, failures, Latched, Aborted, Underway
<1>14. CASE Flush
  BY <1>14, BudgetTypes DEF Types, ChainInv, Flush, Flushed, lease, silence, progress, failures, Latched, Aborted, Underway
<1>15. CASE Retain
  BY <1>15, BudgetTypes DEF Types, ChainInv, Retain, lease, silence, progress, failures, Latched, Aborted, Underway
<1>16. CASE AbortDestroy
  BY <1>16, BudgetTypes DEF Types, ChainInv, AbortDestroy, lease, silence, progress, failures, Latched, Aborted, Underway
<1>17. CASE Destroy
  BY <1>17, BudgetTypes DEF Types, ChainInv, Destroy, lease, silence, progress, failures, Latched, Aborted, Underway
<1>18. CASE End
  BY <1>18, BudgetTypes DEF Types, ChainInv, End, lease, silence, progress, failures, Latched, Aborted, Underway
<1>19. CASE Cancel
  BY <1>19, BudgetTypes DEF Types, ChainInv, Cancel, lease, silence, progress, failures, Latched, Aborted, Underway
<1>20. CASE Sweep
  BY <1>20, BudgetTypes DEF Types, ChainInv, Sweep, lease, silence, progress, failures, Latched, Aborted, Underway, Working
<1>21. CASE Tick
  <2>1. UNCHANGED <<stage, reports, serving, eventFailure, leaseFailure, record>> /\ Working
    BY <1>21 DEF Tick
  <2>2. Latched' = Latched /\ Underway' = Underway /\ stage # "retained" /\ stage # "creating"
    BY <2>1 DEF Latched, Underway, Working
  <2>3. asked # None => asked' # None
    BY <1>21, BudgetTypes DEF Types, Tick, Down
  <2>4. CASE Unbounded
    <3>1. UNCHANGED slow /\ reports = <<>> /\ stage \in {"preparing", "making", "building"}
      BY <1>21, <2>4 DEF Tick, Unbounded
    <3>2. QED
      BY <2>1, <2>2, <2>3, <3>1 DEF ChainInv
  <2>5. CASE ~Unbounded
    <3>1. UNCHANGED silent /\ slow < Calls /\ slow' = slow + 1
      BY <1>21, <2>5 DEF Tick
    <3>2. silent = 0
      BY <2>1, <2>5 DEF ChainInv, Unbounded, Working, Underway, Types, Stages
    <3>3. overlong' = overlong
      BY <1>21, <3>1, <3>2, BudgetTypes DEF Tick, Types
    <3>4. Underway /\ stage # "retaining" => serving # "idle" /\ slow' <= 1
      BY <2>1, <3>1 DEF Calls, Types, Underway, ChainInv
    <3>5. stage = "retaining" => serving = "idle"
      BY DEF ChainInv
    <3>6. QED
      BY <2>1, <2>2, <2>3, <3>1, <3>2, <3>3, <3>4, <3>5 DEF ChainInv
  <2>6. QED
    BY <2>4, <2>5
<1>22. QED
  BY <1>0, <1>1, <1>2, <1>3, <1>4, <1>5, <1>6, <1>7, <1>8, <1>9, <1>10, <1>11, <1>12, <1>13, <1>14, <1>15, <1>16, <1>17, <1>18, <1>19, <1>20, <1>21 DEF Next, Chain, Stops

\* What is left and what has passed together do not get less when a unit passes.
LEMMA UnitPasses ==
    ASSUME NEW left \in Nat, NEW after \in Nat, NEW passed \in Nat, NEW next \in Nat,
           after + 1 >= left, next = passed + 1
    PROVE  after + next >= left + passed /\ left + passed \in Nat /\ after + next \in Nat
OBVIOUS

\* Every step keeps the clocks in step.
LEMMA ClockKept ==
    ASSUME Types, ChainInv, ClockInv, [Next]_candidate
    PROVE  ClockInv'
<1>0. CASE UNCHANGED candidate
  BY <1>0, BudgetTypes DEF Types, ChainInv, ClockInv, candidate, lease, silence, progress, failures, Latched, Aborted, Alive, Underway
<1>1. CASE Create
  BY <1>1, BudgetTypes DEF Types, ChainInv, ClockInv, Create, lease, silence, progress, failures, Latched, Aborted, Alive, Underway
<1>2. CASE Provision
  <2>1. stage = "created" /\ serving = "idle" /\ slow' = 0 /\ ~overlong /\ silent = 0
    BY <1>2 DEF Types, ChainInv, Provision
  <2>2. CASE stage' = "ending"
    BY <2>2 DEF ClockInv, Alive, Underway
  <2>3. CASE stage' = "preparing" /\ reports' = <<Report("noise")>> /\ remote' = Segment
    <3>1. reports' # <<>>
      BY <2>3
    <3>2. UNCHANGED <<serving, row, handle, silent, overlong>>
      BY <1>2, <2>1 DEF Provision, silence
    <3>3. handle = row /\ row + slow >= Segment /\ slow <= 2
      BY <2>1 DEF ClockInv, Types
    <3>4. row \in Nat /\ row <= Segment /\ slow \in Nat
      BY BudgetTypes DEF Types
    <3>5. handle' <= row' /\ row' <= remote' /\ handle' + Request >= Threshold
      BY <2>3, <3>2, <3>3, <3>4, BudgetTypes
    <3>6. QED
      BY <2>1, <2>3, <3>1, <3>2, <3>5, BudgetTypes DEF ClockInv
  <2>4. QED
    BY <1>2, <2>2, <2>3 DEF Provision
<1>3. CASE Prepare
  BY <1>3, BudgetTypes DEF Types, ChainInv, ClockInv, Prepare, Proceed, lease, silence, progress, failures, Latched, Aborted, Alive, Underway
<1>4. CASE Emit
  BY <1>4, BudgetTypes DEF Types, ChainInv, ClockInv, Emit, lease, silence, progress, failures, Latched, Aborted, Alive, Underway
<1>5. CASE StartBuild
  BY <1>5, BudgetTypes DEF Types, ChainInv, ClockInv, StartBuild, Proceed, lease, silence, progress, failures, Latched, Aborted, Alive, Underway
<1>6. CASE FinishBuild
  BY <1>6, BudgetTypes DEF Types, ChainInv, ClockInv, FinishBuild, Proceed, lease, silence, progress, failures, Latched, Aborted, Alive, Underway
<1>7. CASE Drop
  BY <1>7, BudgetTypes DEF Types, ChainInv, ClockInv, Drop, Done, lease, silence, progress, failures, Latched, Aborted, Alive, Underway
<1>8. CASE BeginRenewal
  <2>1. serving = "idle" /\ reports # <<>> /\ serving' = "renewing" /\ asked' = Segment
    BY <1>8 DEF BeginRenewal, Measured
  <2>2. UNCHANGED <<stage, reports, remote, row, handle, silent, overlong, slow, signal, eventFailure, leaseFailure>>
    BY <1>8 DEF BeginRenewal, silence, failures
  <2>3. Alive' = Alive
    BY <2>2 DEF Alive, Underway, Aborted
  <2>4. stage \notin {"created", "retaining", "retained"}
    BY <2>1 DEF ChainInv
  <2>5. slow \in Nat /\ handle \in Nat
    BY BudgetTypes DEF Types
  <2>6. QED
    BY <2>1, <2>2, <2>3, <2>4, <2>5, BudgetTypes DEF ClockInv
<1>9. CASE BeginSaving
  <2>1. serving = "idle" /\ reports # <<>> /\ serving' = "saving" /\ (~Aborted => ~(handle <= Threshold))
    BY <1>9 DEF BeginSaving, Short
  <2>2. UNCHANGED <<stage, reports, remote, row, handle, silent, overlong, slow, signal, eventFailure, leaseFailure>>
    BY <1>9 DEF BeginSaving, lease, silence, failures
  <2>3. Alive' = Alive /\ (Alive => ~Aborted)
    BY <2>2 DEF Alive, Underway, Aborted
  <2>4. stage \notin {"created", "retaining", "retained"}
    BY <2>1 DEF ChainInv
  <2>5. slow \in Nat /\ handle \in Nat
    BY BudgetTypes DEF Types
  <2>6. QED
    BY <2>1, <2>2, <2>3, <2>4, <2>5, BudgetTypes DEF ClockInv
<1>10. CASE RenewLease
  <2>1. CASE LeaseFails
    <3>1. ~Alive' /\ UNCHANGED stage /\ stage # "created" /\ stage # "retained"
      BY <1>10, <2>1 DEF ChainInv, RenewLease, LeaseFails, Alive, Aborted
    <3>2. QED
      BY <3>1 DEF ClockInv
  <2>2. CASE ~LeaseFails
    <3>1. serving = "renewing" /\ remote' = Segment /\ serving' = "registering" /\ slow' = 0
      BY <1>10, <2>2 DEF RenewLease
    <3>2. UNCHANGED <<stage, reports, row, handle, asked, silent, overlong, signal, eventFailure, leaseFailure>>
      BY <1>10, <2>2 DEF RenewLease, failures
    <3>3. Alive' = Alive
      BY <3>2 DEF Alive, Aborted, Underway
    <3>4. asked \in 0..Segment /\ remote \in 0..Segment /\ row \in 0..Segment /\ handle \in 0..Segment
      BY <3>1, BudgetTypes DEF Types, ChainInv
    <3>5. stage \notin {"created", "retaining", "retained"} /\ reports # <<>>
      BY <3>1 DEF ChainInv
    <3>6. Alive => slow \in 0..1
      BY <3>1 DEF ChainInv, Alive, Types
    <3>7. QED
      BY <3>1, <3>2, <3>3, <3>4, <3>5, <3>6, BudgetTypes DEF ClockInv
  <2>3. QED
    BY <2>1, <2>2
<1>11. CASE RegisterRenewal
  <2>1. CASE LeaseFails
    <3>1. ~Alive' /\ UNCHANGED stage /\ stage # "created" /\ stage # "retained"
      BY <1>11, <2>1 DEF ChainInv, RegisterRenewal, LeaseFails, Alive, Aborted
    <3>2. QED
      BY <3>1 DEF ClockInv
  <2>2. CASE ~LeaseFails
    <3>1. serving = "registering" /\ row' = Renewed /\ handle' = Renewed /\ serving' = "saving" /\ slow' = 0
      BY <1>11, <2>2 DEF RegisterRenewal
    <3>2. UNCHANGED <<stage, reports, remote, silent, overlong, signal, eventFailure, leaseFailure>>
      BY <1>11, <2>2 DEF RegisterRenewal, failures
    <3>3. Alive' = Alive
      BY <3>2 DEF Alive, Aborted, Underway
    <3>4. asked \in 0..Segment /\ Renewed = asked
      BY <3>1, BudgetTypes DEF Types, ChainInv, Renewed
    <3>5. stage \notin {"created", "retaining", "retained"} /\ reports # <<>>
      BY <3>1 DEF ChainInv
    <3>6. Alive => slow \in 0..1
      BY <3>1 DEF ChainInv, Alive, Types
    <3>7. QED
      BY <3>1, <3>2, <3>3, <3>4, <3>5, <3>6, BudgetTypes DEF ClockInv
  <2>3. QED
    BY <2>1, <2>2
<1>12. CASE SaveEvent
  BY <1>12, BudgetTypes DEF Types, ChainInv, ClockInv, SaveEvent, Done, PutOff, lease, silence, progress, failures, Latched, Aborted, Alive, Underway
<1>13. CASE Break
  BY <1>13, BudgetTypes DEF Types, ChainInv, ClockInv, Break, lease, silence, progress, failures, Latched, Aborted, Alive, Underway
<1>14. CASE Flush
  BY <1>14, BudgetTypes DEF Types, ChainInv, ClockInv, Flush, Flushed, lease, silence, progress, failures, Latched, Aborted, Alive, Underway
<1>15. CASE Retain
  BY <1>15, BudgetTypes DEF Types, ChainInv, ClockInv, Retain, lease, silence, progress, failures, Latched, Aborted, Alive, Underway
<1>16. CASE AbortDestroy
  BY <1>16, BudgetTypes DEF Types, ChainInv, ClockInv, AbortDestroy, lease, silence, progress, failures, Latched, Aborted, Alive, Underway
<1>17. CASE Destroy
  BY <1>17, BudgetTypes DEF Types, ChainInv, ClockInv, Destroy, lease, silence, progress, failures, Latched, Aborted, Alive, Underway
<1>18. CASE End
  BY <1>18, BudgetTypes DEF Types, ChainInv, ClockInv, End, lease, silence, progress, failures, Latched, Aborted, Alive, Underway
<1>19. CASE Cancel
  BY <1>19, BudgetTypes DEF Types, ChainInv, ClockInv, Cancel, lease, silence, progress, failures, Latched, Aborted, Alive, Underway
<1>20. CASE Sweep
  BY <1>20, BudgetTypes DEF Types, ChainInv, ClockInv, Sweep, lease, silence, progress, failures, Latched, Aborted, Alive, Underway
<1>21. CASE Tick
  <2>1. UNCHANGED <<stage, reports, serving, eventFailure, leaseFailure>> /\ Working /\ ~Aborted
    BY <1>21 DEF Tick
  <2>2. stage # "retained" /\ Underway' = Underway /\ (Alive' => Alive)
    BY <2>1 DEF Working, Underway, Alive
  <2>3. remote' = Down(remote) /\ row' = Down(row) /\ handle' = Down(handle)
        /\ (asked # None => asked' = Down(asked)) /\ (overlong => overlong') /\ (silent' > Request => overlong')
    BY <1>21 DEF Tick
  <2>4. remote \in Nat /\ row \in Nat /\ handle \in Nat /\ slow \in Nat /\ silent \in Nat
        /\ (asked # None => asked \in Nat)
    BY BudgetTypes DEF Types
  <2>5. remote' \in Nat /\ row' \in Nat /\ handle' \in Nat /\ handle' + 1 >= handle
        /\ (handle <= row => handle' <= row') /\ (row <= remote => row' <= remote') /\ (handle = row => handle' = row')
        /\ row' + 1 >= row
    BY <2>3, <2>4 DEF Down
  <2>6. asked # None => asked' \in Nat /\ asked' + 1 >= asked /\ (asked <= remote => asked' <= remote')
    BY <2>3, <2>4 DEF Down
  <2>7. serving \in {"renewing", "registering"} => asked # None
    BY DEF ChainInv
  <2>8. CASE Unbounded
    <3>1. reports = <<>> /\ slow' = slow /\ serving = "idle" /\ stage \notin {"created", "retaining", "retained"}
      BY <1>21, <2>8 DEF Tick, Unbounded, ChainInv
    <3>2. silent' = IF silent <= Request THEN silent + 1 ELSE silent
      BY <1>21, <2>8 DEF Tick
    <3>3. ~overlong' => silent' = silent + 1 /\ silent' <= Request
      BY <2>3, <2>4, <3>2, BudgetTypes
    <3>4. Alive' /\ ~overlong' => handle + silent >= Threshold
      BY <2>2, <2>3, <3>1 DEF ClockInv
    <3>5. Alive' /\ ~overlong' => handle' + silent' >= Threshold /\ handle' + Request >= Threshold
      BY <2>4, <2>5, <3>3, <3>4, BudgetTypes
    <3>6. Alive' => handle' <= row' /\ row' <= remote'
      BY <2>2, <2>5 DEF ClockInv
    <3>7. QED
      BY <2>1, <3>1, <3>5, <3>6 DEF ClockInv
  <2>9. CASE ~Unbounded
    <3>1. slow' = slow + 1 /\ silent' = silent /\ slow < Calls
      BY <1>21, <2>9 DEF Tick
    <3>2. serving # "idle" \/ stage \in {"created", "retaining"}
      BY <2>4, <3>1 DEF Calls
    <3>3. stage \in {"created", "retaining"} => serving = "idle"
      BY DEF ChainInv
    <3>4. serving # "idle" => reports # <<>>
      BY DEF ChainInv
    <3>5. Alive' => handle' <= row' /\ row' <= remote'
      BY <2>2, <2>5 DEF ClockInv
    <3>6. slow \in Nat /\ slow' = slow + 1
      BY <2>4, <3>1
    <3>7. slow' \in Nat
      BY <3>6
    <3>8. /\ row' + slow' >= row + slow /\ row + slow \in Nat /\ row' + slow' \in Nat
          /\ handle' + slow' >= handle + slow /\ handle + slow \in Nat /\ handle' + slow' \in Nat
          /\ asked # None => asked' + slow' >= asked + slow /\ asked + slow \in Nat /\ asked' + slow' \in Nat
      <4>1. row' + slow' >= row + slow /\ row + slow \in Nat /\ row' + slow' \in Nat
        BY <2>4, <2>5, <3>6, <3>7, UnitPasses
      <4>2. handle' + slow' >= handle + slow /\ handle + slow \in Nat /\ handle' + slow' \in Nat
        BY <2>4, <2>5, <3>6, <3>7, UnitPasses
      <4>3. asked # None => asked' + slow' >= asked + slow /\ asked + slow \in Nat /\ asked' + slow' \in Nat
        BY <2>4, <2>6, <3>6, <3>7, UnitPasses
      <4>4. QED
        BY <4>1, <4>2, <4>3
    <3>9. stage = "created" => handle' = row' /\ row' + slow' >= Segment
      <4>1. stage = "created" => handle = row /\ row + slow >= Segment
        BY DEF ClockInv
      <4>2. handle = row => handle' = row'
        BY <2>5
      <4>3. row + slow >= Segment => row' + slow' >= Segment
        BY <3>8, BudgetTypes
      <4>4. QED
        BY <4>1, <4>2, <4>3
    <3>10. Alive' => /\ stage = "retaining" => handle' + slow' >= Threshold
                     /\ serving = "saving" => handle' + slow' > Threshold
      <4>1. Alive' => /\ stage = "retaining" => handle + slow >= Threshold
                      /\ serving = "saving" => handle + slow > Threshold
        BY <2>2 DEF ClockInv
      <4>2. QED
        BY <3>8, <4>1, BudgetTypes
    <3>11. Alive' /\ ~overlong' => /\ serving = "renewing" => handle' + slow' + Request >= Threshold
                                   /\ serving = "registering" => handle' + slow' + 1 + Request >= Threshold
      <4>1. Alive' /\ ~overlong' => /\ serving = "renewing" => handle + slow + Request >= Threshold
                                    /\ serving = "registering" => handle + slow + 1 + Request >= Threshold
        BY <2>2, <2>3 DEF ClockInv
      <4>2. QED
        BY <3>8, <4>1, BudgetTypes
    <3>12. Alive' => /\ serving = "renewing" => asked' + slow' >= Segment
                     /\ serving = "registering" => asked' + slow' + 1 >= Segment /\ asked' <= remote'
      <4>1. Alive' => /\ serving = "renewing" => asked + slow >= Segment
                      /\ serving = "registering" => asked + slow + 1 >= Segment /\ asked <= remote
        BY <2>2 DEF ClockInv
      <4>2. QED
        BY <2>6, <2>7, <3>8, <4>1, BudgetTypes
    <3>13. reports' = <<>> => stage \in {"created", "retaining"}
      BY <2>1, <3>2, <3>4
    <3>14. UNCHANGED <<stage, reports, serving>> /\ (serving' = "idle" => stage' \in {"created", "retaining"})
      BY <2>1, <3>2
    <3>15. stage' \in {"created", "retaining"} => serving' = "idle"
      BY <3>3, <3>14
    <3>16. stage' # "retained" /\ (Alive' => stage' # "created")
      BY <2>1, <2>2 DEF Alive, Underway
    <3>17. QED
      BY <3>5, <3>9, <3>10, <3>11, <3>12, <3>13, <3>14, <3>15, <3>16 DEF ClockInv
  <2>10. QED
    BY <2>8, <2>9
<1>22. QED
  BY <1>0, <1>1, <1>2, <1>3, <1>4, <1>5, <1>6, <1>7, <1>8, <1>9, <1>10, <1>11, <1>12, <1>13, <1>14, <1>15, <1>16, <1>17, <1>18, <1>19, <1>20, <1>21 DEF Next, Chain, Stops

-----------------------------------------------------------------------------
(* What holds in every reachable state.                                      *)

\* It holds in the beginning, when nothing is waiting and there is no lease yet.
LEMMA InitInv ==
    ASSUME Init
    PROVE  IInv
<1>1. Types
  <2>1. remote \in 0..Segment /\ row \in 0..Segment /\ handle \in 0..Segment
    BY BudgetTypes DEF Init
  <2>2. asked = None /\ silent \in Nat /\ slow \in 0..2 /\ idle \in 0..Idle
    BY BudgetTypes DEF Init
  <2>3. request \in 1..(MaxRequests + 1)
    BY BudgetTypes DEF Init
  <2>4. QED
    BY <2>1, <2>2, <2>3 DEF Init, Types, Stages
<1>2. Queued /\ ChainInv
  BY DEF Init, Queued, ChainInv, Latched, Underway
<1>3. ClockInv
  BY DEF Init, ClockInv, Alive, Underway
<1>4. QED
  BY <1>1, <1>2, <1>3 DEF IInv

\* It holds after every step.
LEMMA NextInv ==
    ASSUME IInv, [Next]_candidate
    PROVE  IInv'
BY TypesKept, QueueKept, ChainKept, ClockKept DEF IInv

\* It holds always.
LEMMA AlwaysInv == Spec => []IInv
BY InitInv, NextInv, PTL DEF Spec

\* A candidate that is made and was not silent for too long has a lease, at the provider
\* and by the record the sweep reads; so has one that is kept.
LEMMA LeaseLeft ==
    ASSUME IInv
    PROVE  LeaseHolds
<1> SUFFICES ASSUME (Alive /\ ~overlong) \/ stage = "retained"
             PROVE  remote > 0 /\ handle > 0
  BY DEF LeaseHolds, Alive
<1>1. remote \in Nat /\ row \in Nat /\ handle \in Nat /\ slow \in 0..2
  BY BudgetTypes DEF IInv, Types
<1>2. handle <= row /\ row <= remote
  BY DEF IInv, ClockInv
<1>3. handle > 0
  <2>1. CASE stage = "retained"
    BY <2>1 DEF IInv, ClockInv
  <2>2. CASE Alive /\ stage = "retaining"
    BY <1>1, <2>2, BudgetTypes DEF IInv, ClockInv
  <2>3. CASE Alive /\ ~overlong /\ stage # "retaining"
    <3>1. serving # "idle" => slow <= 1
      BY <2>3 DEF IInv, ChainInv, Alive
    <3>2. QED
      BY <1>1, <2>3, <3>1, BudgetTypes DEF IInv, ClockInv, Types
  <2>4. QED
    BY <2>1, <2>2, <2>3
<1>4. QED
  BY <1>1, <1>2, <1>3

\* Every variable has the type the code gives it, and the chain serves only a report that
\* waits.
THEOREM CandidateTypeCorrect == Spec => []TypeOK
<1>1. IInv => TypeOK
  BY DEF IInv, Types, ChainInv, TypeOK, Stages
<1>2. QED
  BY <1>1, AlwaysInv, PTL

\* While a candidate is made neither the provider takes its sandbox nor the sweep finds its
\* lease run out (runCandidate's ensureLease, which looks at it only when something is
\* reported), however slow renewals are and whatever budgets keep Budgets, unless the
\* preparation, the builder or the build is silent for longer than a request; and a kept
\* candidate has its lease in any case.
THEOREM LeaseNeverLapses == Spec => []LeaseHolds
BY AlwaysInv, LeaseLeft, PTL

\* What runCandidate believes is left of the lease is never more than what its row says,
\* nor that more than the provider granted: the deadline is taken before the call.
THEOREM NeverAhead == Spec => []NotAhead
<1>1. IInv => NotAhead
  BY DEF IInv, ClockInv, NotAhead, Alive
<1>2. QED
  BY <1>1, AlwaysInv, PTL

\* The events that are saved of a candidate are the first ones it reported: after the first
\* that failed, or a renewal that failed, none is saved; and one that is kept has all of
\* them and a lease that was renewed whenever it had to be (the chain, flush and the guards
\* after it).
THEOREM LogWhole == Spec => []RecordIsWhole
<1>1. IInv => RecordIsWhole
  BY DEF IInv, Types, ChainInv, RecordIsWhole, Latched, Aborted
<1>2. QED
  BY <1>1, AlwaysInv, PTL
=============================================================================
