---------------------- MODULE SandboxOperationsProofs ----------------------
(***************************************************************************)
(* Proofs about the operations that share the ceiling of sandboxes: types, *)
(* the project lock, the ceiling, and that no sandbox is forgotten.  Every *)
(* conjunct of the inductive invariant but the lock's and the count's      *)
(* speaks of one operation; an action changes the state of one.            *)
(***************************************************************************)
EXTENDS SandboxOperations, FiniteSetTheorems, TLAPS

-----------------------------------------------------------------------------
(* The inductive invariant.                                                  *)

Statuses == RollbackActive \union RollbackEnded \union RestoreActive
            \union {"none", "ready", "failed", "working", "ended"}

\* TypeOK says what the status of each kind is; this one also that status is a function.
Typed == TypeOK /\ status \in [Operations \union Jobs -> Statuses]

\* The lock names an operation of that very project.
LockAtHome == \A p \in Projects : lock[p] # None => Home[lock[p]] = p

\* Nothing has happened to the sandbox of an operation that has not created one.
Untouched(o) ==
    /\ row[o] = "none" /\ remote[o] = "none"
    /\ o \notin bound \union lapsed \union resources \union killed \union unregistered
                 \union retained \union failing \union bootClaims
Waiting(o) == status[o] \in {"none", "queued"}
FreshUntouched(o) ==
    /\ Waiting(o) \/ phase[o] = "create" => Untouched(o)
    /\ Waiting(o) => phase[o] = "idle" /\ o \notin claims \union cancelling

\* A slot is kept while the sandbox is being created.
CreatesInSlot(o) ==
    /\ phase[o] = "create" => status[o] \in {"preparing", "cancel_requested", "pending"}
    /\ status[o] = "cancel_requested" => error[o] # "none"

\* What a row says of the sandbox.
RowTrue(o) ==
    /\ row[o] # "none" \/ status[o] \in {"prepared", "committed"} => o \in bound
    /\ o \in retained => o \in bound
    /\ row[o] = "destroyed" => remote[o] # "alive"
    /\ o \in lapsed => remote[o] # "alive"
    /\ status[o] \in {"failed", "cancelled"} /\ o \in bound => remote[o] # "alive"

\* Where a task may stand with respect to the row and to the kill.
PhaseTrue(o) ==
    /\ phase[o] = "register" => o \notin bound
    /\ phase[o] \in {"kill", "mark", "verify"} => o \in bound
    /\ phase[o] = "verify" => o \in claims
    /\ phase[o] = "mark" \/ o \in killed => remote[o] # "alive"

\* A live sandbox of a rollback that no task works on is claimed, or listed as an
\* orphan, or delivered; before a restart cut it off.
RollbackKept(b) ==
    remote[b] = "alive" =>
        /\ b \notin bound /\ phase[b] \in {"idle", "fail"} => b \in unregistered \/ boots > 0
        /\ b \in bound /\ phase[b] = "idle" =>
               b \in claims \union cancelling \/ status[b] = "committed"

\* The executor tracks the sandbox of a restore from its creation.
RestoreKept(r) ==
    /\ phase[r] = "register" => r \in resources
    /\ r \in killed => phase[r] \in {"idle", "undo", "record"}
    /\ r \in failing \union bootClaims => phase[r] = "idle"
    /\ remote[r] = "alive" => \/ r \in resources \union bootClaims \/ status[r] = "ready"
                              \/ r \notin bound /\ boots > 0

Shape(o) ==
    /\ FreshUntouched(o) /\ CreatesInSlot(o) /\ RowTrue(o) /\ PhaseTrue(o)
    /\ o \in Rollbacks => RollbackKept(o)
    /\ o \in Restores => RestoreKept(o)
ShapeInv == resources \subseteq Restores /\ \A o \in Operations : Shape(o)

\* The operations and jobs that hold a slot.  A stopped rollback that registers its
\* sandbox late is not among them.
Standing(b) == b \in Rollbacks => error[b] = "none"
Counted ==
    {s \in Operations : Live(s) /\ Standing(s)}
    \union {j \in Jobs : status[j] = "working"}
    \union {b \in Rollbacks : /\ status[b] \in {"preparing", "prepared"} /\ b \notin bound
                              /\ Standing(b)}
    \union {r \in Restores : status[r] = "pending" /\ r \notin bound}
CountInv == Cardinality(Counted) <= Ceiling

LedgerInv == Typed /\ LockFollowsOperation /\ LockAtHome /\ ShapeInv /\ CountInv

-----------------------------------------------------------------------------
(* What one step may change.                                                 *)

\* An operation that a step leaves alone.
Same(o) ==
    /\ status'[o] = status[o] /\ error'[o] = error[o] /\ row'[o] = row[o]
    /\ remote'[o] = remote[o] /\ phase'[o] = phase[o]
    /\ o \in bound' <=> o \in bound
    /\ o \in lapsed' <=> o \in lapsed
    /\ o \in claims' <=> o \in claims
    /\ o \in retained' <=> o \in retained
    /\ o \in unregistered' <=> o \in unregistered
    /\ o \in resources' <=> o \in resources
    /\ o \in killed' <=> o \in killed
    /\ o \in failing' <=> o \in failing
    /\ o \in bootClaims' <=> o \in bootClaims
    /\ o \in cancelling' <=> o \in cancelling

\* A step of one operation or job leaves every other one alone.
Alone(o) ==
    /\ boots' = boots
    /\ \A x \in Operations : x # o => Same(x)
    /\ \A j \in Jobs : j # o => status'[j] = status[j]

\* The lock is left alone, given back with the operation's end, or taken when free.
LockStep(o) ==
    \/ lock' = lock /\ (Unfinished(o)' <=> Unfinished(o))
    \/ lock' = Release(o) /\ ~Unfinished(o)'
    \/ /\ lock[Home[o]] = None /\ lock' = [lock EXCEPT ![Home[o]] = o] /\ Unfinished(o)'

\* A slot is taken by an admission only.
CountStep(o) == ReserveCapacity \/ (o \in Counted' => o \in Counted)

LEMMA ShapeAlone ==
    ASSUME NEW o, boots' = boots, Same(o), Shape(o)
    PROVE  Shape(o)'
BY DEF Same, Shape, FreshUntouched, Waiting, Untouched, CreatesInSlot, RowTrue, PhaseTrue,
       RollbackKept, RestoreKept

\* The lock follows its operation through each of its three steps.
LEMMA LockKept ==
    ASSUME Typed, LockFollowsOperation, LockAtHome,
           NEW o \in Operations \union Jobs, Alone(o), LockStep(o)
    PROVE  LockFollowsOperation' /\ LockAtHome'
<1>1. \A x \in Operations \union Jobs : x # o => status'[x] = status[x]
  BY DEF Alone, Same
<1>2. \A x \in Operations \union Jobs : x # o => (Unfinished(x)' <=> Unfinished(x))
  BY <1>1 DEF Unfinished
<1>3. None \notin Operations \union Jobs /\ Home \in [Operations \union Jobs -> Projects]
  BY LedgerAssumption
<1>4. lock \in [Projects -> Operations \union Jobs \union {None}]
  BY DEF Typed, TypeOK
<1>5. CASE lock' = lock /\ (Unfinished(o)' <=> Unfinished(o))
  BY <1>2, <1>5 DEF LockFollowsOperation, LockAtHome
<1>6. CASE lock' = Release(o) /\ ~Unfinished(o)'
  BY <1>2, <1>3, <1>4, <1>6 DEF LockFollowsOperation, LockAtHome, Release
<1>7. CASE /\ lock[Home[o]] = None /\ lock' = [lock EXCEPT ![Home[o]] = o] /\ Unfinished(o)'
  BY <1>2, <1>3, <1>4, <1>7 DEF LockFollowsOperation, LockAtHome
<1>8. QED
  BY <1>5, <1>6, <1>7 DEF LockStep

-----------------------------------------------------------------------------
(* The count of slots.                                                       *)

\* A union has at most as many elements as its parts together.
LEMMA UnionSize ==
    ASSUME NEW S, NEW T, IsFiniteSet(S), IsFiniteSet(T)
    PROVE  /\ IsFiniteSet(S \union T) /\ Cardinality(S \union T) \in Nat
           /\ Cardinality(S \union T) <= Cardinality(S) + Cardinality(T)
<1>1. /\ IsFiniteSet(S \union T)
      /\ Cardinality(S \union T) = Cardinality(S) + Cardinality(T) - Cardinality(S \intersect T)
  BY FS_Union
<1>2. IsFiniteSet(S \intersect T)
  BY FS_Intersection
<1>3. /\ Cardinality(S) \in Nat /\ Cardinality(T) \in Nat /\ Cardinality(S \intersect T) \in Nat
      /\ Cardinality(S \union T) \in Nat
  BY <1>1, <1>2, FS_CardinalityType
<1>4. QED
  BY <1>1, <1>3

\* The number the admission compares with the ceiling is never less than the number
\* of operations and jobs that hold a slot.
LEMMA CountedBelowOccupied == Cardinality(Counted) <= Occupied /\ IsFiniteSet(Counted)
                              /\ Occupied \in Nat
<1> DEFINE L == {s \in Operations : Live(s)}
           LS == {s \in Operations : Live(s) /\ Standing(s)}
           W == {j \in Jobs : status[j] = "working"}
           B == {b \in Rollbacks : status[b] \in {"preparing", "prepared"} /\ b \notin bound}
           BS == {b \in Rollbacks : /\ status[b] \in {"preparing", "prepared"} /\ b \notin bound
                                    /\ Standing(b)}
           R == {r \in Restores : status[r] = "pending" /\ r \notin bound}
<1>1. IsFiniteSet(Operations) /\ IsFiniteSet(Jobs)
  BY LedgerAssumption
<1>2. /\ L \in SUBSET Operations /\ W \in SUBSET Jobs /\ B \in SUBSET Operations
      /\ R \in SUBSET Operations /\ LS \in SUBSET L /\ BS \in SUBSET B
  BY DEF Operations
<1>3. IsFiniteSet(L) /\ IsFiniteSet(W) /\ IsFiniteSet(B) /\ IsFiniteSet(R)
  BY <1>1, <1>2, FS_Subset
<1>4. /\ IsFiniteSet(LS) /\ Cardinality(LS) <= Cardinality(L)
      /\ IsFiniteSet(BS) /\ Cardinality(BS) <= Cardinality(B)
  BY <1>2, <1>3, FS_Subset
<1>5. /\ Cardinality(L) \in Nat /\ Cardinality(W) \in Nat /\ Cardinality(B) \in Nat
      /\ Cardinality(R) \in Nat /\ Cardinality(LS) \in Nat /\ Cardinality(BS) \in Nat
  BY <1>3, <1>4, FS_CardinalityType
<1>6. Counted = ((LS \union W) \union BS) \union R
  BY DEF Counted
<1>7. Occupied = Cardinality(L) + Cardinality(W) + Cardinality(B) + Cardinality(R)
  BY DEF Occupied
<1> HIDE DEF L, LS, W, B, BS, R
<1>8. IsFiniteSet(LS \union W) /\ Cardinality(LS \union W) <= Cardinality(LS) + Cardinality(W)
      /\ Cardinality(LS \union W) \in Nat
  BY <1>3, <1>4, <1>5, UnionSize
<1>9. /\ IsFiniteSet((LS \union W) \union BS) /\ Cardinality((LS \union W) \union BS) \in Nat
      /\ Cardinality((LS \union W) \union BS) <= Cardinality(LS \union W) + Cardinality(BS)
  BY <1>4, <1>8, UnionSize
<1>10. /\ IsFiniteSet(((LS \union W) \union BS) \union R)
       /\ Cardinality(((LS \union W) \union BS) \union R) \in Nat
       /\ Cardinality(((LS \union W) \union BS) \union R)
             <= Cardinality((LS \union W) \union BS) + Cardinality(R)
  BY <1>3, <1>9, UnionSize
<1>11. QED
  BY <1>4, <1>5, <1>6, <1>7, <1>8, <1>9, <1>10

\* A step that takes no slot, and an admission, keep the count under the ceiling.
LEMMA CountKept ==
    ASSUME Typed, CountInv, NEW o, CountStep(o), IsFiniteSet(Counted'),
           \A x \in Counted' : x # o => x \in Counted
    PROVE  CountInv'
<1>1. /\ Cardinality(Counted) <= Occupied /\ IsFiniteSet(Counted) /\ Occupied \in Nat
      /\ Ceiling \in Nat
  BY CountedBelowOccupied, LedgerAssumption
<1>2. Cardinality(Counted) \in Nat /\ Cardinality(Counted') \in Nat
  BY <1>1, FS_CardinalityType
<1>3. CASE o \in Counted' => o \in Counted
  <2>1. Counted' \in SUBSET Counted
    BY <1>3
  <2>2. Cardinality(Counted') <= Cardinality(Counted)
    BY <1>1, <2>1, FS_Subset
  <2>3. Ceiling' = Ceiling
    OBVIOUS
  <2>4. QED
    BY <1>1, <1>2, <2>2 DEF CountInv
<1>4. CASE ReserveCapacity
  <2>1. Counted' \in SUBSET (Counted \union {o})
    OBVIOUS
  <2>2. /\ IsFiniteSet(Counted \union {o})
        /\ Cardinality(Counted \union {o}) =
              IF o \in Counted THEN Cardinality(Counted) ELSE Cardinality(Counted) + 1
    BY <1>1, FS_AddElement
  <2>3. Cardinality(Counted') <= Cardinality(Counted \union {o})
    BY <2>1, <2>2, FS_Subset
  <2>4. Cardinality(Counted) < Ceiling
    BY <1>1, <1>2, <1>4 DEF ReserveCapacity
  <2>5. QED
    BY <1>1, <1>2, <2>2, <2>3, <2>4 DEF CountInv
<1>5. QED
  BY <1>3, <1>4 DEF CountStep

LEMMA CountedFinite == IsFiniteSet(Counted')
<1>1. IsFiniteSet(Operations) /\ IsFiniteSet(Jobs)
  BY LedgerAssumption
<1>2. IsFiniteSet(Operations \union Jobs)
  BY <1>1, FS_Union
<1>3. Counted' \in SUBSET (Operations \union Jobs)
  BY DEF Counted, Operations
<1>4. QED
  BY <1>2, <1>3, FS_Subset

\* A step of one operation keeps the invariant if it keeps that operation's part.
LEMMA StepOfOperation ==
    ASSUME LedgerInv, NEW o \in Operations, Alone(o), Typed', Shape(o)',
           resources' \subseteq Restores, LockStep(o), CountStep(o)
    PROVE  LedgerInv'
<1>1. Typed /\ LockFollowsOperation /\ LockAtHome /\ ShapeInv /\ CountInv
  BY DEF LedgerInv
<1>2. LockFollowsOperation' /\ LockAtHome'
  BY <1>1, LockKept
<1>3. ShapeInv'
  <2>1. ASSUME NEW x \in Operations, x # o PROVE Shape(x)'
    BY <1>1, <2>1, ShapeAlone DEF ShapeInv, Alone
  <2>2. QED
    BY <2>1 DEF ShapeInv
<1>4. \A x \in Counted' : x # o => x \in Counted
  BY DEF Counted, Live, Standing, Alone, Same, Operations
<1>5. CountInv'
  BY <1>1, <1>4, CountedFinite, CountKept
<1>6. QED
  BY <1>2, <1>3, <1>5 DEF LedgerInv

\* A step of a job touches no operation.
LEMMA StepOfJob ==
    ASSUME LedgerInv, NEW j \in Jobs, Alone(j), Typed', UNCHANGED resources,
           LockStep(j), CountStep(j)
    PROVE  LedgerInv'
<1>1. Typed /\ LockFollowsOperation /\ LockAtHome /\ ShapeInv /\ CountInv
  BY DEF LedgerInv
<1>2. LockFollowsOperation' /\ LockAtHome'
  BY <1>1, LockKept
<1>3. \A x \in Operations : x # j
  BY LedgerAssumption
<1>4. ShapeInv'
  <2>1. ASSUME NEW x \in Operations PROVE Shape(x)'
    BY <1>1, <1>3, ShapeAlone DEF ShapeInv, Alone
  <2>2. QED
    BY <1>1, <2>1 DEF ShapeInv
<1>5. \A x \in Counted' : x # j => x \in Counted
  BY DEF Counted, Live, Standing, Alone, Same, Operations
<1>6. CountInv'
  BY <1>1, <1>5, CountedFinite, CountKept
<1>7. QED
  BY <1>2, <1>4, <1>6 DEF LedgerInv

-----------------------------------------------------------------------------
(* The steps of a rollback.                                                  *)

LEMMA BeginRollbackKept ==
    ASSUME LedgerInv, NEW b \in Rollbacks, BeginRollback(b)
    PROVE  LedgerInv'
<1>1. b \in Operations /\ Typed /\ Shape(b) /\ resources \subseteq Restores
  BY DEF LedgerInv, ShapeInv, Operations
<1>2. Typed'
  BY <1>1, LedgerAssumption DEF Typed, TypeOK, Operations, Statuses, RollbackActive,
                                RollbackEnded, RestoreActive, durable, memory,
                                BeginRollback, StartRollback
<1>3. Alone(b)
  BY <1>1, LedgerAssumption DEF Alone, Same, Typed, TypeOK, durable, memory, BeginRollback,
                                StartRollback
<1>4. Shape(b)' /\ resources' \subseteq Restores
  BY <1>1, LedgerAssumption DEF Shape, FreshUntouched, Waiting, Untouched, CreatesInSlot,
                                RowTrue, PhaseTrue, RollbackKept, RestoreKept, Typed,
                                TypeOK, durable, memory, RollbackActive, RollbackEnded,
                                RestoreActive, BeginRollback, StartRollback
<1>5. LockStep(b)
  BY <1>1, LedgerAssumption DEF LockStep, Unfinished, LedgerInv, LockFollowsOperation,
                                Shape, FreshUntouched, Waiting, PhaseTrue, RestoreKept,
                                Typed, TypeOK, durable, memory, RollbackActive,
                                RollbackEnded, RestoreActive, BeginRollback, StartRollback
<1>6. CountStep(b)
  BY <1>1, LedgerAssumption DEF CountStep, Counted, Live, Standing, Shape, FreshUntouched,
                                Waiting, Untouched, CreatesInSlot, RowTrue, PhaseTrue,
                                RollbackKept, RestoreKept, Typed, TypeOK, durable, memory,
                                RollbackActive, RollbackEnded, RestoreActive, BeginRollback,
                                StartRollback
<1>7. QED
  BY <1>1, <1>2, <1>3, <1>4, <1>5, <1>6, StepOfOperation

LEMMA ClaimQueuedRollbackKept ==
    ASSUME LedgerInv, NEW b \in Rollbacks, ClaimQueuedRollback(b)
    PROVE  LedgerInv'
<1>1. b \in Operations /\ Typed /\ Shape(b) /\ resources \subseteq Restores
  BY DEF LedgerInv, ShapeInv, Operations
<1>2. Typed'
  BY <1>1, LedgerAssumption DEF Typed, TypeOK, Operations, Statuses, RollbackActive,
                                RollbackEnded, RestoreActive, durable, memory,
                                ClaimQueuedRollback, NoFault, Fault, StartRollback
<1>3. Alone(b)
  BY <1>1, LedgerAssumption DEF Alone, Same, Typed, TypeOK, durable, memory,
                                ClaimQueuedRollback, NoFault, Fault, StartRollback
<1>4. Shape(b)' /\ resources' \subseteq Restores
  BY <1>1, LedgerAssumption DEF Shape, FreshUntouched, Waiting, Untouched, CreatesInSlot,
                                RowTrue, PhaseTrue, RollbackKept, RestoreKept, Typed,
                                TypeOK, durable, memory, RollbackActive, RollbackEnded,
                                RestoreActive, ClaimQueuedRollback, NoFault, Fault,
                                StartRollback
<1>5. LockStep(b)
  BY <1>1, LedgerAssumption DEF LockStep, Unfinished, LedgerInv, LockFollowsOperation,
                                Shape, FreshUntouched, Waiting, PhaseTrue, RestoreKept,
                                Typed, TypeOK, durable, memory, RollbackActive,
                                RollbackEnded, RestoreActive, ClaimQueuedRollback, NoFault,
                                Fault, StartRollback
<1>6. CountStep(b)
  BY <1>1, LedgerAssumption DEF CountStep, Counted, Live, Standing, Shape, FreshUntouched,
                                Waiting, Untouched, CreatesInSlot, RowTrue, PhaseTrue,
                                RollbackKept, RestoreKept, Typed, TypeOK, durable, memory,
                                RollbackActive, RollbackEnded, RestoreActive,
                                ClaimQueuedRollback, NoFault, Fault, StartRollback
<1>7. QED
  BY <1>1, <1>2, <1>3, <1>4, <1>5, <1>6, StepOfOperation

LEMMA CreateRollbackKept ==
    ASSUME LedgerInv, NEW b \in Rollbacks, CreateRollback(b)
    PROVE  LedgerInv'
<1>1. b \in Operations /\ Typed /\ Shape(b) /\ resources \subseteq Restores
  BY DEF LedgerInv, ShapeInv, Operations
<1>2. Typed'
  BY <1>1, LedgerAssumption DEF Typed, TypeOK, Operations, Statuses, RollbackActive,
                                RollbackEnded, RestoreActive, durable, memory,
                                CreateRollback, RollbackGoes, RestMemory
<1>3. Alone(b)
  BY <1>1, LedgerAssumption DEF Alone, Same, Typed, TypeOK, durable, memory, CreateRollback,
                                RollbackGoes, RestMemory
<1>4. Shape(b)' /\ resources' \subseteq Restores
  BY <1>1, LedgerAssumption DEF Shape, FreshUntouched, Waiting, Untouched, CreatesInSlot,
                                RowTrue, PhaseTrue, RollbackKept, RestoreKept, Typed,
                                TypeOK, durable, memory, RollbackActive, RollbackEnded,
                                RestoreActive, CreateRollback, RollbackGoes, RestMemory
<1>5. LockStep(b)
  BY <1>1, LedgerAssumption DEF LockStep, Unfinished, LedgerInv, LockFollowsOperation,
                                Shape, FreshUntouched, Waiting, PhaseTrue, RestoreKept,
                                Typed, TypeOK, durable, memory, RollbackActive,
                                RollbackEnded, RestoreActive, CreateRollback, RollbackGoes,
                                RestMemory
<1>6. CountStep(b)
  BY <1>1, LedgerAssumption DEF CountStep, Counted, Live, Standing, Shape, FreshUntouched,
                                Waiting, Untouched, CreatesInSlot, RowTrue, PhaseTrue,
                                RollbackKept, RestoreKept, Typed, TypeOK, durable, memory,
                                RollbackActive, RollbackEnded, RestoreActive,
                                CreateRollback, RollbackGoes, RestMemory
<1>7. QED
  BY <1>1, <1>2, <1>3, <1>4, <1>5, <1>6, StepOfOperation

LEMMA RegisterRollbackKept ==
    ASSUME LedgerInv, NEW b \in Rollbacks, RegisterRollback(b)
    PROVE  LedgerInv'
<1>1. b \in Operations /\ Typed /\ Shape(b) /\ resources \subseteq Restores
  BY DEF LedgerInv, ShapeInv, Operations
<1>2. Typed'
  BY <1>1, LedgerAssumption DEF Typed, TypeOK, Operations, Statuses, RollbackActive,
                                RollbackEnded, RestoreActive, Release, durable, memory,
                                RegisterRollback, RollbackGoes, RestMemory, NoFault, Fault,
                                DoRegisterRollback, KillTried, KillConfirmed
<1>3. Alone(b)
  BY <1>1, LedgerAssumption DEF Alone, Same, Typed, TypeOK, durable, memory,
                                RegisterRollback, RollbackGoes, RestMemory, NoFault, Fault,
                                DoRegisterRollback, KillTried, KillConfirmed
<1>4. Shape(b)' /\ resources' \subseteq Restores
  BY <1>1, LedgerAssumption DEF Shape, FreshUntouched, Waiting, Untouched, CreatesInSlot,
                                RowTrue, PhaseTrue, RollbackKept, RestoreKept, Typed,
                                TypeOK, durable, memory, RollbackActive, RollbackEnded,
                                RestoreActive, RegisterRollback, RollbackGoes, RestMemory,
                                NoFault, Fault, DoRegisterRollback, KillTried, KillConfirmed
<1>5. LockStep(b)
  BY <1>1, LedgerAssumption DEF LockStep, Unfinished, LedgerInv, LockFollowsOperation,
                                Shape, FreshUntouched, Waiting, PhaseTrue, RestoreKept,
                                Typed, TypeOK, durable, memory, RollbackActive,
                                RollbackEnded, RestoreActive, RegisterRollback,
                                RollbackGoes, RestMemory, NoFault, Fault,
                                DoRegisterRollback, KillTried, KillConfirmed
<1>6. CountStep(b)
  BY <1>1, LedgerAssumption DEF CountStep, Counted, Live, Standing, Shape, FreshUntouched,
                                Waiting, Untouched, CreatesInSlot, RowTrue, PhaseTrue,
                                RollbackKept, RestoreKept, Typed, TypeOK, durable, memory,
                                RollbackActive, RollbackEnded, RestoreActive,
                                RegisterRollback, RollbackGoes, RestMemory, NoFault, Fault,
                                DoRegisterRollback, KillTried, KillConfirmed
<1>7. QED
  BY <1>1, <1>2, <1>3, <1>4, <1>5, <1>6, StepOfOperation

LEMMA BuildRollbackKept ==
    ASSUME LedgerInv, NEW b \in Rollbacks, BuildRollback(b)
    PROVE  LedgerInv'
<1>1. b \in Operations /\ Typed /\ Shape(b) /\ resources \subseteq Restores
  BY DEF LedgerInv, ShapeInv, Operations
<1>2. Typed'
  BY <1>1, LedgerAssumption DEF Typed, TypeOK, Operations, Statuses, RollbackActive,
                                RollbackEnded, RestoreActive, durable, memory,
                                BuildRollback, RollbackGoes, RestMemory, KillTried,
                                KillConfirmed
<1>3. Alone(b)
  BY <1>1, LedgerAssumption DEF Alone, Same, Typed, TypeOK, durable, memory, BuildRollback,
                                RollbackGoes, RestMemory, KillTried, KillConfirmed
<1>4. Shape(b)' /\ resources' \subseteq Restores
  BY <1>1, LedgerAssumption DEF Shape, FreshUntouched, Waiting, Untouched, CreatesInSlot,
                                RowTrue, PhaseTrue, RollbackKept, RestoreKept, Typed,
                                TypeOK, durable, memory, RollbackActive, RollbackEnded,
                                RestoreActive, BuildRollback, RollbackGoes, RestMemory,
                                KillTried, KillConfirmed
<1>5. LockStep(b)
  BY <1>1, LedgerAssumption DEF LockStep, Unfinished, LedgerInv, LockFollowsOperation,
                                Shape, FreshUntouched, Waiting, PhaseTrue, RestoreKept,
                                Typed, TypeOK, durable, memory, RollbackActive,
                                RollbackEnded, RestoreActive, BuildRollback, RollbackGoes,
                                RestMemory, KillTried, KillConfirmed
<1>6. CountStep(b)
  BY <1>1, LedgerAssumption DEF CountStep, Counted, Live, Standing, Shape, FreshUntouched,
                                Waiting, Untouched, CreatesInSlot, RowTrue, PhaseTrue,
                                RollbackKept, RestoreKept, Typed, TypeOK, durable, memory,
                                RollbackActive, RollbackEnded, RestoreActive, BuildRollback,
                                RollbackGoes, RestMemory, KillTried, KillConfirmed
<1>7. QED
  BY <1>1, <1>2, <1>3, <1>4, <1>5, <1>6, StepOfOperation

LEMMA MarkPreparedKept ==
    ASSUME LedgerInv, NEW b \in Rollbacks, MarkPrepared(b)
    PROVE  LedgerInv'
<1>1. b \in Operations /\ Typed /\ Shape(b) /\ resources \subseteq Restores
  BY DEF LedgerInv, ShapeInv, Operations
<1>2. Typed'
  BY <1>1, LedgerAssumption DEF Typed, TypeOK, Operations, Statuses, RollbackActive,
                                RollbackEnded, RestoreActive, Release, durable, memory,
                                MarkPrepared, RollbackGoes, RestMemory, NoFault, Fault,
                                DoMarkPrepared
<1>3. Alone(b)
  BY <1>1, LedgerAssumption DEF Alone, Same, Typed, TypeOK, durable, memory, MarkPrepared,
                                RollbackGoes, RestMemory, NoFault, Fault, DoMarkPrepared
<1>4. Shape(b)' /\ resources' \subseteq Restores
  BY <1>1, LedgerAssumption DEF Shape, FreshUntouched, Waiting, Untouched, CreatesInSlot,
                                RowTrue, PhaseTrue, RollbackKept, RestoreKept, Typed,
                                TypeOK, durable, memory, RollbackActive, RollbackEnded,
                                RestoreActive, MarkPrepared, RollbackGoes, RestMemory,
                                NoFault, Fault, DoMarkPrepared
<1>5. LockStep(b)
  BY <1>1, LedgerAssumption DEF LockStep, Unfinished, LedgerInv, LockFollowsOperation,
                                Shape, FreshUntouched, Waiting, PhaseTrue, RestoreKept,
                                Typed, TypeOK, durable, memory, RollbackActive,
                                RollbackEnded, RestoreActive, MarkPrepared, RollbackGoes,
                                RestMemory, NoFault, Fault, DoMarkPrepared
<1>6. CountStep(b)
  BY <1>1, LedgerAssumption DEF CountStep, Counted, Live, Standing, Shape, FreshUntouched,
                                Waiting, Untouched, CreatesInSlot, RowTrue, PhaseTrue,
                                RollbackKept, RestoreKept, Typed, TypeOK, durable, memory,
                                RollbackActive, RollbackEnded, RestoreActive, MarkPrepared,
                                RollbackGoes, RestMemory, NoFault, Fault, DoMarkPrepared
<1>7. QED
  BY <1>1, <1>2, <1>3, <1>4, <1>5, <1>6, StepOfOperation

LEMMA CommitRollbackKept ==
    ASSUME LedgerInv, NEW b \in Rollbacks, CommitRollback(b)
    PROVE  LedgerInv'
<1>1. b \in Operations /\ Typed /\ Shape(b) /\ resources \subseteq Restores
  BY DEF LedgerInv, ShapeInv, Operations
<1>2. Typed'
  BY <1>1, LedgerAssumption DEF Typed, TypeOK, Operations, Statuses, Versions,
                                RollbackActive, RollbackEnded, RestoreActive, Release,
                                durable, memory, CommitRollback, RollbackGoes, NoFault,
                                Fault, DoCommitRollback, Committable
<1>3. Alone(b)
  BY <1>1, LedgerAssumption DEF Alone, Same, Typed, TypeOK, durable, memory, CommitRollback,
                                RollbackGoes, NoFault, Fault, DoCommitRollback, Committable
<1>4. Shape(b)' /\ resources' \subseteq Restores
  BY <1>1, LedgerAssumption DEF Shape, FreshUntouched, Waiting, Untouched, CreatesInSlot,
                                RowTrue, PhaseTrue, RollbackKept, RestoreKept, Typed,
                                TypeOK, durable, memory, RollbackActive, RollbackEnded,
                                RestoreActive, CommitRollback, RollbackGoes, NoFault, Fault,
                                DoCommitRollback, Committable
<1>5. LockStep(b)
  BY <1>1, LedgerAssumption DEF LockStep, Unfinished, LedgerInv, LockFollowsOperation,
                                Shape, FreshUntouched, Waiting, PhaseTrue, RestoreKept,
                                Typed, TypeOK, durable, memory, RollbackActive,
                                RollbackEnded, RestoreActive, CommitRollback, RollbackGoes,
                                NoFault, Fault, DoCommitRollback, Committable
<1>6. CountStep(b)
  BY <1>1, LedgerAssumption DEF CountStep, Counted, Live, Standing, Shape, FreshUntouched,
                                Waiting, Untouched, CreatesInSlot, RowTrue, PhaseTrue,
                                RollbackKept, RestoreKept, Typed, TypeOK, durable, memory,
                                RollbackActive, RollbackEnded, RestoreActive,
                                CommitRollback, RollbackGoes, NoFault, Fault,
                                DoCommitRollback, Committable
<1>7. QED
  BY <1>1, <1>2, <1>3, <1>4, <1>5, <1>6, StepOfOperation

LEMMA CatchRollbackKept ==
    ASSUME LedgerInv, NEW b \in Rollbacks, CatchRollback(b)
    PROVE  LedgerInv'
<1>1. b \in Operations /\ Typed /\ Shape(b) /\ resources \subseteq Restores
  BY DEF LedgerInv, ShapeInv, Operations
<1>2. Typed'
  BY <1>1, LedgerAssumption DEF Typed, TypeOK, Operations, Statuses, RollbackActive,
                                RollbackEnded, RestoreActive, durable, memory,
                                CatchRollback, RollbackGoes, NoFault, Fault, OrphanKill,
                                KillConfirmed, KillUnconfirmed
<1>3. Alone(b)
  BY <1>1, LedgerAssumption DEF Alone, Same, Typed, TypeOK, durable, memory, CatchRollback,
                                RollbackGoes, NoFault, Fault, OrphanKill, KillConfirmed,
                                KillUnconfirmed
<1>4. Shape(b)' /\ resources' \subseteq Restores
  BY <1>1, LedgerAssumption DEF Shape, FreshUntouched, Waiting, Untouched, CreatesInSlot,
                                RowTrue, PhaseTrue, RollbackKept, RestoreKept, Typed,
                                TypeOK, durable, memory, RollbackActive, RollbackEnded,
                                RestoreActive, CatchRollback, RollbackGoes, NoFault, Fault,
                                OrphanKill, KillConfirmed, KillUnconfirmed
<1>5. LockStep(b)
  BY <1>1, LedgerAssumption DEF LockStep, Unfinished, LedgerInv, LockFollowsOperation,
                                Shape, FreshUntouched, Waiting, PhaseTrue, RestoreKept,
                                Typed, TypeOK, durable, memory, RollbackActive,
                                RollbackEnded, RestoreActive, CatchRollback, RollbackGoes,
                                NoFault, Fault, OrphanKill, KillConfirmed, KillUnconfirmed
<1>6. CountStep(b)
  BY <1>1, LedgerAssumption DEF CountStep, Counted, Live, Standing, Shape, FreshUntouched,
                                Waiting, Untouched, CreatesInSlot, RowTrue, PhaseTrue,
                                RollbackKept, RestoreKept, Typed, TypeOK, durable, memory,
                                RollbackActive, RollbackEnded, RestoreActive, CatchRollback,
                                RollbackGoes, NoFault, Fault, OrphanKill, KillConfirmed,
                                KillUnconfirmed
<1>7. QED
  BY <1>1, <1>2, <1>3, <1>4, <1>5, <1>6, StepOfOperation

LEMMA FailRollbackKept ==
    ASSUME LedgerInv, NEW b \in Rollbacks, FailRollback(b)
    PROVE  LedgerInv'
<1>1. b \in Operations /\ Typed /\ Shape(b) /\ resources \subseteq Restores
  BY DEF LedgerInv, ShapeInv, Operations
<1>2. Typed'
  BY <1>1, LedgerAssumption DEF Typed, TypeOK, Operations, Statuses, RollbackActive,
                                RollbackEnded, RestoreActive, Release, durable, memory,
                                FailRollback, RollbackGoes, NoFault, Fault, DoFailRollback
<1>3. Alone(b)
  BY <1>1, LedgerAssumption DEF Alone, Same, Typed, TypeOK, durable, memory, FailRollback,
                                RollbackGoes, NoFault, Fault, DoFailRollback
<1>4. Shape(b)' /\ resources' \subseteq Restores
  BY <1>1, LedgerAssumption DEF Shape, FreshUntouched, Waiting, Untouched, CreatesInSlot,
                                RowTrue, PhaseTrue, RollbackKept, RestoreKept, Typed,
                                TypeOK, durable, memory, RollbackActive, RollbackEnded,
                                RestoreActive, FailRollback, RollbackGoes, NoFault, Fault,
                                DoFailRollback
<1>5. LockStep(b)
  BY <1>1, LedgerAssumption DEF LockStep, Unfinished, LedgerInv, LockFollowsOperation,
                                Shape, FreshUntouched, Waiting, PhaseTrue, RestoreKept,
                                Typed, TypeOK, durable, memory, RollbackActive,
                                RollbackEnded, RestoreActive, FailRollback, RollbackGoes,
                                NoFault, Fault, DoFailRollback
<1>6. CountStep(b)
  BY <1>1, LedgerAssumption DEF CountStep, Counted, Live, Standing, Shape, FreshUntouched,
                                Waiting, Untouched, CreatesInSlot, RowTrue, PhaseTrue,
                                RollbackKept, RestoreKept, Typed, TypeOK, durable, memory,
                                RollbackActive, RollbackEnded, RestoreActive, FailRollback,
                                RollbackGoes, NoFault, Fault, DoFailRollback
<1>7. QED
  BY <1>1, <1>2, <1>3, <1>4, <1>5, <1>6, StepOfOperation

LEMMA KillRollbackKept ==
    ASSUME LedgerInv, NEW b \in Rollbacks, KillRollback(b)
    PROVE  LedgerInv'
<1>1. b \in Operations /\ Typed /\ Shape(b) /\ resources \subseteq Restores
  BY DEF LedgerInv, ShapeInv, Operations
<1>2. Typed'
  BY <1>1, LedgerAssumption DEF Typed, TypeOK, Operations, Statuses, RollbackActive,
                                RollbackEnded, RestoreActive, durable, memory, KillRollback,
                                RollbackGoes, NoFault, Fault, KillConfirmed, KillUnconfirmed
<1>3. Alone(b)
  BY <1>1, LedgerAssumption DEF Alone, Same, Typed, TypeOK, durable, memory, KillRollback,
                                RollbackGoes, NoFault, Fault, KillConfirmed, KillUnconfirmed
<1>4. Shape(b)' /\ resources' \subseteq Restores
  BY <1>1, LedgerAssumption DEF Shape, FreshUntouched, Waiting, Untouched, CreatesInSlot,
                                RowTrue, PhaseTrue, RollbackKept, RestoreKept, Typed,
                                TypeOK, durable, memory, RollbackActive, RollbackEnded,
                                RestoreActive, KillRollback, RollbackGoes, NoFault, Fault,
                                KillConfirmed, KillUnconfirmed
<1>5. LockStep(b)
  BY <1>1, LedgerAssumption DEF LockStep, Unfinished, LedgerInv, LockFollowsOperation,
                                Shape, FreshUntouched, Waiting, PhaseTrue, RestoreKept,
                                Typed, TypeOK, durable, memory, RollbackActive,
                                RollbackEnded, RestoreActive, KillRollback, RollbackGoes,
                                NoFault, Fault, KillConfirmed, KillUnconfirmed
<1>6. CountStep(b)
  BY <1>1, LedgerAssumption DEF CountStep, Counted, Live, Standing, Shape, FreshUntouched,
                                Waiting, Untouched, CreatesInSlot, RowTrue, PhaseTrue,
                                RollbackKept, RestoreKept, Typed, TypeOK, durable, memory,
                                RollbackActive, RollbackEnded, RestoreActive, KillRollback,
                                RollbackGoes, NoFault, Fault, KillConfirmed, KillUnconfirmed
<1>7. QED
  BY <1>1, <1>2, <1>3, <1>4, <1>5, <1>6, StepOfOperation

LEMMA MarkRollbackDestroyedKept ==
    ASSUME LedgerInv, NEW b \in Rollbacks, MarkRollbackDestroyed(b)
    PROVE  LedgerInv'
<1>1. b \in Operations /\ Typed /\ Shape(b) /\ resources \subseteq Restores
  BY DEF LedgerInv, ShapeInv, Operations
<1>2. Typed'
  BY <1>1, LedgerAssumption DEF Typed, TypeOK, Operations, Statuses, RollbackActive,
                                RollbackEnded, RestoreActive, Release, durable, memory,
                                MarkRollbackDestroyed, RollbackGoes, NoFault, Fault,
                                DoMarkRollbackDestroyed
<1>3. Alone(b)
  BY <1>1, LedgerAssumption DEF Alone, Same, Typed, TypeOK, durable, memory,
                                MarkRollbackDestroyed, RollbackGoes, NoFault, Fault,
                                DoMarkRollbackDestroyed
<1>4. Shape(b)' /\ resources' \subseteq Restores
  BY <1>1, LedgerAssumption DEF Shape, FreshUntouched, Waiting, Untouched, CreatesInSlot,
                                RowTrue, PhaseTrue, RollbackKept, RestoreKept, Typed,
                                TypeOK, durable, memory, RollbackActive, RollbackEnded,
                                RestoreActive, MarkRollbackDestroyed, RollbackGoes, NoFault,
                                Fault, DoMarkRollbackDestroyed
<1>5. LockStep(b)
  BY <1>1, LedgerAssumption DEF LockStep, Unfinished, LedgerInv, LockFollowsOperation,
                                Shape, FreshUntouched, Waiting, PhaseTrue, RestoreKept,
                                Typed, TypeOK, durable, memory, RollbackActive,
                                RollbackEnded, RestoreActive, MarkRollbackDestroyed,
                                RollbackGoes, NoFault, Fault, DoMarkRollbackDestroyed
<1>6. CountStep(b)
  BY <1>1, LedgerAssumption DEF CountStep, Counted, Live, Standing, Shape, FreshUntouched,
                                Waiting, Untouched, CreatesInSlot, RowTrue, PhaseTrue,
                                RollbackKept, RestoreKept, Typed, TypeOK, durable, memory,
                                RollbackActive, RollbackEnded, RestoreActive,
                                MarkRollbackDestroyed, RollbackGoes, NoFault, Fault,
                                DoMarkRollbackDestroyed
<1>7. QED
  BY <1>1, <1>2, <1>3, <1>4, <1>5, <1>6, StepOfOperation

LEMMA ReconcileRollbackKept ==
    ASSUME LedgerInv, NEW b \in Rollbacks, ReconcileRollback(b)
    PROVE  LedgerInv'
<1>1. b \in Operations /\ Typed /\ Shape(b) /\ resources \subseteq Restores
  BY DEF LedgerInv, ShapeInv, Operations
<1>2. Typed'
  BY <1>1, LedgerAssumption DEF Typed, TypeOK, Operations, Statuses, RollbackActive,
                                RollbackEnded, RestoreActive, durable, memory,
                                ReconcileRollback, RollbackGoes
<1>3. Alone(b)
  BY <1>1, LedgerAssumption DEF Alone, Same, Typed, TypeOK, durable, memory,
                                ReconcileRollback, RollbackGoes
<1>4. Shape(b)' /\ resources' \subseteq Restores
  BY <1>1, LedgerAssumption DEF Shape, FreshUntouched, Waiting, Untouched, CreatesInSlot,
                                RowTrue, PhaseTrue, RollbackKept, RestoreKept, Typed,
                                TypeOK, durable, memory, RollbackActive, RollbackEnded,
                                RestoreActive, ReconcileRollback, RollbackGoes
<1>5. LockStep(b)
  BY <1>1, LedgerAssumption DEF LockStep, Unfinished, LedgerInv, LockFollowsOperation,
                                Shape, FreshUntouched, Waiting, PhaseTrue, RestoreKept,
                                Typed, TypeOK, durable, memory, RollbackActive,
                                RollbackEnded, RestoreActive, ReconcileRollback,
                                RollbackGoes
<1>6. CountStep(b)
  BY <1>1, LedgerAssumption DEF CountStep, Counted, Live, Standing, Shape, FreshUntouched,
                                Waiting, Untouched, CreatesInSlot, RowTrue, PhaseTrue,
                                RollbackKept, RestoreKept, Typed, TypeOK, durable, memory,
                                RollbackActive, RollbackEnded, RestoreActive,
                                ReconcileRollback, RollbackGoes
<1>7. QED
  BY <1>1, <1>2, <1>3, <1>4, <1>5, <1>6, StepOfOperation

LEMMA VerifyRollbackKept ==
    ASSUME LedgerInv, NEW b \in Rollbacks, VerifyRollback(b)
    PROVE  LedgerInv'
<1>1. b \in Operations /\ Typed /\ Shape(b) /\ resources \subseteq Restores
  BY DEF LedgerInv, ShapeInv, Operations
<1>2. Typed'
  BY <1>1, LedgerAssumption DEF Typed, TypeOK, Operations, Statuses, Versions,
                                RollbackActive, RollbackEnded, RestoreActive, Release,
                                durable, memory, VerifyRollback, RollbackGoes, NoFault,
                                Fault, DoCommitRollback, Committable
<1>3. Alone(b)
  BY <1>1, LedgerAssumption DEF Alone, Same, Typed, TypeOK, durable, memory, VerifyRollback,
                                RollbackGoes, NoFault, Fault, DoCommitRollback, Committable
<1>4. Shape(b)' /\ resources' \subseteq Restores
  BY <1>1, LedgerAssumption DEF Shape, FreshUntouched, Waiting, Untouched, CreatesInSlot,
                                RowTrue, PhaseTrue, RollbackKept, RestoreKept, Typed,
                                TypeOK, durable, memory, RollbackActive, RollbackEnded,
                                RestoreActive, VerifyRollback, RollbackGoes, NoFault, Fault,
                                DoCommitRollback, Committable
<1>5. LockStep(b)
  BY <1>1, LedgerAssumption DEF LockStep, Unfinished, LedgerInv, LockFollowsOperation,
                                Shape, FreshUntouched, Waiting, PhaseTrue, RestoreKept,
                                Typed, TypeOK, durable, memory, RollbackActive,
                                RollbackEnded, RestoreActive, VerifyRollback, RollbackGoes,
                                NoFault, Fault, DoCommitRollback, Committable
<1>6. CountStep(b)
  BY <1>1, LedgerAssumption DEF CountStep, Counted, Live, Standing, Shape, FreshUntouched,
                                Waiting, Untouched, CreatesInSlot, RowTrue, PhaseTrue,
                                RollbackKept, RestoreKept, Typed, TypeOK, durable, memory,
                                RollbackActive, RollbackEnded, RestoreActive,
                                VerifyRollback, RollbackGoes, NoFault, Fault,
                                DoCommitRollback, Committable
<1>7. QED
  BY <1>1, <1>2, <1>3, <1>4, <1>5, <1>6, StepOfOperation

LEMMA SignalRollbackKept ==
    ASSUME LedgerInv, NEW b \in Rollbacks, SignalRollback(b)
    PROVE  LedgerInv'
<1>1. b \in Operations /\ Typed /\ Shape(b) /\ resources \subseteq Restores
  BY DEF LedgerInv, ShapeInv, Operations
<1>2. Typed'
  BY <1>1, LedgerAssumption DEF Typed, TypeOK, Operations, Statuses, RollbackActive,
                                RollbackEnded, RestoreActive, durable, memory,
                                SignalRollback
<1>3. Alone(b)
  BY <1>1, LedgerAssumption DEF Alone, Same, Typed, TypeOK, durable, memory, SignalRollback
<1>4. Shape(b)' /\ resources' \subseteq Restores
  BY <1>1, LedgerAssumption DEF Shape, FreshUntouched, Waiting, Untouched, CreatesInSlot,
                                RowTrue, PhaseTrue, RollbackKept, RestoreKept, Typed,
                                TypeOK, durable, memory, RollbackActive, RollbackEnded,
                                RestoreActive, SignalRollback
<1>5. LockStep(b)
  BY <1>1, LedgerAssumption DEF LockStep, Unfinished, LedgerInv, LockFollowsOperation,
                                Shape, FreshUntouched, Waiting, PhaseTrue, RestoreKept,
                                Typed, TypeOK, durable, memory, RollbackActive,
                                RollbackEnded, RestoreActive, SignalRollback
<1>6. CountStep(b)
  BY <1>1, LedgerAssumption DEF CountStep, Counted, Live, Standing, Shape, FreshUntouched,
                                Waiting, Untouched, CreatesInSlot, RowTrue, PhaseTrue,
                                RollbackKept, RestoreKept, Typed, TypeOK, durable, memory,
                                RollbackActive, RollbackEnded, RestoreActive, SignalRollback
<1>7. QED
  BY <1>1, <1>2, <1>3, <1>4, <1>5, <1>6, StepOfOperation

LEMMA CleanExpiredCommittedKept ==
    ASSUME LedgerInv, NEW b \in Rollbacks, CleanExpiredCommitted(b)
    PROVE  LedgerInv'
<1>1. b \in Operations /\ Typed /\ Shape(b) /\ resources \subseteq Restores
  BY DEF LedgerInv, ShapeInv, Operations
<1>2. Typed'
  BY <1>1, LedgerAssumption DEF Typed, TypeOK, Operations, Statuses, RollbackActive,
                                RollbackEnded, RestoreActive, durable, memory,
                                CleanExpiredCommitted, KillConfirmed
<1>3. Alone(b)
  BY <1>1, LedgerAssumption DEF Alone, Same, Typed, TypeOK, durable, memory,
                                CleanExpiredCommitted, KillConfirmed
<1>4. Shape(b)' /\ resources' \subseteq Restores
  BY <1>1, LedgerAssumption DEF Shape, FreshUntouched, Waiting, Untouched, CreatesInSlot,
                                RowTrue, PhaseTrue, RollbackKept, RestoreKept, Typed,
                                TypeOK, durable, memory, RollbackActive, RollbackEnded,
                                RestoreActive, CleanExpiredCommitted, KillConfirmed
<1>5. LockStep(b)
  BY <1>1, LedgerAssumption DEF LockStep, Unfinished, LedgerInv, LockFollowsOperation,
                                Shape, FreshUntouched, Waiting, PhaseTrue, RestoreKept,
                                Typed, TypeOK, durable, memory, RollbackActive,
                                RollbackEnded, RestoreActive, CleanExpiredCommitted,
                                KillConfirmed
<1>6. CountStep(b)
  BY <1>1, LedgerAssumption DEF CountStep, Counted, Live, Standing, Shape, FreshUntouched,
                                Waiting, Untouched, CreatesInSlot, RowTrue, PhaseTrue,
                                RollbackKept, RestoreKept, Typed, TypeOK, durable, memory,
                                RollbackActive, RollbackEnded, RestoreActive,
                                CleanExpiredCommitted, KillConfirmed
<1>7. QED
  BY <1>1, <1>2, <1>3, <1>4, <1>5, <1>6, StepOfOperation

LEMMA KillUnregisteredKept ==
    ASSUME LedgerInv, NEW b \in Rollbacks, KillUnregistered(b)
    PROVE  LedgerInv'
<1>1. b \in Operations /\ Typed /\ Shape(b) /\ resources \subseteq Restores
  BY DEF LedgerInv, ShapeInv, Operations
<1>2. Typed'
  BY <1>1, LedgerAssumption DEF Typed, TypeOK, Operations, Statuses, RollbackActive,
                                RollbackEnded, RestoreActive, durable, memory,
                                KillUnregistered, KillConfirmed
<1>3. Alone(b)
  BY <1>1, LedgerAssumption DEF Alone, Same, Typed, TypeOK, durable, memory,
                                KillUnregistered, KillConfirmed
<1>4. Shape(b)' /\ resources' \subseteq Restores
  BY <1>1, LedgerAssumption DEF Shape, FreshUntouched, Waiting, Untouched, CreatesInSlot,
                                RowTrue, PhaseTrue, RollbackKept, RestoreKept, Typed,
                                TypeOK, durable, memory, RollbackActive, RollbackEnded,
                                RestoreActive, KillUnregistered, KillConfirmed
<1>5. LockStep(b)
  BY <1>1, LedgerAssumption DEF LockStep, Unfinished, LedgerInv, LockFollowsOperation,
                                Shape, FreshUntouched, Waiting, PhaseTrue, RestoreKept,
                                Typed, TypeOK, durable, memory, RollbackActive,
                                RollbackEnded, RestoreActive, KillUnregistered,
                                KillConfirmed
<1>6. CountStep(b)
  BY <1>1, LedgerAssumption DEF CountStep, Counted, Live, Standing, Shape, FreshUntouched,
                                Waiting, Untouched, CreatesInSlot, RowTrue, PhaseTrue,
                                RollbackKept, RestoreKept, Typed, TypeOK, durable, memory,
                                RollbackActive, RollbackEnded, RestoreActive,
                                KillUnregistered, KillConfirmed
<1>7. QED
  BY <1>1, <1>2, <1>3, <1>4, <1>5, <1>6, StepOfOperation

LEMMA CatchUnreadKept ==
    ASSUME LedgerInv, NEW b \in Rollbacks, CatchUnread(b)
    PROVE  LedgerInv'
<1>1. b \in Operations /\ Typed /\ Shape(b) /\ resources \subseteq Restores
  BY DEF LedgerInv, ShapeInv, Operations
<1>2. Typed'
  BY <1>1, LedgerAssumption DEF Typed, TypeOK, Operations, Statuses, RollbackActive,
                                RollbackEnded, RestoreActive, durable, memory, CatchUnread,
                                RollbackGoes, NoFault, Fault, KillConfirmed
<1>3. Alone(b)
  BY <1>1, LedgerAssumption DEF Alone, Same, Typed, TypeOK, durable, memory, CatchUnread,
                                RollbackGoes, NoFault, Fault, KillConfirmed
<1>4. Shape(b)' /\ resources' \subseteq Restores
  BY <1>1, LedgerAssumption DEF Shape, FreshUntouched, Waiting, Untouched, CreatesInSlot,
                                RowTrue, PhaseTrue, RollbackKept, RestoreKept, Typed,
                                TypeOK, durable, memory, RollbackActive, RollbackEnded,
                                RestoreActive, CatchUnread, RollbackGoes, NoFault, Fault,
                                KillConfirmed
<1>5. LockStep(b)
  BY <1>1, LedgerAssumption DEF LockStep, Unfinished, LedgerInv, LockFollowsOperation,
                                Shape, FreshUntouched, Waiting, PhaseTrue, RestoreKept,
                                Typed, TypeOK, durable, memory, RollbackActive,
                                RollbackEnded, RestoreActive, CatchUnread, RollbackGoes,
                                NoFault, Fault, KillConfirmed
<1>6. CountStep(b)
  BY <1>1, LedgerAssumption DEF CountStep, Counted, Live, Standing, Shape, FreshUntouched,
                                Waiting, Untouched, CreatesInSlot, RowTrue, PhaseTrue,
                                RollbackKept, RestoreKept, Typed, TypeOK, durable, memory,
                                RollbackActive, RollbackEnded, RestoreActive, CatchUnread,
                                RollbackGoes, NoFault, Fault, KillConfirmed
<1>7. QED
  BY <1>1, <1>2, <1>3, <1>4, <1>5, <1>6, StepOfOperation

LEMMA CancelRollbackKept ==
    ASSUME LedgerInv, NEW b \in Rollbacks, CancelRollback(b)
    PROVE  LedgerInv'
<1>1. b \in Operations /\ Typed /\ Shape(b) /\ resources \subseteq Restores
  BY DEF LedgerInv, ShapeInv, Operations
<1>2. Typed'
  BY <1>1, LedgerAssumption DEF Typed, TypeOK, Operations, Statuses, RollbackActive,
                                RollbackEnded, RestoreActive, durable, memory,
                                CancelRollback
<1>3. Alone(b)
  BY <1>1, LedgerAssumption DEF Alone, Same, Typed, TypeOK, durable, memory, CancelRollback
<1>4. Shape(b)' /\ resources' \subseteq Restores
  BY <1>1, LedgerAssumption DEF Shape, FreshUntouched, Waiting, Untouched, CreatesInSlot,
                                RowTrue, PhaseTrue, RollbackKept, RestoreKept, Typed,
                                TypeOK, durable, memory, RollbackActive, RollbackEnded,
                                RestoreActive, CancelRollback
<1>5. LockStep(b)
  BY <1>1, LedgerAssumption DEF LockStep, Unfinished, LedgerInv, LockFollowsOperation,
                                Shape, FreshUntouched, Waiting, PhaseTrue, RestoreKept,
                                Typed, TypeOK, durable, memory, RollbackActive,
                                RollbackEnded, RestoreActive, CancelRollback
<1>6. CountStep(b)
  BY <1>1, LedgerAssumption DEF CountStep, Counted, Live, Standing, Shape, FreshUntouched,
                                Waiting, Untouched, CreatesInSlot, RowTrue, PhaseTrue,
                                RollbackKept, RestoreKept, Typed, TypeOK, durable, memory,
                                RollbackActive, RollbackEnded, RestoreActive, CancelRollback
<1>7. QED
  BY <1>1, <1>2, <1>3, <1>4, <1>5, <1>6, StepOfOperation

LEMMA RollbackTimeoutKept ==
    ASSUME LedgerInv, NEW b \in Rollbacks, RollbackTimeout(b)
    PROVE  LedgerInv'
<1>1. b \in Operations /\ Typed /\ Shape(b) /\ resources \subseteq Restores
  BY DEF LedgerInv, ShapeInv, Operations
<1>2. Typed'
  BY <1>1, LedgerAssumption DEF Typed, TypeOK, Operations, Statuses, RollbackActive,
                                RollbackEnded, RestoreActive, durable, memory,
                                RollbackTimeout, RestMemory
<1>3. Alone(b)
  BY <1>1, LedgerAssumption DEF Alone, Same, Typed, TypeOK, durable, memory,
                                RollbackTimeout, RestMemory
<1>4. Shape(b)' /\ resources' \subseteq Restores
  BY <1>1, LedgerAssumption DEF Shape, FreshUntouched, Waiting, Untouched, CreatesInSlot,
                                RowTrue, PhaseTrue, RollbackKept, RestoreKept, Typed,
                                TypeOK, durable, memory, RollbackActive, RollbackEnded,
                                RestoreActive, RollbackTimeout, RestMemory
<1>5. LockStep(b)
  BY <1>1, LedgerAssumption DEF LockStep, Unfinished, LedgerInv, LockFollowsOperation,
                                Shape, FreshUntouched, Waiting, PhaseTrue, RestoreKept,
                                Typed, TypeOK, durable, memory, RollbackActive,
                                RollbackEnded, RestoreActive, RollbackTimeout, RestMemory
<1>6. CountStep(b)
  BY <1>1, LedgerAssumption DEF CountStep, Counted, Live, Standing, Shape, FreshUntouched,
                                Waiting, Untouched, CreatesInSlot, RowTrue, PhaseTrue,
                                RollbackKept, RestoreKept, Typed, TypeOK, durable, memory,
                                RollbackActive, RollbackEnded, RestoreActive,
                                RollbackTimeout, RestMemory
<1>7. QED
  BY <1>1, <1>2, <1>3, <1>4, <1>5, <1>6, StepOfOperation

-----------------------------------------------------------------------------
(* The steps of a restore.                                                   *)

LEMMA BeginRestoreKept ==
    ASSUME LedgerInv, NEW r \in Restores, BeginRestore(r)
    PROVE  LedgerInv'
<1>1. r \in Operations /\ Typed /\ Shape(r) /\ resources \subseteq Restores
  BY DEF LedgerInv, ShapeInv, Operations
<1>2. Typed'
  BY <1>1, LedgerAssumption DEF Typed, TypeOK, Operations, Statuses, RollbackActive,
                                RollbackEnded, RestoreActive, durable, memory, BeginRestore
<1>3. Alone(r)
  BY <1>1, LedgerAssumption DEF Alone, Same, Typed, TypeOK, durable, memory, BeginRestore
<1>4. Shape(r)' /\ resources' \subseteq Restores
  BY <1>1, LedgerAssumption DEF Shape, FreshUntouched, Waiting, Untouched, CreatesInSlot,
                                RowTrue, PhaseTrue, RollbackKept, RestoreKept, Typed,
                                TypeOK, durable, memory, RollbackActive, RollbackEnded,
                                RestoreActive, BeginRestore
<1>5. LockStep(r)
  BY <1>1, LedgerAssumption DEF LockStep, Unfinished, LedgerInv, LockFollowsOperation,
                                Shape, FreshUntouched, Waiting, PhaseTrue, RestoreKept,
                                Typed, TypeOK, durable, memory, RollbackActive,
                                RollbackEnded, RestoreActive, BeginRestore
<1>6. CountStep(r)
  BY <1>1, LedgerAssumption DEF CountStep, Counted, Live, Standing, Shape, FreshUntouched,
                                Waiting, Untouched, CreatesInSlot, RowTrue, PhaseTrue,
                                RollbackKept, RestoreKept, Typed, TypeOK, durable, memory,
                                RollbackActive, RollbackEnded, RestoreActive, BeginRestore
<1>7. QED
  BY <1>1, <1>2, <1>3, <1>4, <1>5, <1>6, StepOfOperation

LEMMA ClaimQueuedRestoreKept ==
    ASSUME LedgerInv, NEW r \in Restores, ClaimQueuedRestore(r)
    PROVE  LedgerInv'
<1>1. r \in Operations /\ Typed /\ Shape(r) /\ resources \subseteq Restores
  BY DEF LedgerInv, ShapeInv, Operations
<1>2. Typed'
  BY <1>1, LedgerAssumption DEF Typed, TypeOK, Operations, Statuses, RollbackActive,
                                RollbackEnded, RestoreActive, durable, memory,
                                ClaimQueuedRestore, NoFault, Fault
<1>3. Alone(r)
  BY <1>1, LedgerAssumption DEF Alone, Same, Typed, TypeOK, durable, memory,
                                ClaimQueuedRestore, NoFault, Fault
<1>4. Shape(r)' /\ resources' \subseteq Restores
  BY <1>1, LedgerAssumption DEF Shape, FreshUntouched, Waiting, Untouched, CreatesInSlot,
                                RowTrue, PhaseTrue, RollbackKept, RestoreKept, Typed,
                                TypeOK, durable, memory, RollbackActive, RollbackEnded,
                                RestoreActive, ClaimQueuedRestore, NoFault, Fault
<1>5. LockStep(r)
  BY <1>1, LedgerAssumption DEF LockStep, Unfinished, LedgerInv, LockFollowsOperation,
                                Shape, FreshUntouched, Waiting, PhaseTrue, RestoreKept,
                                Typed, TypeOK, durable, memory, RollbackActive,
                                RollbackEnded, RestoreActive, ClaimQueuedRestore, NoFault,
                                Fault
<1>6. CountStep(r)
  BY <1>1, LedgerAssumption DEF CountStep, Counted, Live, Standing, Shape, FreshUntouched,
                                Waiting, Untouched, CreatesInSlot, RowTrue, PhaseTrue,
                                RollbackKept, RestoreKept, Typed, TypeOK, durable, memory,
                                RollbackActive, RollbackEnded, RestoreActive,
                                ClaimQueuedRestore, NoFault, Fault
<1>7. QED
  BY <1>1, <1>2, <1>3, <1>4, <1>5, <1>6, StepOfOperation

LEMMA CreateRestoreKept ==
    ASSUME LedgerInv, NEW r \in Restores, CreateRestore(r)
    PROVE  LedgerInv'
<1>1. r \in Operations /\ Typed /\ Shape(r) /\ resources \subseteq Restores
  BY DEF LedgerInv, ShapeInv, Operations
<1>2. Typed'
  BY <1>1, LedgerAssumption DEF Typed, TypeOK, Operations, Statuses, RollbackActive,
                                RollbackEnded, RestoreActive, durable, memory,
                                CreateRestore, RestoreGoes, RestoreMemory
<1>3. Alone(r)
  BY <1>1, LedgerAssumption DEF Alone, Same, Typed, TypeOK, durable, memory, CreateRestore,
                                RestoreGoes, RestoreMemory
<1>4. Shape(r)' /\ resources' \subseteq Restores
  BY <1>1, LedgerAssumption DEF Shape, FreshUntouched, Waiting, Untouched, CreatesInSlot,
                                RowTrue, PhaseTrue, RollbackKept, RestoreKept, Typed,
                                TypeOK, durable, memory, RollbackActive, RollbackEnded,
                                RestoreActive, CreateRestore, RestoreGoes, RestoreMemory
<1>5. LockStep(r)
  BY <1>1, LedgerAssumption DEF LockStep, Unfinished, LedgerInv, LockFollowsOperation,
                                Shape, FreshUntouched, Waiting, PhaseTrue, RestoreKept,
                                Typed, TypeOK, durable, memory, RollbackActive,
                                RollbackEnded, RestoreActive, CreateRestore, RestoreGoes,
                                RestoreMemory
<1>6. CountStep(r)
  BY <1>1, LedgerAssumption DEF CountStep, Counted, Live, Standing, Shape, FreshUntouched,
                                Waiting, Untouched, CreatesInSlot, RowTrue, PhaseTrue,
                                RollbackKept, RestoreKept, Typed, TypeOK, durable, memory,
                                RollbackActive, RollbackEnded, RestoreActive, CreateRestore,
                                RestoreGoes, RestoreMemory
<1>7. QED
  BY <1>1, <1>2, <1>3, <1>4, <1>5, <1>6, StepOfOperation

LEMMA RegisterRestoreKept ==
    ASSUME LedgerInv, NEW r \in Restores, RegisterRestore(r)
    PROVE  LedgerInv'
<1>1. r \in Operations /\ Typed /\ Shape(r) /\ resources \subseteq Restores
  BY DEF LedgerInv, ShapeInv, Operations
<1>2. Typed'
  BY <1>1, LedgerAssumption DEF Typed, TypeOK, Operations, Statuses, RollbackActive,
                                RollbackEnded, RestoreActive, Release, durable, memory,
                                RegisterRestore, RestoreGoes, RestoreMemory, NoFault, Fault,
                                DoRegisterRestore, Carried, KillTried, KillConfirmed
<1>3. Alone(r)
  BY <1>1, LedgerAssumption DEF Alone, Same, Typed, TypeOK, durable, memory,
                                RegisterRestore, RestoreGoes, RestoreMemory, NoFault, Fault,
                                DoRegisterRestore, Carried, KillTried, KillConfirmed
<1>4. Shape(r)' /\ resources' \subseteq Restores
  BY <1>1, LedgerAssumption DEF Shape, FreshUntouched, Waiting, Untouched, CreatesInSlot,
                                RowTrue, PhaseTrue, RollbackKept, RestoreKept, Typed,
                                TypeOK, durable, memory, RollbackActive, RollbackEnded,
                                RestoreActive, RegisterRestore, RestoreGoes, RestoreMemory,
                                NoFault, Fault, DoRegisterRestore, Carried, KillTried,
                                KillConfirmed
<1>5. LockStep(r)
  BY <1>1, LedgerAssumption DEF LockStep, Unfinished, LedgerInv, LockFollowsOperation,
                                Shape, FreshUntouched, Waiting, PhaseTrue, RestoreKept,
                                Typed, TypeOK, durable, memory, RollbackActive,
                                RollbackEnded, RestoreActive, RegisterRestore, RestoreGoes,
                                RestoreMemory, NoFault, Fault, DoRegisterRestore, Carried,
                                KillTried, KillConfirmed
<1>6. CountStep(r)
  BY <1>1, LedgerAssumption DEF CountStep, Counted, Live, Standing, Shape, FreshUntouched,
                                Waiting, Untouched, CreatesInSlot, RowTrue, PhaseTrue,
                                RollbackKept, RestoreKept, Typed, TypeOK, durable, memory,
                                RollbackActive, RollbackEnded, RestoreActive,
                                RegisterRestore, RestoreGoes, RestoreMemory, NoFault, Fault,
                                DoRegisterRestore, Carried, KillTried, KillConfirmed
<1>7. QED
  BY <1>1, <1>2, <1>3, <1>4, <1>5, <1>6, StepOfOperation

LEMMA BuildRestoreKept ==
    ASSUME LedgerInv, NEW r \in Restores, BuildRestore(r)
    PROVE  LedgerInv'
<1>1. r \in Operations /\ Typed /\ Shape(r) /\ resources \subseteq Restores
  BY DEF LedgerInv, ShapeInv, Operations
<1>2. Typed'
  BY <1>1, LedgerAssumption DEF Typed, TypeOK, Operations, Statuses, RollbackActive,
                                RollbackEnded, RestoreActive, durable, memory, BuildRestore,
                                RestoreGoes, RestoreMemory, KillTried, KillConfirmed
<1>3. Alone(r)
  BY <1>1, LedgerAssumption DEF Alone, Same, Typed, TypeOK, durable, memory, BuildRestore,
                                RestoreGoes, RestoreMemory, KillTried, KillConfirmed
<1>4. Shape(r)' /\ resources' \subseteq Restores
  BY <1>1, LedgerAssumption DEF Shape, FreshUntouched, Waiting, Untouched, CreatesInSlot,
                                RowTrue, PhaseTrue, RollbackKept, RestoreKept, Typed,
                                TypeOK, durable, memory, RollbackActive, RollbackEnded,
                                RestoreActive, BuildRestore, RestoreGoes, RestoreMemory,
                                KillTried, KillConfirmed
<1>5. LockStep(r)
  BY <1>1, LedgerAssumption DEF LockStep, Unfinished, LedgerInv, LockFollowsOperation,
                                Shape, FreshUntouched, Waiting, PhaseTrue, RestoreKept,
                                Typed, TypeOK, durable, memory, RollbackActive,
                                RollbackEnded, RestoreActive, BuildRestore, RestoreGoes,
                                RestoreMemory, KillTried, KillConfirmed
<1>6. CountStep(r)
  BY <1>1, LedgerAssumption DEF CountStep, Counted, Live, Standing, Shape, FreshUntouched,
                                Waiting, Untouched, CreatesInSlot, RowTrue, PhaseTrue,
                                RollbackKept, RestoreKept, Typed, TypeOK, durable, memory,
                                RollbackActive, RollbackEnded, RestoreActive, BuildRestore,
                                RestoreGoes, RestoreMemory, KillTried, KillConfirmed
<1>7. QED
  BY <1>1, <1>2, <1>3, <1>4, <1>5, <1>6, StepOfOperation

LEMMA BindRestoreKept ==
    ASSUME LedgerInv, NEW r \in Restores, BindRestore(r)
    PROVE  LedgerInv'
<1>1. r \in Operations /\ Typed /\ Shape(r) /\ resources \subseteq Restores
  BY DEF LedgerInv, ShapeInv, Operations
<1>2. Typed'
  BY <1>1, LedgerAssumption DEF Typed, TypeOK, Operations, Statuses, RollbackActive,
                                RollbackEnded, RestoreActive, Release, durable, memory,
                                BindRestore, RestoreGoes, RestoreMemory, NoFault, Fault,
                                DoBindRestore, Carried
<1>3. Alone(r)
  BY <1>1, LedgerAssumption DEF Alone, Same, Typed, TypeOK, durable, memory, BindRestore,
                                RestoreGoes, RestoreMemory, NoFault, Fault, DoBindRestore,
                                Carried
<1>4. Shape(r)' /\ resources' \subseteq Restores
  BY <1>1, LedgerAssumption DEF Shape, FreshUntouched, Waiting, Untouched, CreatesInSlot,
                                RowTrue, PhaseTrue, RollbackKept, RestoreKept, Typed,
                                TypeOK, durable, memory, RollbackActive, RollbackEnded,
                                RestoreActive, BindRestore, RestoreGoes, RestoreMemory,
                                NoFault, Fault, DoBindRestore, Carried
<1>5. LockStep(r)
  BY <1>1, LedgerAssumption DEF LockStep, Unfinished, LedgerInv, LockFollowsOperation,
                                Shape, FreshUntouched, Waiting, PhaseTrue, RestoreKept,
                                Typed, TypeOK, durable, memory, RollbackActive,
                                RollbackEnded, RestoreActive, BindRestore, RestoreGoes,
                                RestoreMemory, NoFault, Fault, DoBindRestore, Carried
<1>6. CountStep(r)
  BY <1>1, LedgerAssumption DEF CountStep, Counted, Live, Standing, Shape, FreshUntouched,
                                Waiting, Untouched, CreatesInSlot, RowTrue, PhaseTrue,
                                RollbackKept, RestoreKept, Typed, TypeOK, durable, memory,
                                RollbackActive, RollbackEnded, RestoreActive, BindRestore,
                                RestoreGoes, RestoreMemory, NoFault, Fault, DoBindRestore,
                                Carried
<1>7. QED
  BY <1>1, <1>2, <1>3, <1>4, <1>5, <1>6, StepOfOperation

LEMMA RecordFailureKept ==
    ASSUME LedgerInv, NEW r \in Restores, RecordFailure(r)
    PROVE  LedgerInv'
<1>1. r \in Operations /\ Typed /\ Shape(r) /\ resources \subseteq Restores
  BY DEF LedgerInv, ShapeInv, Operations
<1>2. Typed'
  BY <1>1, LedgerAssumption DEF Typed, TypeOK, Operations, Statuses, RollbackActive,
                                RollbackEnded, RestoreActive, Release, durable, memory,
                                RecordFailure, RestoreMemory, NoFault, Fault, DoFailRestore
<1>3. Alone(r)
  BY <1>1, LedgerAssumption DEF Alone, Same, Typed, TypeOK, durable, memory, RecordFailure,
                                RestoreMemory, NoFault, Fault, DoFailRestore
<1>4. Shape(r)' /\ resources' \subseteq Restores
  BY <1>1, LedgerAssumption DEF Shape, FreshUntouched, Waiting, Untouched, CreatesInSlot,
                                RowTrue, PhaseTrue, RollbackKept, RestoreKept, Typed,
                                TypeOK, durable, memory, RollbackActive, RollbackEnded,
                                RestoreActive, RecordFailure, RestoreMemory, NoFault, Fault,
                                DoFailRestore
<1>5. LockStep(r)
  BY <1>1, LedgerAssumption DEF LockStep, Unfinished, LedgerInv, LockFollowsOperation,
                                Shape, FreshUntouched, Waiting, PhaseTrue, RestoreKept,
                                Typed, TypeOK, durable, memory, RollbackActive,
                                RollbackEnded, RestoreActive, RecordFailure, RestoreMemory,
                                NoFault, Fault, DoFailRestore
<1>6. CountStep(r)
  BY <1>1, LedgerAssumption DEF CountStep, Counted, Live, Standing, Shape, FreshUntouched,
                                Waiting, Untouched, CreatesInSlot, RowTrue, PhaseTrue,
                                RollbackKept, RestoreKept, Typed, TypeOK, durable, memory,
                                RollbackActive, RollbackEnded, RestoreActive, RecordFailure,
                                RestoreMemory, NoFault, Fault, DoFailRestore
<1>7. QED
  BY <1>1, <1>2, <1>3, <1>4, <1>5, <1>6, StepOfOperation

LEMMA RetryBootClaimKept ==
    ASSUME LedgerInv, NEW r \in Restores, RetryBootClaim(r)
    PROVE  LedgerInv'
<1>1. r \in Operations /\ Typed /\ Shape(r) /\ resources \subseteq Restores
  BY DEF LedgerInv, ShapeInv, Operations
<1>2. Typed'
  BY <1>1, LedgerAssumption DEF Typed, TypeOK, Operations, Statuses, RollbackActive,
                                RollbackEnded, RestoreActive, Release, durable, memory,
                                RetryBootClaim, NoFault, Fault, DoMarkDestroyed,
                                KillConfirmed, KillUnconfirmed
<1>3. Alone(r)
  BY <1>1, LedgerAssumption DEF Alone, Same, Typed, TypeOK, durable, memory, RetryBootClaim,
                                NoFault, Fault, DoMarkDestroyed, KillConfirmed,
                                KillUnconfirmed
<1>4. Shape(r)' /\ resources' \subseteq Restores
  BY <1>1, LedgerAssumption DEF Shape, FreshUntouched, Waiting, Untouched, CreatesInSlot,
                                RowTrue, PhaseTrue, RollbackKept, RestoreKept, Typed,
                                TypeOK, durable, memory, RollbackActive, RollbackEnded,
                                RestoreActive, RetryBootClaim, NoFault, Fault,
                                DoMarkDestroyed, KillConfirmed, KillUnconfirmed
<1>5. LockStep(r)
  BY <1>1, LedgerAssumption DEF LockStep, Unfinished, LedgerInv, LockFollowsOperation,
                                Shape, FreshUntouched, Waiting, PhaseTrue, RestoreKept,
                                Typed, TypeOK, durable, memory, RollbackActive,
                                RollbackEnded, RestoreActive, RetryBootClaim, NoFault,
                                Fault, DoMarkDestroyed, KillConfirmed, KillUnconfirmed
<1>6. CountStep(r)
  BY <1>1, LedgerAssumption DEF CountStep, Counted, Live, Standing, Shape, FreshUntouched,
                                Waiting, Untouched, CreatesInSlot, RowTrue, PhaseTrue,
                                RollbackKept, RestoreKept, Typed, TypeOK, durable, memory,
                                RollbackActive, RollbackEnded, RestoreActive,
                                RetryBootClaim, NoFault, Fault, DoMarkDestroyed,
                                KillConfirmed, KillUnconfirmed
<1>7. QED
  BY <1>1, <1>2, <1>3, <1>4, <1>5, <1>6, StepOfOperation

-----------------------------------------------------------------------------
(* The executor's destroy, the sweep and the end of a lease.                 *)

LEMMA BeginDestroyKept ==
    ASSUME LedgerInv, NEW s \in Operations, BeginDestroy(s)
    PROVE  LedgerInv'
<1>1. s \in Operations /\ Typed /\ Shape(s) /\ resources \subseteq Restores
  BY DEF LedgerInv, ShapeInv, Operations
<1>2. Typed'
  BY <1>1, LedgerAssumption DEF Typed, TypeOK, Operations, Statuses, RollbackActive,
                                RollbackEnded, RestoreActive, durable, memory, BeginDestroy,
                                RestoreMemory, NoFault, Fault, KillConfirmed,
                                KillUnconfirmed
<1>3. Alone(s)
  BY <1>1, LedgerAssumption DEF Alone, Same, Typed, TypeOK, durable, memory, BeginDestroy,
                                RestoreMemory, NoFault, Fault, KillConfirmed,
                                KillUnconfirmed
<1>4. Shape(s)' /\ resources' \subseteq Restores
  BY <1>1, LedgerAssumption DEF Shape, FreshUntouched, Waiting, Untouched, CreatesInSlot,
                                RowTrue, PhaseTrue, RollbackKept, RestoreKept, Typed,
                                TypeOK, durable, memory, RollbackActive, RollbackEnded,
                                RestoreActive, BeginDestroy, RestoreMemory, NoFault, Fault,
                                KillConfirmed, KillUnconfirmed
<1>5. LockStep(s)
  BY <1>1, LedgerAssumption DEF LockStep, Unfinished, LedgerInv, LockFollowsOperation,
                                Shape, FreshUntouched, Waiting, PhaseTrue, RestoreKept,
                                Typed, TypeOK, durable, memory, RollbackActive,
                                RollbackEnded, RestoreActive, BeginDestroy, RestoreMemory,
                                NoFault, Fault, KillConfirmed, KillUnconfirmed
<1>6. CountStep(s)
  BY <1>1, LedgerAssumption DEF CountStep, Counted, Live, Standing, Shape, FreshUntouched,
                                Waiting, Untouched, CreatesInSlot, RowTrue, PhaseTrue,
                                RollbackKept, RestoreKept, Typed, TypeOK, durable, memory,
                                RollbackActive, RollbackEnded, RestoreActive, BeginDestroy,
                                RestoreMemory, NoFault, Fault, KillConfirmed,
                                KillUnconfirmed
<1>7. QED
  BY <1>1, <1>2, <1>3, <1>4, <1>5, <1>6, StepOfOperation

LEMMA MarkDestroyedKept ==
    ASSUME LedgerInv, NEW s \in Operations, MarkDestroyed(s)
    PROVE  LedgerInv'
<1>1. s \in Operations /\ Typed /\ Shape(s) /\ resources \subseteq Restores
  BY DEF LedgerInv, ShapeInv, Operations
<1>2. Typed'
  BY <1>1, LedgerAssumption DEF Typed, TypeOK, Operations, Statuses, RollbackActive,
                                RollbackEnded, RestoreActive, Release, durable, memory,
                                MarkDestroyed, RestoreMemory, NoFault, Fault,
                                DoMarkDestroyed
<1>3. Alone(s)
  BY <1>1, LedgerAssumption DEF Alone, Same, Typed, TypeOK, durable, memory, MarkDestroyed,
                                RestoreMemory, NoFault, Fault, DoMarkDestroyed
<1>4. Shape(s)' /\ resources' \subseteq Restores
  BY <1>1, LedgerAssumption DEF Shape, FreshUntouched, Waiting, Untouched, CreatesInSlot,
                                RowTrue, PhaseTrue, RollbackKept, RestoreKept, Typed,
                                TypeOK, durable, memory, RollbackActive, RollbackEnded,
                                RestoreActive, MarkDestroyed, RestoreMemory, NoFault, Fault,
                                DoMarkDestroyed
<1>5. LockStep(s)
  BY <1>1, LedgerAssumption DEF LockStep, Unfinished, LedgerInv, LockFollowsOperation,
                                Shape, FreshUntouched, Waiting, PhaseTrue, RestoreKept,
                                Typed, TypeOK, durable, memory, RollbackActive,
                                RollbackEnded, RestoreActive, MarkDestroyed, RestoreMemory,
                                NoFault, Fault, DoMarkDestroyed
<1>6. CountStep(s)
  BY <1>1, LedgerAssumption DEF CountStep, Counted, Live, Standing, Shape, FreshUntouched,
                                Waiting, Untouched, CreatesInSlot, RowTrue, PhaseTrue,
                                RollbackKept, RestoreKept, Typed, TypeOK, durable, memory,
                                RollbackActive, RollbackEnded, RestoreActive, MarkDestroyed,
                                RestoreMemory, NoFault, Fault, DoMarkDestroyed
<1>7. QED
  BY <1>1, <1>2, <1>3, <1>4, <1>5, <1>6, StepOfOperation

LEMMA SleepIdlePreviewKept ==
    ASSUME LedgerInv, NEW s \in Operations, SleepIdlePreview(s)
    PROVE  LedgerInv'
<1>1. s \in Operations /\ Typed /\ Shape(s) /\ resources \subseteq Restores
  BY DEF LedgerInv, ShapeInv, Operations
<1>2. Typed'
  BY <1>1, LedgerAssumption DEF Typed, TypeOK, Operations, Statuses, RollbackActive,
                                RollbackEnded, RestoreActive, durable, memory,
                                SleepIdlePreview, Candidates
<1>3. Alone(s)
  BY <1>1, LedgerAssumption DEF Alone, Same, Typed, TypeOK, durable, memory,
                                SleepIdlePreview, Candidates
<1>4. Shape(s)' /\ resources' \subseteq Restores
  BY <1>1, LedgerAssumption DEF Shape, FreshUntouched, Waiting, Untouched, CreatesInSlot,
                                RowTrue, PhaseTrue, RollbackKept, RestoreKept, Typed,
                                TypeOK, durable, memory, RollbackActive, RollbackEnded,
                                RestoreActive, SleepIdlePreview, Candidates
<1>5. LockStep(s)
  BY <1>1, LedgerAssumption DEF LockStep, Unfinished, LedgerInv, LockFollowsOperation,
                                Shape, FreshUntouched, Waiting, PhaseTrue, RestoreKept,
                                Typed, TypeOK, durable, memory, RollbackActive,
                                RollbackEnded, RestoreActive, SleepIdlePreview, Candidates
<1>6. CountStep(s)
  BY <1>1, LedgerAssumption DEF CountStep, Counted, Live, Standing, Shape, FreshUntouched,
                                Waiting, Untouched, CreatesInSlot, RowTrue, PhaseTrue,
                                RollbackKept, RestoreKept, Typed, TypeOK, durable, memory,
                                RollbackActive, RollbackEnded, RestoreActive,
                                SleepIdlePreview, Candidates
<1>7. QED
  BY <1>1, <1>2, <1>3, <1>4, <1>5, <1>6, StepOfOperation

LEMMA LapseKept ==
    ASSUME LedgerInv, NEW s \in Operations, Lapse(s)
    PROVE  LedgerInv'
<1>1. s \in Operations /\ Typed /\ Shape(s) /\ resources \subseteq Restores
  BY DEF LedgerInv, ShapeInv, Operations
<1>2. Typed'
  BY <1>1, LedgerAssumption DEF Typed, TypeOK, Operations, Statuses, RollbackActive,
                                RollbackEnded, RestoreActive, durable, memory, Lapse,
                                OpenRow
<1>3. Alone(s)
  BY <1>1, LedgerAssumption DEF Alone, Same, Typed, TypeOK, durable, memory, Lapse, OpenRow
<1>4. Shape(s)' /\ resources' \subseteq Restores
  BY <1>1, LedgerAssumption DEF Shape, FreshUntouched, Waiting, Untouched, CreatesInSlot,
                                RowTrue, PhaseTrue, RollbackKept, RestoreKept, Typed,
                                TypeOK, durable, memory, RollbackActive, RollbackEnded,
                                RestoreActive, Lapse, OpenRow
<1>5. LockStep(s)
  BY <1>1, LedgerAssumption DEF LockStep, Unfinished, LedgerInv, LockFollowsOperation,
                                Shape, FreshUntouched, Waiting, PhaseTrue, RestoreKept,
                                Typed, TypeOK, durable, memory, RollbackActive,
                                RollbackEnded, RestoreActive, Lapse, OpenRow
<1>6. CountStep(s)
  BY <1>1, LedgerAssumption DEF CountStep, Counted, Live, Standing, Shape, FreshUntouched,
                                Waiting, Untouched, CreatesInSlot, RowTrue, PhaseTrue,
                                RollbackKept, RestoreKept, Typed, TypeOK, durable, memory,
                                RollbackActive, RollbackEnded, RestoreActive, Lapse, OpenRow
<1>7. QED
  BY <1>1, <1>2, <1>3, <1>4, <1>5, <1>6, StepOfOperation

-----------------------------------------------------------------------------
(* Runs, and the restart.                                                    *)

LEMMA ClaimJobKept ==
    ASSUME LedgerInv, NEW j \in Jobs, ClaimJob(j)
    PROVE  LedgerInv'
<1>1. Typed /\ LockFollowsOperation
  BY DEF LedgerInv
<1>2. j \notin Operations
  BY LedgerAssumption
<1>3. Typed'
  BY <1>1, <1>2, LedgerAssumption DEF Typed, TypeOK, Operations, Statuses, Release, memory,
     ClaimJob
<1>4. Alone(j)
  BY <1>1, <1>2 DEF Alone, Same, Typed, memory, ClaimJob
<1>5. LockStep(j)
  BY <1>1, <1>2 DEF LockStep, Unfinished, Typed, RollbackActive, RestoreActive, Operations, ClaimJob
<1>6. CountStep(j)
  BY <1>1, <1>2 DEF CountStep, Counted, Typed, Operations, ClaimJob
<1>7. UNCHANGED resources
  BY DEF memory, ClaimJob
<1>8. QED
  BY <1>3, <1>4, <1>5, <1>6, <1>7, StepOfJob

LEMMA EndJobKept ==
    ASSUME LedgerInv, NEW j \in Jobs, EndJob(j)
    PROVE  LedgerInv'
<1>1. Typed /\ LockFollowsOperation
  BY DEF LedgerInv
<1>2. j \notin Operations
  BY LedgerAssumption
<1>3. Typed'
  BY <1>1, <1>2, LedgerAssumption DEF Typed, TypeOK, Operations, Statuses, Release, memory,
     EndJob
<1>4. Alone(j)
  BY <1>1, <1>2 DEF Alone, Same, Typed, memory, EndJob
<1>5. LockStep(j)
  BY <1>1, <1>2 DEF LockStep, Unfinished, Typed, RollbackActive, RestoreActive, Operations, EndJob
<1>6. CountStep(j)
  BY <1>1, <1>2 DEF CountStep, Counted, Typed, Operations, EndJob
<1>7. UNCHANGED resources
  BY DEF memory, EndJob
<1>8. QED
  BY <1>3, <1>4, <1>5, <1>6, <1>7, StepOfJob

\* A restart keeps the rows and the rollbacks that were prepared; everything else that
\* was open is given to a claim or ended with its lock.
LEMMA RestartKept ==
    ASSUME LedgerInv, Restart
    PROVE  LedgerInv'
<1>1. Typed /\ LockFollowsOperation /\ LockAtHome /\ ShapeInv /\ CountInv
  BY DEF LedgerInv
<1>2. Typed'
  BY <1>1, LedgerAssumption
     DEF Typed, TypeOK, Operations, Statuses, RollbackActive, RollbackEnded, RestoreActive,
         Restart, RecoveredRollback, Recoverable, StaleRollback, StaleRestore
<1>3. ShapeInv'
  <2>1. ASSUME NEW o \in Operations PROVE Shape(o)'
    <3>1. Shape(o) /\ o \notin Jobs /\ ~(o \in Rollbacks /\ o \in Restores)
      BY <1>1, LedgerAssumption DEF ShapeInv
    <3>2. CASE o \in Rollbacks
      BY <1>1, <3>1, <3>2
         DEF Shape, FreshUntouched, Waiting, Untouched, CreatesInSlot, RowTrue, PhaseTrue,
             RollbackKept, RestoreKept, Typed, TypeOK, Operations, RollbackActive, RollbackEnded,
             Restart, RecoveredRollback, StaleRollback, StaleRestore
    <3>3. CASE o \in Restores
      BY <1>1, <3>1, <3>3
         DEF Shape, FreshUntouched, Waiting, Untouched, CreatesInSlot, RowTrue, PhaseTrue,
             RollbackKept, RestoreKept, Typed, TypeOK, Operations, RestoreActive,
             Restart, Recoverable, StaleRollback, StaleRestore, OpenRow
    <3>4. QED
      BY <3>2, <3>3 DEF Operations
  <2>2. QED
    BY <2>1 DEF ShapeInv, Restart
<1>4. \A o \in Operations \union Jobs :
         Unfinished(o)' <=> /\ Unfinished(o) /\ o \notin Jobs
                            /\ ~(o \in Restores /\ Recoverable(o))
  BY <1>1, LedgerAssumption
     DEF Unfinished, Typed, TypeOK, Operations, RollbackActive, RollbackEnded, RestoreActive,
         Restart, RecoveredRollback, Recoverable, StaleRollback, StaleRestore
<1>5. LockFollowsOperation' /\ LockAtHome'
  BY <1>1, <1>4, LedgerAssumption DEF LockFollowsOperation, LockAtHome, Typed, TypeOK, Restart
<1>6. CountInv'
  <2>1. \A x \in Counted' : x \in Counted
    BY <1>1, LedgerAssumption
       DEF Counted, Live, Standing, ShapeInv, Shape, RowTrue, Typed, TypeOK, Operations, Restart,
           RecoveredRollback, Recoverable, StaleRollback, StaleRestore
  <2>2. CountStep(None)
    BY <2>1 DEF CountStep
  <2>3. QED
    BY <1>1, <2>1, <2>2, CountedFinite, CountKept
<1>7. QED
  BY <1>2, <1>3, <1>5, <1>6 DEF LedgerInv

-----------------------------------------------------------------------------
(* The invariant, and what it says of the runs' properties.                  *)

LEMMA InitLedger == LedgerInit => LedgerInv
<1> SUFFICES ASSUME LedgerInit PROVE LedgerInv
  OBVIOUS
<1>1. Typed
  BY LedgerAssumption
     DEF LedgerInit, Typed, TypeOK, Operations, Statuses, Versions, RestoreActive
<1>2. LockFollowsOperation /\ LockAtHome
  BY LedgerAssumption
     DEF LedgerInit, LockFollowsOperation, LockAtHome, Unfinished, Operations, RollbackActive,
         RestoreActive
<1>3. ShapeInv
  BY LedgerAssumption
     DEF LedgerInit, ShapeInv, Shape, FreshUntouched, Waiting, Untouched, CreatesInSlot, RowTrue,
         PhaseTrue, RollbackKept, RestoreKept, Operations
<1>4. CountInv
  <2>1. Counted = {}
    BY LedgerAssumption DEF LedgerInit, Counted, Live, Operations
  <2>2. Cardinality({}) = 0
    BY FS_EmptySet
  <2>3. QED
    BY <2>1, <2>2, LedgerAssumption DEF CountInv
<1>5. QED
  BY <1>1, <1>2, <1>3, <1>4 DEF LedgerInv

LEMMA StutterKept ==
    ASSUME LedgerInv, UNCHANGED vars
    PROVE  LedgerInv'
BY DEF LedgerInv, Typed, TypeOK, LockFollowsOperation, LockAtHome, Unfinished, ShapeInv, Shape,
       FreshUntouched, Waiting, Untouched, CreatesInSlot, RowTrue, PhaseTrue, RollbackKept,
       RestoreKept, CountInv, Counted, Live, Standing, vars, durable, memory

LEMMA NextKept ==
    ASSUME LedgerInv, [Next]_vars
    PROVE  LedgerInv'
<1>1. ASSUME NEW b \in Rollbacks,
             \/ BeginRollback(b) \/ ClaimQueuedRollback(b) \/ RollbackStep(b)
             \/ CatchUnread(b) \/ CancelRollback(b) \/ RollbackTimeout(b)
      PROVE  LedgerInv'
  BY <1>1, BeginRollbackKept, ClaimQueuedRollbackKept, CreateRollbackKept,
     RegisterRollbackKept, BuildRollbackKept, MarkPreparedKept, CommitRollbackKept,
     CatchRollbackKept, FailRollbackKept, KillRollbackKept, MarkRollbackDestroyedKept,
     ReconcileRollbackKept, VerifyRollbackKept, SignalRollbackKept,
     CleanExpiredCommittedKept, KillUnregisteredKept, CatchUnreadKept, CancelRollbackKept,
     RollbackTimeoutKept
     DEF RollbackStep
<1>2. ASSUME NEW r \in Restores, BeginRestore(r) \/ ClaimQueuedRestore(r) \/ RestoreStep(r)
      PROVE  LedgerInv'
  BY <1>2, BeginRestoreKept, ClaimQueuedRestoreKept, CreateRestoreKept, RegisterRestoreKept,
     BuildRestoreKept, BindRestoreKept, RecordFailureKept, RetryBootClaimKept
     DEF RestoreStep
<1>3. ASSUME NEW j \in Jobs, ClaimJob(j) \/ EndJob(j)
      PROVE  LedgerInv'
  BY <1>3, ClaimJobKept, EndJobKept
<1>4. ASSUME NEW s \in Operations,
             BeginDestroy(s) \/ MarkDestroyed(s) \/ SleepIdlePreview(s) \/ Lapse(s)
      PROVE  LedgerInv'
  BY <1>4, BeginDestroyKept, MarkDestroyedKept, SleepIdlePreviewKept, LapseKept
<1>5. QED
  BY <1>1, <1>2, <1>3, <1>4, RestartKept, StutterKept DEF Next

\* Locks, rows, tasks and lists agree, and the admitted fit under the ceiling, in every state.
THEOREM LedgerInvariant == Spec => []LedgerInv
<1>1. LedgerInv /\ [Next]_vars => LedgerInv'
  BY NextKept
<1>2. QED
  BY <1>1, InitLedger, PTL DEF Spec

\* The rows, the tasks and the process's lists keep their types through every lost
\* request, stop and restart.
THEOREM LedgerTypes == Spec => []TypeOK
<1>1. LedgerInv => TypeOK
  BY DEF LedgerInv, Typed
<1>2. QED
  BY <1>1, LedgerInvariant, PTL

\* No operation ends and leaves its project blocked, and none goes on without it.
THEOREM LockFollows == Spec => []LockFollowsOperation
<1>1. LedgerInv => LockFollowsOperation
  BY DEF LedgerInv
<1>2. QED
  BY <1>1, LedgerInvariant, PTL

\* What works or is shown never exceeds the ceiling, whichever of the four paths
\* admitted it.
THEOREM CeilingHolds == Spec => []CapacityKept
<1>1. ASSUME LedgerInv PROVE CapacityKept
  <2>1. Typed /\ ShapeInv /\ CountInv
    BY <1>1 DEF LedgerInv
  <2>2. InUse \in SUBSET Counted
    <3>1. ASSUME NEW o \in Operations, phase[o] = "create", Unfinished(o), error[o] = "none"
          PROVE  o \in Counted
      BY <2>1, <3>1, LedgerAssumption
         DEF ShapeInv, Shape, FreshUntouched, Untouched, CreatesInSlot, Counted, Standing,
             Operations, Typed, TypeOK, RollbackActive, RollbackEnded, RestoreActive
    <3>2. ASSUME NEW s \in Operations, remote[s] = "alive", OpenRow(s),
                 ~(s \in Rollbacks /\ error[s] # "none")
          PROVE  s \in Counted
      BY <2>1, <3>2 DEF ShapeInv, Shape, RowTrue, Counted, Live, Standing, OpenRow
    <3>3. QED
      BY <3>1, <3>2 DEF InUse, Counted
  <2>3. IsFiniteSet(Counted) /\ Ceiling \in Nat
    BY CountedBelowOccupied, LedgerAssumption
  <2>4. Cardinality(InUse) <= Cardinality(Counted) /\ IsFiniteSet(InUse)
    BY <2>2, <2>3, FS_Subset
  <2>5. Cardinality(InUse) \in Nat /\ Cardinality(Counted) \in Nat
    BY <2>3, <2>4, FS_CardinalityType
  <2>6. QED
    BY <2>1, <2>3, <2>4, <2>5 DEF CountInv, CapacityKept
<1>2. QED
  BY <1>1, LedgerInvariant, PTL

\* A sandbox that lives is in someone's hands, or was delivered.
THEOREM EverySandboxAccounted == Spec => []SandboxAccounted
<1>1. ASSUME LedgerInv PROVE SandboxAccounted
  <2>1. ASSUME NEW o \in Operations, remote[o] = "alive" PROVE Accounted(o)
    <3>1. Shape(o) /\ boots \in Nat
      BY <1>1, LedgerAssumption DEF LedgerInv, ShapeInv, Typed, TypeOK
    <3>2. CASE o \in Rollbacks
      BY <2>1, <3>1, <3>2 DEF Shape, RollbackKept, Accounted
    <3>3. CASE o \in Restores
      BY <2>1, <3>1, <3>3 DEF Shape, RestoreKept, Accounted
    <3>4. QED
      BY <3>2, <3>3 DEF Operations
  <2>2. QED
    BY <2>1 DEF SandboxAccounted
<1>2. QED
  BY <1>1, LedgerInvariant, PTL
=============================================================================
