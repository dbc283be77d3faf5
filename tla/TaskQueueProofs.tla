-------------------------- MODULE TaskQueueProofs ---------------------------
(***************************************************************************)
(* For any number of accounts, projects, tasks, slots and deletions: the   *)
(* tasks of a project are serial, accounts take turns, and the positions   *)
(* that are shown agree with the order of the claims.  An account that     *)
(* was served while another one was ready has been dispatched after it;    *)
(* that is what the order of the claims rests on.                          *)
(***************************************************************************)
EXTENDS TaskQueue, SequenceTheorems, FiniteSetTheorems, WellFoundedInduction, TLAPS

-----------------------------------------------------------------------------
(* Sequences without repetitions, and the greatest of some numbers.          *)

\* What RemoveAt leaves, element by element.
LEMMA Removed ==
    ASSUME NEW S, NEW s \in Seq(S), NEW k \in 1..Len(s)
    PROVE  /\ RemoveAt(s, k) \in Seq(S) /\ Len(RemoveAt(s, k)) = Len(s) - 1
           /\ \A i \in 1..(Len(s) - 1) :
                 RemoveAt(s, k)[i] = IF i < k THEN s[i] ELSE s[i + 1]
<1> DEFINE front == SubSeq(s, 1, k - 1)  back == SubSeq(s, k + 1, Len(s))
<1>0. Len(s) \in Nat /\ k \in Nat /\ k >= 1 /\ k <= Len(s)
  BY LenProperties
<1>1. \A i \in 1..Len(s) : s[i] \in S
  BY ElementOfSeq
<1>2. /\ front \in Seq(S) /\ Len(front) = k - 1
      /\ \A i \in 1..(k - 1) : front[i] = s[i]
  <2>1. \A i \in 1..(k - 1) : s[i] \in S
    BY <1>0, <1>1
  <2>2. /\ front \in Seq(S) /\ Len(front) = IF 1 <= k - 1 THEN (k - 1) - 1 + 1 ELSE 0
        /\ \A i \in 1..((k - 1) - 1 + 1) : front[i] = s[1 + i - 1]
    BY <2>1, <1>0, SubSeqProperties
  <2>3. QED
    BY <2>2, <1>0
<1>3. /\ back \in Seq(S) /\ Len(back) = Len(s) - k
      /\ \A i \in 1..(Len(s) - k) : back[i] = s[k + i]
  <2>1. \A i \in (k + 1)..Len(s) : s[i] \in S
    BY <1>0, <1>1
  <2>2. /\ back \in Seq(S) /\ Len(back) = IF k + 1 <= Len(s) THEN Len(s) - (k + 1) + 1 ELSE 0
        /\ \A i \in 1..(Len(s) - (k + 1) + 1) : back[i] = s[(k + 1) + i - 1]
    BY <2>1, <1>0, SubSeqProperties
  <2>3. QED
    BY <2>2, <1>0
<1>4. /\ front \o back \in Seq(S) /\ Len(front \o back) = Len(front) + Len(back)
      /\ \A i \in 1..(Len(front) + Len(back)) :
            (front \o back)[i] = IF i <= Len(front) THEN front[i] ELSE back[i - Len(front)]
  BY <1>2, <1>3, ConcatProperties
<1>5. RemoveAt(s, k) = front \o back
  BY DEF RemoveAt
<1> HIDE DEF front, back
<1>6. Len(front) + Len(back) = Len(s) - 1
  BY <1>0, <1>2, <1>3
<1>7. ASSUME NEW i \in 1..(Len(s) - 1)
      PROVE  (front \o back)[i] = IF i < k THEN s[i] ELSE s[i + 1]
  <2>1. CASE i < k
    BY <2>1, <1>0, <1>2, <1>4, <1>6
  <2>2. CASE ~(i < k)
    <3>1. i - Len(front) \in 1..(Len(s) - k) /\ ~(i <= Len(front)) /\ k + (i - Len(front)) = i + 1
      BY <2>2, <1>0, <1>2
    <3>2. (front \o back)[i] = back[i - Len(front)]
      BY <3>1, <1>4, <1>6
    <3>3. back[i - Len(front)] = s[k + (i - Len(front))]
      BY <3>1, <1>3
    <3>4. QED
      BY <2>2, <3>1, <3>2, <3>3
  <2>3. QED
    BY <2>1, <2>2
<1>8. QED
  BY <1>4, <1>5, <1>6, <1>7

\* A set of numbers up to n that is not empty has a greatest one.
LEMMA Greatest ==
    ASSUME NEW n \in Nat, NEW T, T \subseteq 1..n, T # {}
    PROVE  \E m \in T : \A i \in T : i <= m
<1> DEFINE left == {j \in Nat : \E i \in T : i + j = n}
<1>1. left \subseteq Nat
  OBVIOUS
<1>2. left # {}
  <2>1. PICK i \in T : TRUE
    OBVIOUS
  <2>2. n - i \in Nat /\ i + (n - i) = n
    OBVIOUS
  <2>3. QED
    BY <2>2
<1> DEFINE less == {p \in Nat \X Nat : p[1] < p[2]}
<1>3. IsWellFoundedOn(less, Nat)
  BY NatLessThanWellFounded DEF OpToRel
<1>4. PICK x \in left : \A y \in left : ~(<<y, x>> \in less)
  <2> HIDE DEF left, less
  <2> QED
    BY <1>1, <1>2, <1>3, WFMin
<1>5. ASSUME NEW y \in left PROVE x <= y
  <2>1. <<y, x>> \in Nat \X Nat /\ ~(<<y, x>> \in less)
    BY <1>1, <1>4
  <2>2. QED
    BY <2>1
<1>6. PICK m \in T : m + x = n
  OBVIOUS
<1>7. ASSUME NEW i \in T PROVE i <= m
  <2>1. n - i \in left
    OBVIOUS
  <2>2. QED
    BY <2>1, <1>5, <1>6
<1>8. QED
  BY <1>7

\* The place of an element is where it is.
LEMMA PlaceOf ==
    ASSUME NEW S, NEW s \in Seq(S), NEW x \in ToSet(s)
    PROVE  Place(s, x) \in 1..Len(s) /\ s[Place(s, x)] = x
<1>1. DOMAIN s = 1..Len(s)
  BY LenProperties
<1>2. \E i \in 1..Len(s) : s[i] = x
  BY <1>1 DEF ToSet
<1>3. QED
  BY <1>1, <1>2 DEF Place

\* A row that leaves is the only one that does.
LEMMA WithoutKeeps ==
    ASSUME NEW S, NEW s \in Seq(S), IsInjective(s), NEW x
    PROVE  /\ Without(s, x) \in Seq(S) /\ IsInjective(Without(s, x))
           /\ ToSet(Without(s, x)) = ToSet(s) \ {x}
<1>0. DOMAIN s = 1..Len(s) /\ Len(s) \in Nat
  BY LenProperties
<1>1. CASE x \notin ToSet(s)
  BY <1>1 DEF Without
<1>2. CASE x \in ToSet(s)
  <2> DEFINE k == Place(s, x)  w == RemoveAt(s, k)
  <2>1. k \in 1..Len(s) /\ s[k] = x
    BY <1>2, PlaceOf
  <2>2. /\ w \in Seq(S) /\ Len(w) = Len(s) - 1
        /\ \A i \in 1..(Len(s) - 1) : w[i] = IF i < k THEN s[i] ELSE s[i + 1]
    <3> HIDE DEF k
    <3> QED
      BY <2>1, Removed
  <2>3. Without(s, x) = w
    BY <1>2 DEF Without
  <2> HIDE DEF k, w
  <2>4. DOMAIN w = 1..(Len(s) - 1)
    BY <2>2, LenProperties
  <2>5. \A i, j \in 1..Len(s) : s[i] = s[j] => i = j
    BY <1>0 DEF IsInjective
  <2>6. IsInjective(w)
    <3> SUFFICES ASSUME NEW i \in 1..(Len(s) - 1), NEW j \in 1..(Len(s) - 1), w[i] = w[j]
                 PROVE  i = j
      BY <2>4 DEF IsInjective
    <3>1. w[i] = (IF i < k THEN s[i] ELSE s[i + 1]) /\ w[j] = (IF j < k THEN s[j] ELSE s[j + 1])
      BY <2>2
    <3>2. i \in 1..Len(s) /\ i + 1 \in 1..Len(s) /\ j \in 1..Len(s) /\ j + 1 \in 1..Len(s)
      BY <1>0
    <3>3. CASE i < k /\ j < k
      BY <3>1, <3>2, <3>3, <2>5
    <3>4. CASE i < k /\ ~(j < k)
      <4>1. i = j + 1
        BY <3>1, <3>2, <3>4, <2>5
      <4>2. QED
        BY <4>1, <3>4, <2>1, <1>0
    <3>5. CASE ~(i < k) /\ j < k
      <4>1. i + 1 = j
        BY <3>1, <3>2, <3>5, <2>5
      <4>2. QED
        BY <4>1, <3>5, <2>1, <1>0
    <3>6. CASE ~(i < k) /\ ~(j < k)
      <4>1. i + 1 = j + 1
        BY <3>1, <3>2, <3>6, <2>5
      <4>2. QED
        BY <4>1
    <3>7. QED
      BY <3>3, <3>4, <3>5, <3>6
  <2>7. ASSUME NEW i \in 1..(Len(s) - 1) PROVE w[i] \in ToSet(s) \ {x}
    <3>1. w[i] = (IF i < k THEN s[i] ELSE s[i + 1]) /\ i \in 1..Len(s) /\ i + 1 \in 1..Len(s)
      BY <2>2, <1>0
    <3>2. w[i] \in ToSet(s)
      BY <3>1, <1>0 DEF ToSet
    <3>3. CASE i < k
      <4>1. i # k
        BY <3>3, <2>1, <1>0
      <4>2. QED
        BY <4>1, <3>1, <3>2, <3>3, <2>1, <2>5
    <3>4. CASE ~(i < k)
      <4>1. i + 1 # k
        BY <3>4, <2>1, <1>0
      <4>2. QED
        BY <4>1, <3>1, <3>2, <3>4, <2>1, <2>5
    <3>5. QED
      BY <3>3, <3>4
  <2>8. ASSUME NEW y \in ToSet(s), y # x PROVE \E i \in 1..(Len(s) - 1) : w[i] = y
    <3>1. PICK j \in 1..Len(s) : s[j] = y
      BY <1>0 DEF ToSet
    <3>2. j # k
      BY <3>1, <2>1, <2>8
    <3>3. CASE j < k
      <4>1. j \in 1..(Len(s) - 1)
        BY <3>3, <2>1, <1>0
      <4>2. QED
        BY <4>1, <3>1, <3>3, <2>2
    <3>4. CASE ~(j < k)
      <4>1. j - 1 \in 1..(Len(s) - 1) /\ ~(j - 1 < k) /\ (j - 1) + 1 = j
        BY <3>4, <3>2, <2>1, <1>0
      <4>2. QED
        BY <4>1, <3>1, <2>2
    <3>5. QED
      BY <3>3, <3>4
  <2>9. ToSet(w) = ToSet(s) \ {x}
    BY <2>4, <2>7, <2>8 DEF ToSet
  <2>10. QED
    BY <2>2, <2>3, <2>6, <2>9
<1>3. QED
  BY <1>1, <1>2

-----------------------------------------------------------------------------
(* Types, and a project's tasks one after the other.                         *)

\* A task has one place: it waits, runs or is cleaned up after.
Rows ==
    /\ queue \in Seq(Tasks) /\ IsInjective(queue)
    /\ project \in [Tasks -> Projects \union {None}]
    /\ live \subseteq Tasks /\ cleaning \subseteq Tasks
    /\ live \intersect cleaning = {} /\ Queued \intersect (live \union cleaning) = {}
    /\ Queued \union live \union cleaning = {t \in Tasks : project[t] # None}
Slots ==
    /\ IsFiniteSet(live) /\ IsFiniteSet(cleaning) /\ stuck \subseteq cleaning
    /\ Cardinality(live \union cleaning) <= Ceiling
Dispatches == served \in Seq(Projects) /\ IsInjective(served)
RowsInv == Rows /\ Slots /\ Dispatches /\ ProjectIsSerial

\* Who waits is a task of some project.
LEMMA QueuedTyped ==
    ASSUME Rows, NEW t \in Queued
    PROVE  t \in Tasks /\ project[t] \in Projects /\ t \notin live /\ t \notin cleaning
<1>1. t \in {u \in Tasks : project[u] # None} /\ t \notin live \union cleaning
  BY DEF Rows
<1>2. QED
  BY <1>1 DEF Rows

\* A new task waits behind the others.
LEMMA SubmitKeeps ==
    ASSUME RowsInv, NEW t \in Tasks, NEW p \in Projects, Submit(t, p)
    PROVE  RowsInv'
<1>1. t \notin Queued \union live \union cleaning
  BY DEF RowsInv, Rows, Submit
<1>2. /\ queue' \in Seq(Tasks) /\ IsInjective(queue') /\ Queued' = Queued \union {t}
  <2>1. /\ queue' \in Seq(Tasks) /\ Len(queue') = Len(queue) + 1
        /\ \A i \in 1..Len(queue) : queue'[i] = queue[i]
        /\ queue'[Len(queue) + 1] = t
    BY AppendProperties DEF RowsInv, Rows, Submit
  <2>2. DOMAIN queue = 1..Len(queue) /\ Len(queue) \in Nat /\ DOMAIN queue' = 1..(Len(queue) + 1)
    BY <2>1, LenProperties DEF RowsInv, Rows
  <2>3. Queued' = Queued \union {t}
    BY <2>1, <2>2 DEF Queued, ToSet
  <2>4. \A i \in 1..Len(queue) : queue[i] # t
    BY <1>1, <2>2 DEF Queued, ToSet
  <2>5. IsInjective(queue')
    BY <2>1, <2>2, <2>4 DEF RowsInv, Rows, IsInjective
  <2>6. QED
    BY <2>1, <2>3, <2>5
<1>3. project' = [project EXCEPT ![t] = p] /\ UNCHANGED <<live, cleaning, stuck, served>>
  BY DEF Submit
<1>4. Rows'
  BY <1>1, <1>2, <1>3, QueueAssumption DEF RowsInv, Rows, QueueAssumption
<1>5. ProjectIsSerial'
  BY <1>1, <1>3 DEF RowsInv, Rows, ProjectIsSerial
<1>6. QED
  BY <1>3, <1>4, <1>5 DEF RowsInv, Slots, Dispatches

\* What was cancelled waits no longer.
LEMMA CancelKeeps ==
    ASSUME RowsInv, NEW t \in Tasks, Cancel(t)
    PROVE  RowsInv'
<1>1. t \in Queued /\ t \notin live \union cleaning
  BY DEF RowsInv, Rows, Cancel
<1>2. /\ queue' \in Seq(Tasks) /\ IsInjective(queue') /\ Queued' = Queued \ {t}
  BY WithoutKeeps DEF RowsInv, Rows, Cancel, Queued
<1>3. project' = [project EXCEPT ![t] = None] /\ UNCHANGED <<live, cleaning, stuck, served>>
  BY DEF Cancel
<1>4. Rows'
  BY <1>1, <1>2, <1>3 DEF RowsInv, Rows
<1>5. ProjectIsSerial'
  BY <1>1, <1>3 DEF RowsInv, Rows, ProjectIsSerial
<1>6. QED
  BY <1>3, <1>4, <1>5 DEF RowsInv, Slots, Dispatches

\* The task that is claimed is the only one of its project that is at work.
LEMMA ClaimKeeps ==
    ASSUME RowsInv, ClaimNextQueuedRun
    PROVE  RowsInv'
<1>1. PICK t \in Waiting :
        /\ queue' = Without(queue, t) /\ live' = live \union {t}
        /\ served' = Append(Without(served, project[t]), project[t])
        /\ UNCHANGED <<project, cleaning, stuck>>
  BY DEF ClaimNextQueuedRun
<1>2. t \in Queued /\ t \in Tasks /\ project[t] \in Projects /\ t \notin live \union cleaning
  BY QueuedTyped DEF RowsInv, Waiting
<1>3. /\ queue' \in Seq(Tasks) /\ IsInjective(queue') /\ Queued' = Queued \ {t}
  BY <1>1, WithoutKeeps DEF RowsInv, Rows, Queued
<1>4. Rows'
  BY <1>1, <1>2, <1>3 DEF RowsInv, Rows
<1>5. ProjectIsSerial'
  <2>1. \A u \in live \union cleaning : project[u] # project[t]
    BY DEF Waiting, Blocked
  <2>2. QED
    BY <1>1, <2>1 DEF RowsInv, ProjectIsSerial
<1>6. Slots'
  <2>1. Cardinality(live \union cleaning) < Ceiling
    BY DEF ClaimNextQueuedRun, FreeSlot
  <2>2. IsFiniteSet(live \union cleaning) /\ IsFiniteSet(live')
    BY <1>1, FS_Union, FS_AddElement DEF RowsInv, Slots
  <2>3. (live \union cleaning)' = (live \union cleaning) \union {t}
    BY <1>1
  <2>4. Cardinality((live \union cleaning)') = Cardinality(live \union cleaning) + 1
    BY <1>2, <2>2, <2>3, FS_AddElement
  <2>5. Cardinality(live \union cleaning) \in Nat /\ Ceiling \in Nat
    BY <2>2, FS_CardinalityType, QueueAssumption DEF QueueAssumption
  <2>6. QED
    BY <1>1, <2>1, <2>2, <2>4, <2>5 DEF RowsInv, Slots
<1>7. Dispatches'
  <2> DEFINE p == project[t]  w == Without(served, p)
  <2>1. w \in Seq(Projects) /\ IsInjective(w) /\ p \notin ToSet(w) /\ p \in Projects
    BY <1>2, WithoutKeeps DEF RowsInv, Dispatches
  <2>2. served' = Append(w, p)
    BY <1>1
  <2> HIDE DEF p, w
  <2>3. /\ served' \in Seq(Projects) /\ Len(served') = Len(w) + 1
        /\ \A i \in 1..Len(w) : served'[i] = w[i]
        /\ served'[Len(w) + 1] = p
    BY <2>1, <2>2, AppendProperties
  <2>4. DOMAIN w = 1..Len(w) /\ Len(w) \in Nat /\ DOMAIN served' = 1..(Len(w) + 1)
    BY <2>1, <2>3, LenProperties
  <2>5. \A i \in 1..Len(w) : w[i] # p
    BY <2>1, <2>4 DEF ToSet
  <2>6. IsInjective(served')
    BY <2>1, <2>3, <2>4, <2>5 DEF IsInjective
  <2>7. QED
    BY <2>3, <2>6 DEF Dispatches
<1>8. QED
  BY <1>4, <1>5, <1>6, <1>7 DEF RowsInv

\* A task that ends leaves its slot to its cleanup, or to another.
LEMMA EndKeeps ==
    ASSUME RowsInv, NEW t \in Tasks, EndTask(t) \/ ConfirmCleanup(t)
    PROVE  RowsInv'
<1>1. /\ live' \subseteq live /\ cleaning' \subseteq cleaning \union {t}
      /\ live' \union cleaning' \subseteq live \union cleaning
      /\ stuck' \subseteq cleaning'
      /\ UNCHANGED <<queue, served>> /\ Queued' = Queued
  BY DEF EndTask, ConfirmCleanup, Queued, RowsInv, Slots
<1>2. Rows'
  <2>1. CASE EndTask(t) /\ project' = project
    BY <2>1, <1>1 DEF EndTask, RowsInv, Rows
  <2>2. CASE EndTask(t) /\ project' = [project EXCEPT ![t] = None]
    <3>1. cleaning' = cleaning \/ project' = project
      BY <2>2 DEF EndTask
    <3>2. t \in live /\ project[t] # None
      BY <2>2 DEF EndTask, RowsInv, Rows
    <3>3. project' # project
      BY <2>2, <3>2 DEF RowsInv, Rows
    <3>4. QED
      BY <2>2, <3>1, <3>2, <3>3, <1>1 DEF EndTask, RowsInv, Rows
  <2>3. CASE ConfirmCleanup(t)
    BY <2>3, <1>1 DEF ConfirmCleanup, RowsInv, Rows
  <2>4. QED
    BY <2>1, <2>2, <2>3 DEF EndTask
<1>3. ProjectIsSerial'
  <2>1. \A u \in live' \union cleaning' : project'[u] = project[u]
    BY <1>1, <1>2 DEF EndTask, ConfirmCleanup, RowsInv, Rows
  <2>2. QED
    BY <1>1, <2>1 DEF RowsInv, ProjectIsSerial
<1>4. Slots'
  <2>1. IsFiniteSet(live \union cleaning) /\ IsFiniteSet(live') /\ IsFiniteSet(cleaning')
    <3>1. IsFiniteSet(cleaning \union {t})
      BY FS_AddElement DEF RowsInv, Slots
    <3>2. QED
      BY <1>1, <3>1, FS_Union, FS_Subset DEF RowsInv, Slots
  <2>2. Cardinality(live' \union cleaning') <= Cardinality(live \union cleaning)
    BY <1>1, <2>1, FS_Subset
  <2>3. /\ Cardinality(live \union cleaning) \in Nat /\ Cardinality(live' \union cleaning') \in Nat
        /\ Ceiling \in Nat
    BY <2>1, FS_Union, FS_CardinalityType, QueueAssumption DEF QueueAssumption
  <2>4. QED
    BY <1>1, <2>1, <2>2, <2>3 DEF RowsInv, Slots
<1>5. QED
  BY <1>1, <1>2, <1>3, <1>4 DEF RowsInv, Dispatches

\* After a restart nothing is live, and every slot is a cleanup's.
LEMMA RestartKeeps ==
    ASSUME RowsInv, Restart
    PROVE  RowsInv'
<1>1. /\ live' = {} /\ cleaning' = live \union cleaning /\ stuck' = {}
      /\ live' \union cleaning' = live \union cleaning
      /\ UNCHANGED <<queue, project, served>> /\ Queued' = Queued
  BY DEF Restart, Queued
<1>2. IsFiniteSet(live') /\ IsFiniteSet(cleaning')
  BY <1>1, FS_EmptySet, FS_Union DEF RowsInv, Slots
<1>3. QED
  BY <1>1, <1>2 DEF RowsInv, Rows, Slots, Dispatches, ProjectIsSerial

\* Operations and deletions touch no task.
LEMMA ProjectKeeps ==
    ASSUME RowsInv, NEW p \in Projects, Operation(p) \/ DeleteProject(p)
    PROVE  RowsInv'
<1>1. UNCHANGED <<queue, project, live, cleaning, stuck>> /\ served' \in {served, Without(served, p)}
  BY DEF Operation, DeleteProject
<1>2. Dispatches'
  BY <1>1, WithoutKeeps DEF RowsInv, Dispatches
<1>3. QED
  BY <1>1, <1>2 DEF RowsInv, Rows, Slots, ProjectIsSerial, Queued

\* Every step keeps the rows in order.
LEMMA RowsKept ==
    ASSUME RowsInv, [Next]_vars
    PROVE  RowsInv'
<1>1. CASE UNCHANGED vars
  BY <1>1 DEF vars, RowsInv, Rows, Slots, Dispatches, ProjectIsSerial, Queued
<1>2. CASE \E t \in Tasks, p \in Projects : Submit(t, p)
  BY <1>2, SubmitKeeps
<1>3. CASE \E t \in Tasks : Cancel(t) \/ EndTask(t) \/ ConfirmCleanup(t)
  BY <1>3, CancelKeeps, EndKeeps
<1>4. CASE ClaimNextQueuedRun \/ Restart
  BY <1>4, ClaimKeeps, RestartKeeps
<1>5. CASE \E p \in Projects : Operation(p) \/ DeleteProject(p)
  BY <1>5, ProjectKeeps
<1>6. QED
  BY <1>1, <1>2, <1>3, <1>4, <1>5 DEF Next

-----------------------------------------------------------------------------
(* Whose turn it is.                                                         *)

\* In a list of dispatches b comes after everything of a.
Behind(s, a, b) ==
    \E j \in DOMAIN s : AccountOf[s[j]] = b /\ \A i \in DOMAIN s : AccountOf[s[i]] = a => i < j
TurnsInv ==
    /\ passed \in [Accounts -> [Accounts -> {"no", "once", "erased"}]]
    /\ \A a, b \in Accounts : passed[a][b] = "once" => Behind(served, a, b)

\* The latest dispatch of an account is one of its own, and no other one is later.
LEMMA LastIsLatest ==
    ASSUME Dispatches, NEW a
    PROVE  /\ LastDispatch(a) \in 0..Len(served)
           /\ \A i \in DOMAIN served : AccountOf[served[i]] = a =>
                 LastDispatch(a) # 0 /\ i <= LastDispatch(a)
           /\ LastDispatch(a) # 0 => AccountOf[served[LastDispatch(a)]] = a
<1> DEFINE places == {i \in DOMAIN served : AccountOf[served[i]] = a}
<1>0. DOMAIN served = 1..Len(served) /\ Len(served) \in Nat
  BY LenProperties DEF Dispatches
<1>1. CASE places = {}
  <2>1. LastDispatch(a) = 0
    BY <1>1 DEF LastDispatch
  <2>2. QED
    BY <1>0, <1>1, <2>1
<1>2. CASE places # {}
  <2>1. places \subseteq 1..Len(served)
    BY <1>0
  <2>2. \E m \in places : \A i \in places : i <= m
    <3> HIDE DEF places
    <3> QED
      BY <1>0, <1>2, <2>1, Greatest
  <2>3. LastDispatch(a) = CHOOSE m \in places : \A i \in places : i <= m
    BY <1>2 DEF LastDispatch
  <2>4. LastDispatch(a) \in places /\ \A i \in places : i <= LastDispatch(a)
    <3> HIDE DEF places
    <3> QED
      BY <2>2, <2>3
  <2>5. QED
    BY <1>0, <2>1, <2>4
<1>3. QED
  BY <1>1, <1>2

\* Who is behind was dispatched later.
LEMMA BehindIsLater ==
    ASSUME Dispatches, NEW a, NEW b, Behind(served, a, b)
    PROVE  LastDispatch(a) < LastDispatch(b)
<1>0. DOMAIN served = 1..Len(served) /\ Len(served) \in Nat
  BY LenProperties DEF Dispatches
<1>1. PICK j \in DOMAIN served : /\ AccountOf[served[j]] = b
                                 /\ \A i \in DOMAIN served : AccountOf[served[i]] = a => i < j
  BY DEF Behind
<1>2. j <= LastDispatch(b) /\ LastDispatch(b) \in 0..Len(served)
  BY <1>1, LastIsLatest
<1>3. LastDispatch(a) < j
  <2>1. CASE LastDispatch(a) = 0
    BY <1>0, <2>1
  <2>2. CASE LastDispatch(a) # 0
    <3>1. LastDispatch(a) \in DOMAIN served /\ AccountOf[served[LastDispatch(a)]] = a
      BY <1>0, <2>2, LastIsLatest
    <3>2. QED
      BY <1>1, <3>1
  <2>3. QED
    BY <2>1, <2>2
<1>4. QED
  BY <1>0, <1>2, <1>3, LastIsLatest

\* Who is behind stays behind when another row leaves.
LEMMA BehindStays ==
    ASSUME Dispatches, NEW p, NEW a, NEW b, NEW j \in DOMAIN served, served[j] # p,
           AccountOf[served[j]] = b, \A i \in DOMAIN served : AccountOf[served[i]] = a => i < j
    PROVE  Behind(Without(served, p), a, b)
<1>0. DOMAIN served = 1..Len(served) /\ Len(served) \in Nat
  BY LenProperties DEF Dispatches
<1>1. CASE p \notin ToSet(served)
  BY <1>1 DEF Without, Behind
<1>2. CASE p \in ToSet(served)
  <2> DEFINE k == Place(served, p)  w == RemoveAt(served, k)
  <2>1. k \in 1..Len(served) /\ served[k] = p
    BY <1>2, PlaceOf DEF Dispatches
  <2>2. /\ w \in Seq(Projects) /\ Len(w) = Len(served) - 1
        /\ \A i \in 1..(Len(served) - 1) : w[i] = IF i < k THEN served[i] ELSE served[i + 1]
    <3> HIDE DEF k
    <3> QED
      BY <2>1, Removed DEF Dispatches
  <2>3. Without(served, p) = w
    BY <1>2 DEF Without
  <2> HIDE DEF k, w
  <2>4. DOMAIN w = 1..(Len(served) - 1)
    BY <2>2, LenProperties
  <2>5. j # k
    BY <2>1
  <2> DEFINE l == IF j < k THEN j ELSE j - 1
  <2>6. l \in DOMAIN w /\ w[l] = served[j]
    <3>1. CASE j < k
      BY <1>0, <2>1, <2>2, <2>4, <3>1
    <3>2. CASE ~(j < k)
      <4>1. l = j - 1 /\ l \in 1..(Len(served) - 1) /\ ~(l < k) /\ l + 1 = j
        BY <1>0, <2>1, <2>5, <3>2
      <4>2. QED
        BY <2>2, <2>4, <4>1
    <3>3. QED
      BY <3>1, <3>2
  <2>7. ASSUME NEW i \in DOMAIN w, AccountOf[w[i]] = a PROVE i < l
    <3>1. i \in 1..(Len(served) - 1) /\ w[i] = IF i < k THEN served[i] ELSE served[i + 1]
      BY <2>2, <2>4
    <3>2. i \in DOMAIN served /\ i + 1 \in DOMAIN served
      BY <1>0, <3>1
    <3>3. CASE i < k
      <4>1. i < j
        BY <2>7, <3>1, <3>2, <3>3
      <4>2. QED
        BY <1>0, <2>1, <2>5, <3>1, <3>3, <4>1
    <3>4. CASE ~(i < k)
      <4>1. i + 1 < j
        BY <2>7, <3>1, <3>2, <3>4
      <4>2. QED
        BY <1>0, <2>1, <2>5, <3>1, <3>4, <4>1
    <3>5. QED
      BY <3>3, <3>4
  <2>8. QED
    BY <2>3, <2>6, <2>7 DEF Behind
<1>3. QED
  BY <1>1, <1>2

\* The account of the last dispatch is behind every other.
LEMMA LastIsBehind ==
    ASSUME NEW w \in Seq(Projects), NEW p \in Projects, NEW a, a # AccountOf[p]
    PROVE  Behind(Append(w, p), a, AccountOf[p])
<1>1. /\ Append(w, p) \in Seq(Projects) /\ Len(Append(w, p)) = Len(w) + 1
      /\ Append(w, p)[Len(w) + 1] = p
  BY AppendProperties
<1>2. DOMAIN Append(w, p) = 1..(Len(w) + 1) /\ Len(w) \in Nat
  BY <1>1, LenProperties
<1>3. \A i \in 1..(Len(w) + 1) : AccountOf[Append(w, p)[i]] = a => i < Len(w) + 1
  BY <1>1, <1>2
<1>4. Len(w) + 1 \in 1..(Len(w) + 1)
  BY <1>2
<1>5. QED
  BY <1>1, <1>2, <1>3, <1>4 DEF Behind

\* Who is behind stays behind when somebody else is dispatched.
LEMMA BehindBefore ==
    ASSUME NEW w \in Seq(Projects), NEW p \in Projects, NEW a, NEW b, a # AccountOf[p],
           Behind(w, a, b)
    PROVE  Behind(Append(w, p), a, b)
<1>1. /\ Append(w, p) \in Seq(Projects) /\ Len(Append(w, p)) = Len(w) + 1
      /\ Append(w, p)[Len(w) + 1] = p
      /\ \A i \in 1..Len(w) : Append(w, p)[i] = w[i]
  BY AppendProperties
<1>2. DOMAIN Append(w, p) = 1..(Len(w) + 1) /\ Len(w) \in Nat /\ DOMAIN w = 1..Len(w)
  BY <1>1, LenProperties
<1>3. PICK j \in 1..Len(w) : /\ AccountOf[w[j]] = b
                             /\ \A i \in 1..Len(w) : AccountOf[w[i]] = a => i < j
  BY <1>2 DEF Behind
<1>4. \A i \in 1..(Len(w) + 1) : AccountOf[Append(w, p)[i]] = a => i < j
  <2> SUFFICES ASSUME NEW i \in 1..(Len(w) + 1), AccountOf[Append(w, p)[i]] = a PROVE i < j
    OBVIOUS
  <2>1. i # Len(w) + 1
    BY <1>1
  <2>2. i \in 1..Len(w)
    BY <1>2, <2>1
  <2>3. QED
    BY <1>1, <1>3, <2>2
<1>5. j \in 1..(Len(w) + 1) /\ AccountOf[Append(w, p)[j]] = b
  BY <1>1, <1>2, <1>3
<1>6. QED
  BY <1>2, <1>4, <1>5 DEF Behind

\* Where nobody is dispatched or deleted nobody's turn changes.
LEMMA TurnsStay ==
    ASSUME TurnsInv, UNCHANGED served, Records(passed)
    PROVE  TurnsInv'
<1>1. passed' \in [Accounts -> [Accounts -> {"no", "once", "erased"}]]
  BY DEF TurnsInv, Records
<1>2. ASSUME NEW a \in Accounts, NEW b \in Accounts, passed'[a][b] = "once"
      PROVE  Behind(served, a, b)
  <2>1. passed[a][b] = "once"
    BY <1>2 DEF TurnsInv, Records
  <2>2. QED
    BY <2>1 DEF TurnsInv
<1>3. QED
  BY <1>1, <1>2 DEF TurnsInv

\* The accounts that could have started are behind the one that did.
LEMMA TurnsClaim ==
    ASSUME RowsInv, TurnsInv, ClaimNextQueuedRun
    PROVE  TurnsInv'
<1>1. PICK t \in Waiting :
        /\ served' = Append(Without(served, project[t]), project[t])
        /\ Records([a \in Accounts |-> IF a = Account(t) THEN [b \in Accounts |-> "no"]
                    ELSE IF Ready(a) THEN [passed[a] EXCEPT ![Account(t)] = "once"]
                    ELSE passed[a]])
  BY DEF ClaimNextQueuedRun
<1> DEFINE p == project[t]  c == AccountOf[p]  w == Without(served, p)
           before == [a \in Accounts |-> IF a = c THEN [b \in Accounts |-> "no"]
                      ELSE IF Ready(a) THEN [passed[a] EXCEPT ![c] = "once"] ELSE passed[a]]
<1>2. p \in Projects /\ c \in Accounts
  BY QueuedTyped, QueueAssumption DEF RowsInv, Waiting, QueueAssumption
<1>3. w \in Seq(Projects) /\ IsInjective(w) /\ ToSet(w) = ToSet(served) \ {p}
  BY WithoutKeeps DEF RowsInv, Dispatches
<1>4. served' = Append(w, p) /\ Records(before)
  BY <1>1 DEF Account
<1> HIDE DEF p, w
<1>5. passed' \in [Accounts -> [Accounts -> {"no", "once", "erased"}]]
  BY <1>2, <1>4 DEF TurnsInv, Records
<1>6. ASSUME NEW a \in Accounts, NEW b \in Accounts, passed'[a][b] = "once"
      PROVE  Behind(served', a, b)
  <2>1. before[a][b] = "once"
    BY <1>4, <1>6 DEF Records
  <2>2. a # c
    BY <2>1
  <2>3. CASE b = c
    BY <1>2, <1>3, <1>4, <2>2, <2>3, LastIsBehind
  <2>4. CASE b # c
    <3>1. passed[a][b] = "once"
      BY <2>1, <2>2, <2>4 DEF TurnsInv
    <3>2. PICK j \in DOMAIN served : /\ AccountOf[served[j]] = b
                                     /\ \A i \in DOMAIN served : AccountOf[served[i]] = a => i < j
      BY <3>1 DEF TurnsInv, Behind
    <3>3. served[j] # p
      BY <2>4, <3>2
    <3>4. Behind(w, a, b)
      BY <3>2, <3>3, BehindStays DEF RowsInv, w
    <3>5. QED
      BY <1>2, <1>3, <1>4, <2>2, <3>4, BehindBefore
  <2>5. QED
    BY <2>3, <2>4
<1>7. QED
  BY <1>5, <1>6 DEF TurnsInv

\* A project that is deleted takes nobody's turn but its own account's.
LEMMA TurnsDelete ==
    ASSUME RowsInv, TurnsInv, NEW p \in Projects, DeleteProject(p)
    PROVE  TurnsInv'
<1> DEFINE c == AccountOf[p]
           before == [a \in Accounts |-> IF SaidServed(p) /\ passed[a][c] = "once"
                                         THEN [passed[a] EXCEPT ![c] = "erased"] ELSE passed[a]]
<1>1. served' = Without(served, p) /\ Records(before)
  BY DEF DeleteProject
<1>2. c \in Accounts
  BY QueueAssumption DEF QueueAssumption
<1>3. passed' \in [Accounts -> [Accounts -> {"no", "once", "erased"}]]
  BY <1>1, <1>2 DEF TurnsInv, Records
<1>4. ASSUME NEW a \in Accounts, NEW b \in Accounts, passed'[a][b] = "once"
      PROVE  Behind(served', a, b)
  <2>1. before[a][b] = "once"
    BY <1>1, <1>4 DEF Records
  <2>2. passed[a][b] = "once" /\ (b = c => ~SaidServed(p))
    BY <2>1 DEF TurnsInv
  <2>3. PICK j \in DOMAIN served : /\ AccountOf[served[j]] = b
                                   /\ \A i \in DOMAIN served : AccountOf[served[i]] = a => i < j
    BY <2>2 DEF TurnsInv, Behind
  <2> DEFINE k == LastDispatch(b)
  <2>4. DOMAIN served = 1..Len(served) /\ Len(served) \in Nat
    BY LenProperties DEF RowsInv, Dispatches
  <2>5. k \in DOMAIN served /\ AccountOf[served[k]] = b /\ j <= k
    BY <2>3, <2>4, LastIsLatest DEF RowsInv
  <2>6. served[k] # p
    <3> SUFFICES ASSUME served[k] = p PROVE FALSE
      OBVIOUS
    <3>1. b = c /\ p \in ToSet(served)
      BY <2>5 DEF ToSet
    <3>2. Place(served, p) \in DOMAIN served /\ served[Place(served, p)] = p
      BY <2>4, <3>1, PlaceOf DEF RowsInv, Dispatches
    <3>3. Place(served, p) = k
      BY <2>5, <3>2 DEF RowsInv, Dispatches, IsInjective
    <3>4. QED
      BY <2>2, <3>1, <3>3 DEF SaidServed
  <2>7. \A i \in DOMAIN served : AccountOf[served[i]] = a => i < k
    BY <2>3, <2>4, <2>5
  <2>8. QED
    <3> HIDE DEF k
    <3> QED
      BY <1>1, <2>5, <2>6, <2>7, BehindStays DEF RowsInv
<1>5. QED
  BY <1>3, <1>4 DEF TurnsInv

\* Every step keeps the turns.
LEMMA TurnsKept ==
    ASSUME RowsInv, TurnsInv, [Next]_vars
    PROVE  TurnsInv'
<1>1. CASE UNCHANGED vars
  BY <1>1 DEF vars, TurnsInv
<1>2. CASE \E t \in Tasks, p \in Projects : Submit(t, p)
  BY <1>2, TurnsStay DEF Submit
<1>3. CASE \E t \in Tasks : Cancel(t) \/ EndTask(t) \/ ConfirmCleanup(t)
  BY <1>3, TurnsStay DEF Cancel, EndTask, ConfirmCleanup
<1>4. CASE ClaimNextQueuedRun \/ Restart
  BY <1>4, TurnsClaim, TurnsStay DEF Restart
<1>5. CASE \E p \in Projects : Operation(p) \/ DeleteProject(p)
  BY <1>5, TurnsStay, TurnsDelete DEF Operation
<1>6. QED
  BY <1>1, <1>2, <1>3, <1>4, <1>5 DEF Next

\* The task that starts has no older one of its project behind it, and no account that could
\* start has been passed over by its account already.
LEMMA StartsInTurn ==
    ASSUME RowsInv, TurnsInv, [Next]_vars, NEW t \in live' \ live
    PROVE  /\ \A a \in Accounts \ {Account(t)} : Ready(a) => passed[a][Account(t)] # "once"
           /\ \A u \in Queued \ {t} : project[u] = project[t] => Earlier(t, u)
<1>1. ClaimNextQueuedRun
  BY DEF Next, vars, Submit, Cancel, EndTask, ConfirmCleanup, Restart, Operation, DeleteProject
<1>2. t \in Waiting /\ \A u \in Waiting \ {t} : Before(t, u)
  BY <1>1 DEF ClaimNextQueuedRun
<1>3. t \in Queued /\ t \in Tasks /\ project[t] \in Projects
  BY <1>2, QueuedTyped DEF RowsInv, Waiting
<1>4. ASSUME NEW a \in Accounts \ {Account(t)}, Ready(a), passed[a][Account(t)] = "once"
      PROVE  FALSE
  <2>1. Account(t) \in Accounts
    BY <1>3, QueueAssumption DEF Account, QueueAssumption
  <2>2. LastDispatch(a) < LastDispatch(Account(t))
    BY <1>4, <2>1, BehindIsLater DEF RowsInv, TurnsInv
  <2>3. PICK u \in Waiting : Account(u) = a
    BY <1>4 DEF Ready
  <2>4. Before(t, u)
    BY <1>2, <1>4, <2>3
  <2>5. LastDispatch(Account(t)) <= LastDispatch(a)
    <3>1. LastDispatch(a) \in Nat /\ LastDispatch(Account(t)) \in Nat
      <4>1. Len(served) \in Nat
        BY LenProperties DEF RowsInv, Dispatches
      <4>2. QED
        BY <4>1, LastIsLatest DEF RowsInv
    <3>2. QED
      BY <2>3, <2>4, <3>1 DEF Before
  <2>6. LastDispatch(a) \in Nat /\ LastDispatch(Account(t)) \in Nat
    <3>1. Len(served) \in Nat
      BY LenProperties DEF RowsInv, Dispatches
    <3>2. QED
      BY <3>1, LastIsLatest DEF RowsInv
  <2>7. QED
    BY <2>2, <2>5, <2>6
<1>5. ASSUME NEW u \in Queued \ {t}, project[u] = project[t]
      PROVE  Earlier(t, u)
  <2>1. ~Earlier(u, t)
    BY <1>2, <1>5 DEF Waiting, Blocked
  <2>2. /\ Place(queue, t) \in 1..Len(queue) /\ queue[Place(queue, t)] = t
        /\ Place(queue, u) \in 1..Len(queue) /\ queue[Place(queue, u)] = u /\ u # t
    BY <1>3, <1>5, PlaceOf DEF RowsInv, Rows, Queued
  <2>3. Place(queue, t) \in Int /\ Place(queue, u) \in Int /\ Place(queue, t) # Place(queue, u)
    BY <2>2
  <2>4. QED
    BY <2>1, <2>3 DEF Earlier
<1>6. QED
  BY <1>4, <1>5

\* Who is counted as ahead of a task is counted as ahead of every task after it.
LEMMA PositionsGrow ==
    ASSUME RowsInv, NEW x \in Waiting, NEW y \in Waiting, Before(x, y)
    PROVE  Position(x) <= Position(y)
<1>1. \A a : LastDispatch(a) \in Nat
  <2>1. Len(served) \in Nat
    BY LenProperties DEF RowsInv, Dispatches
  <2>2. QED
    BY <2>1, LastIsLatest DEF RowsInv
<1>2. \A t \in Waiting : Place(queue, t) \in Nat
  <2>1. Len(queue) \in Nat /\ \A t \in Waiting : t \in ToSet(queue)
    BY LenProperties DEF RowsInv, Rows, Waiting, Queued
  <2>2. QED
    BY <2>1, PlaceOf DEF RowsInv, Rows
<1> DEFINE Ahead(t) == {u \in Waiting : Counted(u, t)}
<1>3. Ahead(x) \subseteq Ahead(y)
  <2> SUFFICES ASSUME NEW t \in Waiting, Counted(t, x) PROVE Counted(t, y)
    OBVIOUS
  <2> DEFINE l == LastDispatch(Account(t))  m == LastDispatch(Account(x))
             n == LastDispatch(Account(y))
  <2>1. l \in Nat /\ m \in Nat /\ n \in Nat
    BY <1>1
  <2>2. l = 0 \/ (m # 0 /\ l < m) \/ (l = m /\ Place(queue, t) < Place(queue, x))
    BY DEF Counted, Earlier
  <2>3. m < n \/ (m = n /\ Place(queue, x) < Place(queue, y))
    BY DEF Before, Earlier
  <2> HIDE DEF l, m, n
  <2>4. Place(queue, t) \in Nat /\ Place(queue, x) \in Nat /\ Place(queue, y) \in Nat
    BY <1>2
  <2>5. l = 0 \/ (n # 0 /\ l < n) \/ (l = n /\ Place(queue, t) < Place(queue, y))
    BY <2>1, <2>2, <2>3, <2>4
  <2>6. QED
    BY <2>5 DEF Counted, Earlier, l, n
<1>4. IsFiniteSet(Waiting)
  <2>1. IsFiniteSet(1..Len(queue))
    BY FS_Interval, LenProperties DEF RowsInv, Rows
  <2>2. queue \in Surjection(1..Len(queue), Queued)
    <3>1. queue \in [1..Len(queue) -> Tasks] /\ DOMAIN queue = 1..Len(queue)
      BY LenProperties DEF RowsInv, Rows
    <3>2. queue \in [1..Len(queue) -> Queued] /\ \A t \in Queued : \E i \in 1..Len(queue) : queue[i] = t
      BY <3>1 DEF Queued, ToSet
    <3>3. QED
      BY <3>2 DEF Surjection
  <2>3. IsFiniteSet(Queued)
    BY <2>1, <2>2, FS_Surjection
  <2>4. Waiting \subseteq Queued
    BY DEF Waiting
  <2>5. QED
    BY <2>3, <2>4, FS_Subset
<1>5. IsFiniteSet(Ahead(x)) /\ IsFiniteSet(Ahead(y))
  BY <1>4, FS_Subset
<1>6. Cardinality(Ahead(x)) <= Cardinality(Ahead(y))
  BY <1>3, <1>5, FS_Subset
<1>7. Cardinality(Ahead(x)) \in Nat /\ Cardinality(Ahead(y)) \in Nat
  BY <1>5, FS_CardinalityType
<1>8. Position(x) = Cardinality(Ahead(x)) + 1 /\ Position(y) = Cardinality(Ahead(y)) + 1
  BY DEF Position
<1>9. QED
  BY <1>6, <1>7, <1>8

-----------------------------------------------------------------------------
(* What holds in every reachable state.                                      *)

\* Both hold in the beginning, when there is no task and nobody was served.
LEMMA InitQueue ==
    ASSUME Init
    PROVE  RowsInv /\ TurnsInv
<1>1. /\ <<>> \in Seq(Tasks) /\ <<>> \in Seq(Projects) /\ IsInjective(<<>>) /\ ToSet(<<>>) = {}
  BY DEF IsInjective, ToSet
<1>2. Rows
  BY <1>1, QueueAssumption DEF Init, Rows, Queued, QueueAssumption
<1>3. Slots
  <2>1. IsFiniteSet({}) /\ Cardinality({}) = 0 /\ {} \union {} = {}
    BY FS_EmptySet
  <2>2. QED
    BY <2>1, QueueAssumption DEF Init, Slots, QueueAssumption
<1>4. QED
  BY <1>1, <1>2, <1>3 DEF Init, RowsInv, Dispatches, ProjectIsSerial, TurnsInv

\* Both hold always.
LEMMA QueueInvariant == Spec => [](RowsInv /\ TurnsInv)
<1>1. (RowsInv /\ TurnsInv) /\ [Next]_vars => (RowsInv /\ TurnsInv)'
  BY RowsKept, TurnsKept
<1>2. QED
  BY <1>1, InitQueue, PTL DEF Spec

\* A task that has a name is in one place, no more tasks hold slots than there are, and a
\* project has one latest dispatch at most.
THEOREM QueueTypeCorrect == Spec => []TypeOK
<1>1. RowsInv => TypeOK
  <2>1. ASSUME RowsInv PROVE ToSet(served) \subseteq Projects
    BY <2>1, ElementOfSeq, LenProperties DEF RowsInv, Dispatches, ToSet
  <2>2. QED
    BY <2>1 DEF RowsInv, Rows, Slots, Dispatches, TypeOK
<1>2. QED
  BY <1>1, QueueInvariant, PTL

\* claim_next_queued_run never starts a task while another one of its project runs or waits
\* for its sandbox to be removed.
THEOREM ProjectsRunSerially == Spec => []ProjectIsSerial
<1>1. RowsInv => ProjectIsSerial
  BY DEF RowsInv
<1>2. QED
  BY <1>1, QueueInvariant, PTL

\* Accounts take turns, whatever they submit, cancel and delete: the latest dispatches that
\* the rows tell are enough to pass nobody over twice.
THEOREM AccountsTakeTurns == Spec => ServedInTurn
<1>1. ASSUME RowsInv /\ TurnsInv, [Next]_vars
      PROVE  [\A t \in live' \ live :
                 /\ \A a \in Accounts \ {Account(t)} : Ready(a) => passed[a][Account(t)] # "once"
                 /\ \A u \in Queued \ {t} : project[u] = project[t] => Earlier(t, u)]_vars
  BY <1>1, StartsInTurn
<1>2. QED
  BY <1>1, QueueInvariant, PTL DEF Spec, ServedInTurn

\* The positions that queue_candidates shows, though they may be too large, never put a task
\* behind one that starts after it.
THEOREM PositionsAgree == Spec => []PositionsFollowOrder
<1>1. ASSUME RowsInv PROVE PositionsFollowOrder
  <2> SUFFICES ASSUME NEW a \in Accounts, NEW b \in Accounts, NEW x \in listTasks(a),
                      NEW y \in listTasks(b), Before(x[1], y[1])
               PROVE  x[2] <= y[2]
    BY DEF PositionsFollowOrder
  <2>1. /\ x[1] \in Waiting /\ x[2] = Position(x[1])
        /\ y[1] \in Waiting /\ y[2] = Position(y[1])
    BY DEF listTasks
  <2>2. QED
    BY <1>1, <2>1, PositionsGrow
<1>2. QED
  BY <1>1, QueueInvariant, PTL
=============================================================================
