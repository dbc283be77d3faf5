------------------------ MODULE ComponentRequestProofs ------------------------
(***************************************************************************)
(* Proofs about the components of MCComponents, for every size of their    *)
(* instances.  Some ask for something over a network that loses answers:   *)
(* what was asked once acts once.  Others keep to a limit: a browser and a *)
(* sandbox that were given up, the tokens of a run, the batches of a check *)
(* and the bytes of a note, for which sums over finite sets are added up;  *)
(* the limits are put together in ComponentVersionProofs.  Each component  *)
(* has an inductive invariant of its own; a behaviour of MCComponents is   *)
(* one component's, so they do not meet.                                   *)
(***************************************************************************)
EXTENDS MCComponents, SequenceTheorems, FiniteSetTheorems, WellFoundedInduction, TLAPS

-----------------------------------------------------------------------------
(* What a wire is after a request leaves, arrives, is dropped or given up.   *)

\* All but the last.
LEMMA FrontOf ==
    ASSUME NEW S, NEW s \in Seq(S), s # <<>>
    PROVE  /\ SubSeq(s, 1, Len(s) - 1) \in Seq(S)
           /\ Len(SubSeq(s, 1, Len(s) - 1)) = Len(s) - 1
           /\ \A i \in 1..Len(s) - 1 : SubSeq(s, 1, Len(s) - 1)[i] = s[i]
<1>1. Len(s) \in Nat \ {0} /\ \A i \in 1..Len(s) : s[i] \in S
  BY EmptySeq, ElementOfSeq
<1>2. \A i \in 1..Len(s) - 1 : s[i] \in S
  BY <1>1
<1> DEFINE t == SubSeq(s, 1, Len(s) - 1)
<1>3. /\ t \in Seq(S)
      /\ Len(t) = IF 1 <= Len(s) - 1 THEN Len(s) - 1 - 1 + 1 ELSE 0
      /\ \A i \in 1 .. Len(s) - 1 - 1 + 1 : t[i] = s[1 + i - 1]
  BY <1>1, <1>2, SubSeqProperties
<1> HIDE DEF t
<1>4. \A i \in 1..Len(s) - 1 : 1 + i - 1 = i /\ i \in 1 .. Len(s) - 1 - 1 + 1
  BY <1>1
<1>5. Len(t) = Len(s) - 1
  <2> DEFINE n == Len(s)
  <2>1. n \in Nat \ {0} /\ Len(t) = IF 1 <= n - 1 THEN n - 1 - 1 + 1 ELSE 0
    BY <1>1, <1>3
  <2> HIDE DEF n
  <2>2. Len(t) = n - 1
    <3>1. CASE n = 1
      BY <2>1, <3>1
    <3>2. CASE n # 1
      BY <2>1, <3>2
    <3>3. QED
      BY <3>1, <3>2
  <2>3. QED
    BY <2>2 DEF n
<1>7. ASSUME NEW i \in 1..Len(s) - 1 PROVE t[i] = s[i]
  <2>1. i \in 1 .. Len(s) - 1 - 1 + 1 /\ 1 + i - 1 = i
    BY <1>4
  <2>2. t[i] = s[1 + i - 1]
    BY <1>3, <2>1
  <2>3. QED
    BY <2>1, <2>2
<1>6. QED
  BY <1>3, <1>5, <1>7 DEF t

\* The requests of a tab that awaits none of them any more.
Silent(s) == [i \in DOMAIN s |-> [s[i] EXCEPT !.awaited = FALSE]]
LEMMA SilentWire ==
    ASSUME NEW S, NEW s \in Seq(S), \A r \in S : [r EXCEPT !.awaited = FALSE] \in S
    PROVE  /\ Silent(s) \in Seq(S) /\ Len(Silent(s)) = Len(s)
           /\ \A i \in 1..Len(s) : Silent(s)[i] = [s[i] EXCEPT !.awaited = FALSE]
<1>1. Len(s) \in Nat /\ DOMAIN s = 1..Len(s) /\ \A i \in 1..Len(s) : s[i] \in S
  BY LenProperties, ElementOfSeq
<1>2. Silent(s) \in [1..Len(s) -> S]
  BY <1>1 DEF Silent
<1>3. Silent(s) \in Seq(S)
  BY <1>1, <1>2, SeqDef
<1>4. Len(Silent(s)) \in Nat /\ 1..Len(Silent(s)) = 1..Len(s)
  BY <1>2, <1>3, LenProperties
<1>5. Len(Silent(s)) = Len(s)
  BY <1>1, <1>4
<1>6. QED
  BY <1>1, <1>3, <1>5 DEF Silent

-----------------------------------------------------------------------------
(* AppData: what a visitor and the owner were told.                          *)

\* Cardinality is the same in every module that has it.
LEMMA DataCardinality == \A S : Data!Cardinality(S) = Cardinality(S)
BY Zenon DEF Data!Cardinality, Cardinality

\* Stored submissions: one for a key and one for a slot.
Stored ==
    /\ records \subseteq [key : AppKeys, slot : AppSlots, confirmed : BOOLEAN]
    /\ \A r, q \in records : r.key = q.key \/ r.slot = q.slot => r = q
\* Who was told yes has a record, until it is removed.
Told ==
    /\ acceptedAs \in [AppKeys -> SUBSET AppSlots]
    /\ \A k \in AppKeys \ removed : \A s \in acceptedAs[k] :
          \E r \in records : r.key = k /\ r.slot = s
\* A page that has the version of the value has the value.
Values == [version : Nat, saves : SUBSET (AppPages \X Nat)]
PagesInv ==
    /\ value \in Values /\ dataPage \in [AppPages -> Values]
    /\ \A p \in AppPages :
          /\ dataPage[p].version <= value.version
          /\ dataPage[p].version = value.version => dataPage[p] = value
DataInv == Stored /\ Told /\ PagesInv /\ savedBy \subseteq value.saves

\* Nothing is stored at first.
LEMMA InitData == (part = "Data" /\ Data!Init) => DataInv
BY DEF Values, Data!Init, Data!Blank, DataInv, Stored, Told, PagesInv

\* A submission: replayed, refused, or stored as it was sent.
LEMMA SubmitKeeps == ASSUME DataInv, Data!submit PROVE DataInv'
<1>1. UNCHANGED <<removed, value, dataPage, savedBy>>
  BY DEF Data!submit, Data!personal
<1>2. PICK k \in AppKeys, s \in AppSlots :
        \/ /\ \E r \in records : r.key = k /\ r.slot = s
           /\ acceptedAs' = [acceptedAs EXCEPT ![k] = @ \cup {s}] /\ records' = records
        \/ records' = records /\ acceptedAs' = acceptedAs
        \/ /\ \A r \in records : r.key # k /\ r.slot # s
           /\ records' = records \cup {[key |-> k, slot |-> s, confirmed |-> FALSE]}
           /\ acceptedAs' = [acceptedAs EXCEPT ![k] = @ \cup {s}]
  BY DEF Data!submit, Data!Replays, Data!Prior, Data!Taken
<1> DEFINE new == [key |-> k, slot |-> s, confirmed |-> FALSE]
<1>3. new \in [key : AppKeys, slot : AppSlots, confirmed : BOOLEAN] /\ new.key = k /\ new.slot = s
  OBVIOUS
<1>4. \/ records' = records
      \/ (\A r \in records : r.key # k /\ r.slot # s) /\ records' = records \cup {new}
  BY <1>2
<1>5. \/ acceptedAs' = acceptedAs
      \/ /\ acceptedAs' = [acceptedAs EXCEPT ![k] = @ \cup {s}]
         /\ \E r \in records' : r.key = k /\ r.slot = s
  BY <1>2, <1>3
<1> HIDE DEF new
<1>6. Stored'
  BY <1>3, <1>4 DEF DataInv, Stored
<1>7. acceptedAs' \in [AppKeys -> SUBSET AppSlots]
  BY <1>5 DEF DataInv, Told
<1>8. ASSUME NEW j \in AppKeys \ removed, NEW q \in acceptedAs'[j]
      PROVE  \E r \in records' : r.key = j /\ r.slot = q
  <2>1. q \in acceptedAs[j] \/ (j = k /\ q = s /\ acceptedAs' # acceptedAs)
    BY <1>5, <1>8 DEF DataInv, Told
  <2>2. QED
    BY <1>4, <1>5, <2>1 DEF DataInv, Told
<1>9. QED
  BY <1>1, <1>6, <1>7, <1>8 DEF DataInv, PagesInv, Told

\* The owner marks a submission, or removes it.
LEMMA OwnerKeeps == ASSUME DataInv, Data!setConfirmed \/ Data!remove PROVE DataInv'
<1>1. UNCHANGED <<acceptedAs, value, dataPage, savedBy>>
  BY DEF Data!setConfirmed, Data!remove, Data!personal
<1>2. CASE Data!setConfirmed
  <2>1. removed' = removed
    BY <1>2 DEF Data!setConfirmed
  <2>2. PICK r \in records, c \in BOOLEAN :
          records' = (records \ {r}) \cup {[r EXCEPT !.confirmed = c]}
    BY <1>2 DEF Data!setConfirmed
  <2> DEFINE new == [r EXCEPT !.confirmed = c]
  <2>6. /\ new \in [key : AppKeys, slot : AppSlots, confirmed : BOOLEAN]
        /\ new.key = r.key /\ new.slot = r.slot
    BY DEF DataInv, Stored
  <2>7. records' = (records \ {r}) \cup {new}
    BY <2>2
  <2> HIDE DEF new
  <2>3. Stored'
    BY <2>6, <2>7 DEF DataInv, Stored
  <2>4. Told'
    BY <1>1, <2>1, <2>6, <2>7 DEF DataInv, Told
  <2>5. QED
    BY <1>1, <2>3, <2>4 DEF DataInv, PagesInv
<1>3. CASE Data!remove
  BY <1>1, <1>3 DEF Data!remove, DataInv, Stored, Told, PagesInv
<1>4. QED
  BY <1>2, <1>3

\* A page reads the personal value, or saves upon the one it has read.
LEMMA PersonalKeeps ==
    ASSUME DataInv, Data!privateState \/ Data!savePrivateState
    PROVE  DataInv'
<1>1. UNCHANGED <<records, acceptedAs, removed>>
  BY DEF Data!privateState, Data!savePrivateState, Data!visits
<1>2. CASE Data!privateState
  <2>1. PagesInv'
    BY <1>2 DEF Data!privateState, DataInv, PagesInv, Values
  <2>2. QED
    BY <1>1, <1>2, <2>1 DEF Data!privateState, DataInv, Stored, Told
<1>3. CASE Data!savePrivateState
  <2>1. PICK p \in AppPages, told2 \in BOOLEAN :
          /\ dataPage[p].version = value.version
          /\ value' = [version |-> dataPage[p].version + 1,
                       saves |-> dataPage[p].saves \cup {<<p, value.version + 1>>}]
          /\ dataPage' = IF told2 THEN [dataPage EXCEPT ![p] = value'] ELSE dataPage
          /\ savedBy' = IF told2 THEN savedBy \cup {<<p, value.version + 1>>} ELSE savedBy
    BY <1>3 DEF Data!savePrivateState, Data!Expected
  <2>2. dataPage[p] = value /\ value.version \in Nat /\ value.saves \subseteq AppPages \X Nat
    BY <2>1 DEF DataInv, PagesInv, Values
  <2>3. value' \in Values /\ value'.version = value.version + 1
    BY <2>1, <2>2 DEF Values
  <2>4. dataPage' \in [AppPages -> Values]
    BY <2>1, <2>3 DEF DataInv, PagesInv
  <2>5. ASSUME NEW q \in AppPages
        PROVE  /\ dataPage'[q].version <= value'.version
               /\ dataPage'[q].version = value'.version => dataPage'[q] = value'
    <3>1. dataPage'[q] = dataPage[q] \/ dataPage'[q] = value'
      BY <2>1 DEF DataInv, PagesInv
    <3>2. dataPage[q].version \in Nat /\ dataPage[q].version <= value.version
      BY DEF DataInv, PagesInv, Values
    <3>3. QED
      BY <2>2, <2>3, <3>1, <3>2
  <2>6. savedBy' \subseteq value'.saves
    BY <2>1, <2>2 DEF DataInv
  <2>7. QED
    BY <1>1, <2>3, <2>4, <2>5, <2>6 DEF DataInv, Stored, Told, PagesInv
<1>4. QED
  BY <1>2, <1>3

\* Every step of the app's data keeps the invariant.
LEMMA NextData == ASSUME DataInv, Data!Next PROVE DataInv'
<1>1. CASE Data!SetPublished
  BY <1>1 DEF Data!SetPublished, Data!visits, Data!personal, DataInv, Stored, Told, PagesInv
<1>2. QED
  BY <1>1, SubmitKeeps, OwnerKeeps, PersonalKeeps DEF Data!Next

\* Who was told yes has what was asked for, and nobody else has it.
LEMMA DataProperty == ASSUME DataInv PROVE Data!AnswersHold
<1>1. ASSUME NEW k \in AppKeys \ removed, NEW s \in acceptedAs[k]
      PROVE  /\ {r.slot : r \in Data!Prior(k)} = {s}
             /\ \A r \in records : r.slot = s => r.key = k
  BY <1>1 DEF DataInv, Stored, Told, Data!Prior
<1>2. ASSUME NEW k \in AppKeys PROVE Cardinality(Data!Prior(k)) <= 1
  <2>1. Data!Prior(k) = {} \/ \E r : Data!Prior(k) = {r}
    BY DEF DataInv, Stored, Data!Prior
  <2>2. QED
    BY <2>1, FS_EmptySet, FS_Singleton
<1>3. QED
  BY <1>1, <1>2, DataCardinality DEF Data!AnswersHold, DataInv

-----------------------------------------------------------------------------
(* TemplateImport: what the page asked for, and what became a version.       *)

LEMMA ImportCardinality == \A S : Import!Cardinality(S) = Cardinality(S)
BY Zenon DEF Import!Cardinality, Cardinality

\* One key for each import that was asked for, and no project of a key that was not made.
KeysInv ==
    /\ made \in 0..MaxImports /\ asked = made
    /\ imports \in [1..MaxImports -> Nat] /\ \A k \in 1..MaxImports : imports[k] # 0 => k <= made
    /\ importPosts \in Seq(1..made)
    /\ importPage \in {"idle", "waiting", "failed"} /\ importKept \in 1..made \union {None}
    /\ importPage = "idle" <=> importKept = None

\* Where an import is that has a version, and what it has by then.
ImportTypes ==
    /\ state \in {"none", "queued", "building", "cancel_requested", "completed", "failed", "cancelled"}
    /\ stop \in {"none", "cancelled", "timeout"} /\ sandbox \in {"none", "live", "gone"}
    /\ row \in {"none", "active", "preview", "destroyed"} /\ importCleanup \in {"clear", "pending"}
    /\ {importBuilt, importStored, opened, importCurrent, unknown} \subseteq BOOLEAN
StepsInv ==
    /\ importStep \in {"store", "save", "page", "renew", "complete"}
          => importBuilt /\ sandbox = "live" /\ row = "active"
    /\ importStep \in {"save", "page", "renew", "complete"} => importStored
    /\ importStep \in {"renew", "complete"} => opened
StatesInv ==
    /\ state \in {"none", "queued"} =>
          importStep = "idle" /\ sandbox = "none" /\ importCleanup = "clear"
    /\ state \in {"building", "cancel_requested"} => importStep # "idle"
    /\ state \in {"failed", "cancelled"} =>
          importStep = "idle" /\ (sandbox = "live" => importCleanup = "pending")
    /\ state = "completed" =>
          importStep \in {"idle", "settle"} \/ (importStep = "caught" /\ unknown)
    /\ state = "completed" <=> importCurrent
    /\ importCurrent <=> row = "preview"
    /\ importCurrent => importBuilt /\ importStored /\ opened /\ sandbox = "live"
    /\ sandbox = "live" => row \in {"active", "preview"}
WholeInv == ImportTypes /\ StepsInv /\ StatesInv
ImportInv == KeysInv /\ WholeInv

\* Nothing is asked for at first.
LEMMA InitImport == (part = "Import" /\ Import!Init) => ImportInv
<1> SUFFICES ASSUME Import!Init PROVE ImportInv
  OBVIOUS
<1>1. KeysInv
  BY NoKeyAssumption, SizesAssumption DEF Import!Init, KeysInv
<1>2. WholeInv
  BY DEF Import!Init, WholeInv, ImportTypes, StepsInv, StatesInv
<1>3. QED
  BY <1>1, <1>2 DEF ImportInv

\* The page asks, is answered, or is not; and the server makes a project of a new key.
LEMMA AskingKeeps ==
    ASSUME ImportInv,
           \/ Import!createFromTemplate \/ Import!Opened \/ Import!RequestFails
           \/ Import!createTemplateProject
    PROVE  ImportInv'
<1>1. CASE Import!createFromTemplate
  <2>1. WholeInv'
    BY <1>1 DEF Import!createFromTemplate, Import!candidate, Import!remote, ImportInv, WholeInv,
                ImportTypes, StepsInv, StatesInv
  <2>2. /\ made' \in 0..MaxImports /\ asked' = made' /\ made <= made' /\ made \in Nat
        /\ importKept' \in 1..made'
    BY <1>1, NoKeyAssumption, SizesAssumption DEF Import!createFromTemplate, Import!Key, ImportInv, KeysInv
  <2>3. importPosts' = Append(importPosts, importKept')
    BY <1>1 DEF Import!createFromTemplate
  <2>4. importPosts' \in Seq(1..made')
    <3>1. 1..made \subseteq 1..made' /\ importPosts \in Seq(1..made)
      BY <2>2 DEF ImportInv, KeysInv
    <3>2. importPosts \in Seq(1..made')
      BY <3>1, SeqMonotonic
    <3>3. QED
      BY <2>2, <2>3, <3>2, AppendProperties
  <2>5. \A k \in 1..MaxImports : imports'[k] # 0 => k <= made'
    BY <1>1, <2>2, NoKeyAssumption, SizesAssumption DEF Import!createFromTemplate, ImportInv, KeysInv
  <2>6. importPage' = "waiting" /\ imports' = imports /\ importKept' # None
    BY <1>1, <2>2, NoKeyAssumption, SizesAssumption DEF Import!createFromTemplate
  <2>7. QED
    BY <2>1, <2>2, <2>4, <2>5, <2>6 DEF ImportInv, KeysInv
<1>2. CASE Import!Opened \/ Import!RequestFails
  <2>1. WholeInv'
    BY <1>2 DEF Import!Opened, Import!RequestFails, Import!candidate, Import!remote, ImportInv,
                WholeInv, ImportTypes, StepsInv, StatesInv
  <2>2. KeysInv'
    <3>1. importPosts' = importPosts \/ importPosts' = <<>>
      BY <1>2 DEF Import!Opened, Import!RequestFails
    <3>2. importPosts' \in Seq(1..made)
      BY <3>1, EmptySeq DEF ImportInv, KeysInv
    <3>3. /\ UNCHANGED <<made, asked, imports>>
          /\ importPage' \in {"idle", "failed"}
          /\ importKept' \in 1..made \union {None}
          /\ importPage' = "idle" <=> importKept' = None
      BY <1>2 DEF Import!Opened, Import!RequestFails, ImportInv, KeysInv
    <3>4. QED
      BY <3>2, <3>3 DEF ImportInv, KeysInv
  <2>3. QED
    BY <2>1, <2>2 DEF ImportInv
<1>3. CASE Import!createTemplateProject
  <2>1. /\ Head(importPosts) \in 1..made /\ importPosts' \in Seq(1..made)
        /\ UNCHANGED <<importPage, importKept, made, asked>>
    <3>1. importPosts # <<>> /\ importPosts' = Tail(importPosts) /\ importPosts \in Seq(1..made)
      BY <1>3 DEF Import!createTemplateProject, ImportInv, KeysInv
    <3>2. Head(importPosts) \in 1..made /\ Tail(importPosts) \in Seq(1..made)
      BY <3>1, HeadTailProperties
    <3>3. QED
      BY <1>3, <3>1, <3>2 DEF Import!createTemplateProject
  <2>2. imports' = imports \/ imports' = [imports EXCEPT ![Head(importPosts)] = @ + 1]
    BY <1>3 DEF Import!createTemplateProject
  <2>3. KeysInv'
    <3>1. /\ imports' \in [1..MaxImports -> Nat]
          /\ \A k \in 1..MaxImports : imports'[k] # 0 => k <= made
      <4>1. CASE imports' = imports
        BY <4>1 DEF ImportInv, KeysInv
      <4>2. CASE imports' = [imports EXCEPT ![Head(importPosts)] = @ + 1]
        <5>1. /\ imports \in [1..MaxImports -> Nat] /\ Head(importPosts) \in 1..MaxImports
              /\ \A k \in 1..MaxImports : imports[k] # 0 => k <= made
          BY <2>1, NoKeyAssumption, SizesAssumption DEF ImportInv, KeysInv
        <5>2. imports[Head(importPosts)] + 1 \in Nat /\ Head(importPosts) <= made
          BY <2>1, <5>1 DEF ImportInv, KeysInv
        <5>3. QED
          BY <4>2, <5>1, <5>2
      <4>3. QED
        BY <2>2, <4>1, <4>2
    <3>2. QED
      BY <2>1, <3>1 DEF ImportInv, KeysInv
  <2>4. state' = state \/ (state = "none" /\ state' = "queued")
    BY <1>3 DEF Import!createTemplateProject
  <2>5. WholeInv'
    BY <1>3, <2>4 DEF Import!createTemplateProject, Import!candidate, Import!remote, ImportInv,
                WholeInv, ImportTypes, StepsInv, StatesInv
  <2>6. QED
    BY <2>3, <2>5 DEF ImportInv
<1>4. QED
  BY <1>1, <1>2, <1>3

\* A step that leaves the page and the server's keys alone.
LEMMA KeysSame == ASSUME KeysInv, UNCHANGED Import!client PROVE KeysInv'
BY DEF KeysInv, Import!client

\* The import begins, is stopped, or takes a step that may fail.
LEMMA ImportingKeeps ==
    ASSUME ImportInv,
           \/ Import!Start \/ Import!Cancel \/ Import!Watchdog \/ Import!runCandidate
           \/ Import!SaveSource \/ Import!SaveAndBind \/ Import!OpenPage \/ Import!RenewLease
    PROVE  ImportInv'
<1>1. KeysInv'
  BY KeysSame DEF ImportInv, Import!Start, Import!Cancel, Import!Watchdog, Import!runCandidate,
                  Import!SaveSource, Import!SaveAndBind, Import!OpenPage, Import!RenewLease
<1> USE DEF ImportInv, WholeInv, ImportTypes, StepsInv, StatesInv, Import!candidate,
            Import!remote, Import!Failed
<1>2. CASE Import!Start
  BY <1>1, <1>2 DEF Import!Start
<1>3. CASE Import!Cancel
  BY <1>1, <1>3 DEF Import!Cancel
<1>4. CASE Import!Watchdog
  BY <1>1, <1>4 DEF Import!Watchdog, Import!Live
<1>5. CASE Import!runCandidate
  BY <1>1, <1>5 DEF Import!runCandidate
<1>6. CASE Import!SaveSource
  BY <1>1, <1>6 DEF Import!SaveSource
<1>7. CASE Import!SaveAndBind
  BY <1>1, <1>7 DEF Import!SaveAndBind
<1>8. CASE Import!OpenPage
  BY <1>1, <1>8 DEF Import!OpenPage
<1>9. CASE Import!RenewLease
  BY <1>1, <1>9 DEF Import!RenewLease
<1>10. QED
  BY <1>2, <1>3, <1>4, <1>5, <1>6, <1>7, <1>8, <1>9

\* The import ends: accepted, or caught, settled, cut off and reclaimed.
LEMMA ImportedKeeps ==
    ASSUME ImportInv,
           \/ Import!completeTemplate \/ Import!ReadBack \/ Import!Settle
           \/ Import!Restart \/ Import!Reclaim
    PROVE  ImportInv'
<1>1. KeysInv'
  BY KeysSame DEF ImportInv, Import!completeTemplate, Import!ReadBack, Import!Settle,
                  Import!Restart, Import!Reclaim
<1> USE DEF ImportInv, WholeInv, ImportTypes, StepsInv, StatesInv, Import!candidate,
            Import!remote, Import!Failed
<1>2. CASE Import!completeTemplate
  BY <1>1, <1>2 DEF Import!completeTemplate, Import!Acceptable
<1>3. CASE Import!ReadBack
  BY <1>1, <1>3 DEF Import!ReadBack
<1>4. CASE Import!Settle
  BY <1>1, <1>4 DEF Import!Settle, Import!Destroyed
<1>5. CASE Import!Restart
  BY <1>1, <1>5 DEF Import!Restart
<1>6. CASE Import!Reclaim
  BY <1>1, <1>6 DEF Import!Reclaim
<1>7. QED
  BY <1>2, <1>3, <1>4, <1>5, <1>6

\* Every step of an import keeps the invariant.
LEMMA NextImport == ASSUME ImportInv, Import!Next PROVE ImportInv'
BY AskingKeeps, ImportingKeeps, ImportedKeeps DEF Import!Next

\* No more projects than imports that were asked for, and a version only of a whole one.
LEMMA ImportProperty ==
    ASSUME ImportInv
    PROVE  Import!OneProjectPerImport /\ Import!ImportIsWhole /\ Import!ImportTypeOK
<1> DEFINE with == {k \in 1..MaxImports : imports[k] # 0}
<1>1. with \subseteq 1..made /\ made \in Nat /\ asked = made
  BY DEF ImportInv, KeysInv
<1>2. IsFiniteSet(1..made) /\ Cardinality(1..made) = made
  BY <1>1, FS_Interval
<1>3. Cardinality(with) <= made
  BY <1>1, <1>2, FS_Subset
<1>4. Import!OneProjectPerImport
  BY <1>1, <1>3, ImportCardinality DEF Import!OneProjectPerImport
<1>5. Import!ImportIsWhole
  BY DEF ImportInv, WholeInv, ImportTypes, StatesInv, Import!ImportIsWhole
<1>6. Import!ImportTypeOK
  BY NoKeyAssumption, SizesAssumption DEF ImportInv, KeysInv, WholeInv, ImportTypes, Import!ImportTypeOK
<1>7. QED
  BY <1>4, <1>5, <1>6

-----------------------------------------------------------------------------
(* RollbackRequest: what the tab holds of an operation the server runs.      *)

Mails == [kind : {"start", "cancel"}, key : Nat, awaited : BOOLEAN]
Statuses == Request!Over \union {"none", "running"}
RequestTypes ==
    /\ requestKeys \in 0..MaxRequests /\ requestKept \in BOOLEAN
    /\ requestStatus \in [1..MaxRequests -> Statuses]
    /\ \A k \in 1..MaxRequests : k > requestKeys => requestStatus[k] = "none"
    /\ {held, storedHeld} \subseteq Request!Submissions
    /\ held # Request!Nothing => held.key # 0
    /\ storedHeld # Request!Nothing => storedHeld.key # 0
    /\ post \in [kind : {"none", "start", "cancel"},
                 answer : {"none", "operation", "refused", "fault"}]
    /\ shownOp \in [id : 0..requestKeys, status : Statuses]
    /\ shownOp.id = 0 => shownOp.status = "none"
    /\ told \subseteq 1..requestKeys
\* A request that is awaited is the last one that left, and asks about what is held.
MailInv ==
    /\ mail \in Seq(Mails)
    /\ \A i \in 1..Len(mail) : mail[i].key \in 1..requestKeys
    /\ \A i \in 1..Len(mail) : mail[i].awaited =>
          /\ i = Len(mail) /\ post.kind = mail[i].kind /\ post.answer = "none"
          /\ held # Request!Nothing => mail[i].key = held.key
    /\ post.kind = "none" => post.answer = "none"
    /\ post.answer \in {"operation", "refused"} => mail = <<>>
\* Nothing runs, and nothing on its way can come to run, but the operation that is held;
\* one that was refused does not.
HeldInv ==
    /\ held = storedHeld
    /\ \A k \in 1..MaxRequests : k # held.key => requestStatus[k] # "running"
    /\ \A i \in 1..Len(mail) : mail[i].kind = "start" /\ mail[i].key # held.key =>
          requestStatus[mail[i].key] # "none"
    /\ post.answer = "refused" /\ post.kind = "start" /\ held # Request!Nothing =>
          requestStatus[held.key] = "none"
RunningInv == RequestTypes /\ MailInv /\ (requestKept => HeldInv)

\* Nothing is asked for at first.
LEMMA InitRequest == (part = "Request" /\ Request!Init) => RunningInv
<1> SUFFICES ASSUME Request!Init PROVE RunningInv
  OBVIOUS
<1>1. mail = <<>> /\ mail \in Seq(Mails) /\ Len(mail) = 0
  BY EmptySeq DEF Request!Init
<1>2. RequestTypes
  BY SizesAssumption DEF Request!Init, RequestTypes, Statuses, Request!Nothing,
     Request!Submissions, Request!NoOperation, Request!Quiet
<1>3. MailInv
  BY <1>1 DEF Request!Init, MailInv, Request!Quiet
<1>4. HeldInv
  BY <1>1 DEF Request!Init, HeldInv, Request!Quiet
<1>5. QED
  BY <1>2, <1>3, <1>4 DEF RunningInv

\* A request leaves, about the operation that is held from now on.
LEMMA RequestLeaves ==
    ASSUME RunningInv, NEW sort \in {"start", "cancel"}, Request!Request(sort, held'.key),
           requestKeys' \in 0..MaxRequests, requestKeys <= requestKeys',
           held'.key \in 1..requestKeys', held' # Request!Nothing,
           requestStatus' = requestStatus,
           held' = held \/ held = Request!Nothing
    PROVE  /\ MailInv'
           /\ post' \in [kind : {"none", "start", "cancel"},
                         answer : {"none", "operation", "refused", "fault"}]
           /\ requestKept /\ held' = storedHeld' => HeldInv'
<1> DEFINE new == [kind |-> sort, key |-> held'.key, awaited |-> TRUE]
<1>1. new \in Mails /\ new.kind = sort /\ new.key = held'.key
  BY SizesAssumption DEF Mails
<1>2. /\ post.kind = "none" /\ post' = [kind |-> sort, answer |-> "none"]
      /\ mail' = Append(mail, new) /\ mail \in Seq(Mails)
  BY DEF Request!Request, RunningInv, MailInv
<1> HIDE DEF new
<1>3. /\ mail' \in Seq(Mails) /\ Len(mail') = Len(mail) + 1 /\ Len(mail) \in Nat
      /\ \A i \in 1..Len(mail) : mail'[i] = mail[i]
      /\ mail'[Len(mail) + 1] = new
  BY <1>1, <1>2, AppendProperties, LenProperties
<1>8. \A i \in 1..Len(mail) : ~mail[i].awaited
  <2>1. \A i \in 1..Len(mail) : mail[i] \in Mails
    BY <1>2, ElementOfSeq
  <2>2. QED
    BY <1>2, <2>1 DEF RunningInv, MailInv, Mails
<1>4. \A i \in 1..Len(mail') :
         \/ i \in 1..Len(mail) /\ mail'[i] = mail[i] /\ ~mail[i].awaited
         \/ i = Len(mail') /\ mail'[i] = new
  BY <1>3, <1>8
<1>5. MailInv'
  <2>1. \A i \in 1..Len(mail') : mail'[i].key \in 1..requestKeys'
    BY <1>1, <1>4 DEF RunningInv, MailInv, RequestTypes
  <2>2. QED
    BY <1>1, <1>2, <1>3, <1>4, <2>1 DEF MailInv
<1>6. ASSUME requestKept, held' = storedHeld' PROVE HeldInv'
  <2>1. \A i \in 1..Len(mail') : mail'[i].kind = "start" /\ mail'[i].key # held'.key =>
          requestStatus'[mail'[i].key] # "none"
    BY <1>1, <1>4, <1>6 DEF RunningInv, HeldInv, MailInv, Request!Nothing
  <2>2. \A k \in 1..MaxRequests : k # held'.key => requestStatus'[k] # "running"
    BY <1>6 DEF RunningInv, HeldInv, Request!Nothing
  <2>3. QED
    BY <1>2, <1>6, <2>1, <2>2 DEF HeldInv
<1>7. QED
  BY <1>2, <1>5, <1>6

\* The tab asks, asks again, or asks to cancel.
LEMMA AskKeeps ==
    ASSUME RunningInv, Request!Start \/ Request!Confirm \/ Request!Cancel
    PROVE  RunningInv'
<1>1. CASE Request!Start
  <2> DEFINE new == [key |-> requestKeys + 1, operation |-> 0]
  <2>1. /\ held = Request!Nothing /\ requestKeys' = requestKeys + 1
        /\ requestKeys' \in 0..MaxRequests /\ requestKeys \in Nat
        /\ UNCHANGED <<requestStatus, told, requestKept>>
        /\ shownOp' = Request!NoOperation
        /\ held' = new /\ storedHeld' = IF requestKept THEN new ELSE Request!Nothing
        /\ Request!Request("start", requestKeys + 1)
    BY <1>1, SizesAssumption DEF Request!Start, Request!Save, RunningInv, RequestTypes
  <2>2. /\ new \in [key : 0..requestKeys', operation : 0..requestKeys']
        /\ new.key = requestKeys' /\ new # Request!Nothing
    BY <2>1 DEF Request!Nothing
  <2> HIDE DEF new
  <2>3. MailInv' /\ (requestKept /\ held' = storedHeld' => HeldInv')
        /\ post' \in [kind : {"none", "start", "cancel"},
                      answer : {"none", "operation", "refused", "fault"}]
    <3>1. Request!Request("start", held'.key)
      BY <2>1, <2>2
    <3>2. held'.key \in 1..requestKeys' /\ held' # Request!Nothing
      BY <2>1, <2>2
    <3>3. QED
      BY <2>1, <3>1, <3>2, RequestLeaves
  <2>4. RequestTypes'
    <3>1. \A k \in 1..MaxRequests : k > requestKeys' => requestStatus'[k] = "none"
      BY <2>1 DEF RunningInv, RequestTypes
    <3>2. {held', storedHeld'} \subseteq Request!Submissions'
      BY <2>1, <2>2 DEF Request!Submissions, Request!Nothing
    <3>3. shownOp' \in [id : 0..requestKeys', status : Statuses] /\ shownOp'.status = "none"
      BY <2>1 DEF Request!NoOperation, Statuses
    <3>4. told' \subseteq 1..requestKeys'
      BY <2>1 DEF RunningInv, RequestTypes
    <3>5. held'.key # 0 /\ (storedHeld' # Request!Nothing => storedHeld'.key # 0)
      BY <2>1, <2>2
    <3>6. QED
      BY <2>1, <2>3, <3>1, <3>2, <3>3, <3>4, <3>5 DEF RunningInv, RequestTypes, Statuses
  <2>5. QED
    BY <2>1, <2>3, <2>4 DEF RunningInv
<1>2. CASE Request!Confirm \/ Request!Cancel
  <2>1. PICK sort \in {"start", "cancel"} :
          /\ held # Request!Nothing /\ Request!Request(sort, held.key)
          /\ UNCHANGED <<requestKeys, held, storedHeld, shownOp, requestStatus, told, requestKept>>
    BY <1>2 DEF Request!Confirm, Request!Cancel, Request!Nothing
  <2>2. held.key \in 1..requestKeys /\ requestKeys \in 0..MaxRequests /\ requestKeys <= requestKeys
    BY <2>1, SizesAssumption DEF RunningInv, RequestTypes, Request!Submissions
  <2>3. /\ Request!Request(sort, held'.key) /\ held'.key \in 1..requestKeys'
        /\ requestKeys' \in 0..MaxRequests /\ requestKeys <= requestKeys'
        /\ held' # Request!Nothing
    BY <2>1, <2>2
  <2>4. MailInv' /\ (requestKept /\ held' = storedHeld' => HeldInv')
        /\ post' \in [kind : {"none", "start", "cancel"},
                      answer : {"none", "operation", "refused", "fault"}]
    BY <2>1, <2>3, RequestLeaves
  <2>5. RequestTypes'
    BY <2>1, <2>4 DEF RunningInv, RequestTypes, Request!Submissions
  <2>6. QED
    BY <2>1, <2>4, <2>5 DEF RunningInv, HeldInv
<1>3. QED
  BY <1>1, <1>2

\* What the tab holds once it has accepted what the server says of an operation.
LEMMA AcceptKeeps ==
    ASSUME RunningInv, held # Request!Nothing, Request!Accept(held.key),
           UNCHANGED <<requestKeys, mail, requestStatus, requestKept, told>>
    PROVE  /\ {held', storedHeld'} \subseteq Request!Submissions'
           /\ held' # Request!Nothing => held'.key = held.key /\ held.key # 0
           /\ storedHeld' # Request!Nothing => storedHeld'.key # 0
           /\ shownOp' \in [id : 0..requestKeys', status : Statuses]
           /\ shownOp'.id = 0 => shownOp'.status = "none"
           /\ requestKept =>
                /\ held' = storedHeld'
                /\ \A k \in 1..MaxRequests : k # held'.key => requestStatus'[k] # "running"
                /\ \A i \in 1..Len(mail') : mail'[i].kind = "start" /\ mail'[i].key # held'.key =>
                      requestStatus'[mail'[i].key] # "none"
<1> DEFINE k == held.key
<1> DEFINE new == Request!AfterAccept(k)
<1>1. /\ k \in 1..requestKeys /\ k \in 1..MaxRequests /\ requestStatus[k] \in Statuses
      /\ requestKeys \in Nat
  BY SizesAssumption DEF RunningInv, RequestTypes, Request!Submissions
<1>2. /\ shownOp' = [id |-> k, status |-> requestStatus[k]]
      /\ held' = new /\ storedHeld' = IF requestKept THEN new ELSE Request!Nothing
  BY DEF Request!Accept, Request!Save
<1>3. /\ new \in Request!Submissions
      /\ new # Request!Nothing => new.key = k
      /\ new = Request!Nothing =>
            requestStatus[k] \notin {"none", "running"} /\ new.key = 0
  <2>1. CASE requestStatus[k] \in Request!Over
    BY <1>1, <2>1 DEF Request!AfterAccept, Request!Submissions, Request!Nothing, Request!Over
  <2>2. CASE requestStatus[k] \notin Request!Over
    <3>1. new = [key |-> k, operation |-> k] /\ new.key = k /\ k # 0
      BY <1>1, <2>2 DEF Request!AfterAccept
    <3>2. QED
      BY <1>1, <3>1 DEF Request!Submissions, Request!Nothing
  <2>3. QED
    BY <2>1, <2>2
<1> HIDE DEF new
<1>4. Request!Nothing \in Request!Submissions
  BY SizesAssumption DEF Request!Nothing, Request!Submissions, RunningInv, RequestTypes
<1>5. Request!Submissions' = Request!Submissions
  BY DEF Request!Submissions
<1>6. shownOp' \in [id : 0..requestKeys', status : Statuses] /\ shownOp'.id # 0
  BY <1>1, <1>2
<1>7. ASSUME requestKept
      PROVE  /\ held' = storedHeld'
             /\ \A j \in 1..MaxRequests : j # held'.key => requestStatus'[j] # "running"
             /\ \A i \in 1..Len(mail') : mail'[i].kind = "start" /\ mail'[i].key # held'.key =>
                      requestStatus'[mail'[i].key] # "none"
  BY <1>2, <1>3, <1>7 DEF RunningInv, HeldInv
<1> HIDE DEF k
<1>8. QED
  BY <1>1, <1>2, <1>3, <1>4, <1>5, <1>6, <1>7 DEF k

\* The answer of the server is taken in.
LEMMA AnsweredKeeps == ASSUME RunningInv, Request!Answered PROVE RunningInv'
<1>1. /\ post' = Request!Quiet /\ post.answer # "none"
      /\ UNCHANGED <<requestKeys, mail, requestStatus, requestKept, told>>
  BY DEF Request!Answered
<1>2. \A i \in 1..Len(mail) : ~mail[i].awaited
  BY <1>1 DEF RunningInv, MailInv
<1>3. MailInv'
  BY <1>1, <1>2 DEF RunningInv, MailInv, Request!Quiet
<1>4. CASE held # Request!Nothing /\ Request!Accept(held.key)
  <2>1. RequestTypes'
    BY <1>1, <1>4, AcceptKeeps DEF RunningInv, RequestTypes, Request!Quiet
  <2>2. requestKept => HeldInv'
    BY <1>1, <1>4, AcceptKeeps DEF HeldInv, Request!Quiet
  <2>3. QED
    BY <1>1, <1>3, <2>1, <2>2 DEF RunningInv
<1>5. CASE /\ post.answer = "refused" /\ post.kind = "start"
           /\ Request!Save(Request!Nothing) /\ UNCHANGED shownOp
  <2>1. held' = Request!Nothing /\ storedHeld' = Request!Nothing
    BY <1>5 DEF Request!Save
  <2>2. RequestTypes'
    BY <1>1, <1>5, <2>1, SizesAssumption
       DEF RunningInv, RequestTypes, Request!Quiet, Request!Nothing, Request!Submissions
  <2>3. mail' = <<>> /\ Len(mail') = 0
    BY <1>1, <1>5 DEF RunningInv, MailInv
  <2>4. ASSUME requestKept, NEW k \in 1..MaxRequests PROVE requestStatus'[k] # "running"
    BY <1>1, <1>5, <2>4 DEF RunningInv, RequestTypes, HeldInv, Request!Nothing, Request!Submissions
  <2>5. requestKept => HeldInv'
    BY <1>1, <2>1, <2>3, <2>4 DEF HeldInv, Request!Quiet
  <2>6. QED
    BY <1>1, <1>3, <2>2, <2>5 DEF RunningInv
<1>6. CASE UNCHANGED <<held, storedHeld, shownOp>>
  <2>1. RequestTypes'
    BY <1>1, <1>6 DEF RunningInv, RequestTypes, Request!Quiet, Request!Submissions
  <2>2. QED
    BY <1>1, <1>3, <1>6, <2>1 DEF RunningInv, HeldInv, Request!Quiet
<1>7. QED
  BY <1>4, <1>5, <1>6 DEF Request!Answered

\* A poll of the operation that is held, and what only the screen shows.
LEMMA PollKeeps ==
    ASSUME RunningInv, Request!Poll \/ Request!Notify \/ Request!Dismiss
    PROVE  RunningInv'
<1>1. UNCHANGED <<requestKeys, mail, requestStatus, requestKept, post>>
  BY DEF Request!Poll, Request!Notify, Request!Dismiss
<1>2. CASE Request!Poll
  <2>1. held # Request!Nothing /\ Request!Accept(held.key) /\ UNCHANGED told
    BY <1>2 DEF Request!Poll, Request!Nothing
  <2>2. RequestTypes'
    BY <1>1, <2>1, AcceptKeeps DEF RunningInv, RequestTypes
  <2>3. MailInv'
    BY <1>1, <2>1, AcceptKeeps DEF RunningInv, MailInv
  <2>4. ASSUME requestKept PROVE HeldInv'
    <3>1. post'.answer = "refused" /\ post'.kind = "start" /\ held' # Request!Nothing =>
             requestStatus'[held'.key] = "none"
      BY <1>1, <2>1, <2>4, AcceptKeeps DEF RunningInv, HeldInv
    <3>2. QED
      BY <1>1, <2>1, <2>4, <3>1, AcceptKeeps DEF HeldInv
  <2>5. QED
    BY <1>1, <2>2, <2>3, <2>4 DEF RunningInv
<1>3. CASE Request!Notify \/ Request!Dismiss
  <2>1. UNCHANGED <<held, storedHeld>>
    BY <1>3 DEF Request!Notify, Request!Dismiss
  <2>2. told' \subseteq 1..requestKeys' /\ shownOp' \in [id : 0..requestKeys', status : Statuses]
        /\ (shownOp'.id = 0 => shownOp'.status = "none")
    <3>1. CASE Request!Notify
      <4>1. shownOp.id \in 1..requestKeys
        BY <3>1, SizesAssumption DEF Request!Notify, RunningInv, RequestTypes
      <4>2. QED
        BY <1>1, <3>1, <4>1 DEF Request!Notify, RunningInv, RequestTypes
    <3>2. CASE Request!Dismiss
      <4>1. shownOp' = [id |-> 0, status |-> "none"] /\ told' = told /\ requestKeys \in Nat
        BY <3>2, SizesAssumption DEF Request!Dismiss, Request!NoOperation, RunningInv, RequestTypes
      <4>2. QED
        BY <1>1, <4>1 DEF RunningInv, RequestTypes, Statuses
    <3>3. QED
      BY <1>3, <3>1, <3>2
  <2>3. RequestTypes'
    BY <1>1, <2>1, <2>2 DEF RunningInv, RequestTypes, Request!Submissions
  <2>4. QED
    BY <1>1, <2>1, <2>3 DEF RunningInv, MailInv, HeldInv
<1>4. QED
  BY <1>2, <1>3

\* The server takes the next request in.
LEMMA ServeKeeps == ASSUME RunningInv, Request!Serve PROVE RunningInv'
<1> DEFINE m == Head(mail)
<1>1. /\ mail # <<>> /\ mail' = Tail(mail) /\ mail \in Seq(Mails)
      /\ UNCHANGED <<requestKeys, held, storedHeld, shownOp, told, requestKept>>
  BY DEF Request!Serve, RunningInv, MailInv
<1>2. /\ m = mail[1] /\ m \in Mails /\ mail' \in Seq(Mails)
      /\ Len(mail) \in Nat \ {0} /\ Len(mail') = Len(mail) - 1
      /\ \A i \in 1..Len(mail') : mail'[i] = mail[i + 1]
  BY <1>1, HeadTailProperties, EmptySeq
<1> HIDE DEF m
<1>3. /\ m.key \in 1..requestKeys /\ m.key \in 1..MaxRequests /\ requestStatus[m.key] \in Statuses
      /\ m.awaited =>
           /\ Len(mail) = 1 /\ post.kind = m.kind /\ post.answer = "none"
           /\ held # Request!Nothing => m.key = held.key
      /\ post.answer \notin {"operation", "refused"}
  <2>1. 1 \in 1..Len(mail)
    BY <1>2
  <2>2. /\ m.key \in 1..requestKeys
        /\ m.awaited =>
             /\ Len(mail) = 1 /\ post.kind = m.kind /\ post.answer = "none"
             /\ held # Request!Nothing => m.key = held.key
        /\ post.answer \notin {"operation", "refused"}
    BY <1>1, <1>2, <2>1 DEF RunningInv, MailInv
  <2>3. m.key \in 1..MaxRequests /\ requestStatus[m.key] \in Statuses
    BY <2>2, SizesAssumption DEF RunningInv, RequestTypes
  <2>4. QED
    BY <2>2, <2>3
<1>4. PICK said \in {"operation", "refused", "fault"} :
        /\ m.kind = "start" /\ requestStatus[m.key] # "none" => said # "refused"
        /\ requestStatus' = IF said # "operation" THEN requestStatus
                            ELSE IF m.kind = "start" /\ requestStatus[m.key] = "none"
                                 THEN [requestStatus EXCEPT ![m.key] = "running"]
                            ELSE IF m.kind = "cancel" /\ requestStatus[m.key] = "running"
                                 THEN [requestStatus EXCEPT ![m.key] = "cancelled"]
                            ELSE requestStatus
        /\ post' = IF m.awaited THEN [post EXCEPT !.answer = said] ELSE post
  BY DEF Request!Serve, m
<1>5. \/ requestStatus' = requestStatus
      \/ /\ m.kind = "start" /\ requestStatus[m.key] = "none" /\ said = "operation"
         /\ requestStatus' = [requestStatus EXCEPT ![m.key] = "running"]
      \/ /\ requestStatus[m.key] = "running" /\ said = "operation"
         /\ requestStatus' = [requestStatus EXCEPT ![m.key] = "cancelled"]
  BY <1>4
<1>6. /\ requestStatus' \in [1..MaxRequests -> Statuses]
      /\ \A k \in 1..MaxRequests : requestStatus[k] # "none" => requestStatus'[k] # "none"
      /\ \A k \in 1..MaxRequests : k # m.key => requestStatus'[k] = requestStatus[k]
  BY <1>3, <1>5 DEF RunningInv, RequestTypes, Statuses, Request!Over
<1>7. /\ post' \in [kind : {"none", "start", "cancel"},
                    answer : {"none", "operation", "refused", "fault"}]
      /\ post'.kind = post.kind
      /\ ~m.awaited => post' = post
      /\ m.awaited => post'.answer = said /\ Len(mail') = 0
  BY <1>2, <1>3, <1>4 DEF RunningInv, RequestTypes
<1>8. RequestTypes'
  <2>1. \A k \in 1..MaxRequests : k > requestKeys => requestStatus'[k] = "none"
    BY <1>3, <1>6, SizesAssumption DEF RunningInv, RequestTypes
  <2>2. QED
    BY <1>1, <1>6, <1>7, <2>1 DEF RunningInv, RequestTypes, Request!Submissions
<1>9. \A i \in 1..Len(mail') : i + 1 \in 1..Len(mail) /\ mail'[i] = mail[i + 1]
  BY <1>2
<1>10. MailInv'
  <2>1. \A i \in 1..Len(mail') : mail'[i].key \in 1..requestKeys'
    BY <1>1, <1>9 DEF RunningInv, MailInv
  <2>2. ASSUME NEW i \in 1..Len(mail'), mail'[i].awaited
        PROVE  /\ i = Len(mail') /\ post'.kind = mail'[i].kind /\ post'.answer = "none"
               /\ held' # Request!Nothing => mail'[i].key = held'.key
    <3>1. i + 1 \in 1..Len(mail) /\ mail[i + 1].awaited /\ mail'[i] = mail[i + 1]
      BY <1>9, <2>2
    <3>2. ~m.awaited
      BY <1>7, <2>2
    <3>3. i + 1 = Len(mail) /\ post.kind = mail[i + 1].kind /\ post.answer = "none"
          /\ (held # Request!Nothing => mail[i + 1].key = held.key)
      BY <3>1 DEF RunningInv, MailInv
    <3>4. post' = post /\ held' = held
      BY <1>1, <1>7, <3>2
    <3>5. i = Len(mail')
      BY <1>2, <3>3
    <3>6. QED
      BY <3>1, <3>3, <3>4, <3>5
  <2>3. post'.kind = "none" => post'.answer = "none"
    BY <1>2, <1>3, <1>7 DEF RunningInv, MailInv, Mails
  <2>4. post'.answer \in {"operation", "refused"} => mail' = <<>>
    BY <1>2, <1>3, <1>7, EmptySeq
  <2>5. QED
    BY <1>2, <2>1, <2>2, <2>3, <2>4 DEF MailInv
<1>11. ASSUME requestKept PROVE HeldInv'
  <2>1. HeldInv
    BY <1>11 DEF RunningInv
  <2>2. m.kind = "start" /\ requestStatus[m.key] = "none" => m.key = held.key
    <3>1. 1 \in 1..Len(mail) /\ m = mail[1]
      BY <1>2
    <3>2. QED
      BY <2>1, <3>1 DEF HeldInv
  <2>3. ASSUME NEW k \in 1..MaxRequests, k # held'.key PROVE requestStatus'[k] # "running"
    BY <1>1, <1>3, <1>5, <2>1, <2>2, <2>3 DEF HeldInv, RunningInv, RequestTypes
  <2>4. ASSUME NEW i \in 1..Len(mail'), mail'[i].kind = "start", mail'[i].key # held'.key
        PROVE  requestStatus'[mail'[i].key] # "none"
    <3>1. i + 1 \in 1..Len(mail) /\ mail'[i] = mail[i + 1]
      BY <1>9, <2>4
    <3>2. mail[i + 1].key \in 1..MaxRequests
      BY <3>1, SizesAssumption DEF RunningInv, MailInv, RequestTypes
    <3>3. requestStatus[mail[i + 1].key] # "none"
      BY <1>1, <2>1, <2>4, <3>1 DEF HeldInv
    <3>4. QED
      BY <1>6, <3>1, <3>2, <3>3
  <2>5. ASSUME post'.answer = "refused", post'.kind = "start", held' # Request!Nothing
        PROVE  requestStatus'[held'.key] = "none"
    <3>1. m.awaited /\ said = "refused" /\ m.kind = "start" /\ m.key = held.key
      BY <1>1, <1>3, <1>7, <2>5
    <3>2. requestStatus[m.key] = "none" /\ requestStatus' = requestStatus
      BY <1>4, <3>1 DEF m
    <3>3. QED
      BY <1>1, <3>1, <3>2
  <2>6. QED
    BY <1>1, <2>1, <2>3, <2>4, <2>5 DEF HeldInv
<1>12. QED
  BY <1>1, <1>8, <1>10, <1>11 DEF RunningInv

\* An operation ends on the server.
LEMMA FinishKeeps ==
    ASSUME RunningInv, NEW k \in 1..MaxRequests, Request!Finish(k)
    PROVE  RunningInv'
<1>1. /\ UNCHANGED <<requestKeys, held, storedHeld, shownOp, post, mail, told, requestKept>>
      /\ requestStatus[k] = "running"
  BY DEF Request!Finish
<1>2. PICK s \in {"committed", "failed"} : requestStatus' = [requestStatus EXCEPT ![k] = s]
  BY DEF Request!Finish
<1>3. /\ requestStatus' \in [1..MaxRequests -> Statuses]
      /\ \A j \in 1..MaxRequests : j # k => requestStatus'[j] = requestStatus[j]
      /\ requestStatus'[k] \notin {"none", "running"}
  BY <1>2 DEF RunningInv, RequestTypes, Statuses, Request!Over
<1>4. RequestTypes'
  BY <1>1, <1>3 DEF RunningInv, RequestTypes, Request!Submissions
<1>5. MailInv'
  BY <1>1 DEF RunningInv, MailInv
<1>6. ASSUME requestKept PROVE HeldInv'
  <2>1. HeldInv /\ \A i \in 1..Len(mail) : mail[i].key \in 1..MaxRequests
    BY <1>6, SizesAssumption DEF RunningInv, MailInv, RequestTypes
  <2>2. held # Request!Nothing => held.key \in 1..MaxRequests
    BY SizesAssumption DEF RunningInv, RequestTypes, Request!Submissions
  <2>3. QED
    BY <1>1, <1>3, <2>1, <2>2 DEF HeldInv
<1>7. QED
  BY <1>1, <1>4, <1>5, <1>6 DEF RunningInv

\* What is still on its way when nobody waits for it any more.
LEMMA SilentMail ==
    ASSUME mail \in Seq(Mails)
    PROVE  /\ Silent(mail) \in Seq(Mails) /\ Len(Silent(mail)) = Len(mail) /\ Len(mail) \in Nat
           /\ \A i \in 1..Len(mail) :
                /\ Silent(mail)[i].key = mail[i].key /\ Silent(mail)[i].kind = mail[i].kind
                /\ ~Silent(mail)[i].awaited
<1>1. ASSUME NEW r \in Mails
      PROVE  LET q == [r EXCEPT !.awaited = FALSE]
             IN  q \in Mails /\ q.key = r.key /\ q.kind = r.kind /\ ~q.awaited
  BY DEF Mails
<1>2. \A i \in 1..Len(mail) : mail[i] \in Mails
  BY ElementOfSeq
<1>3. /\ Silent(mail) \in Seq(Mails) /\ Len(Silent(mail)) = Len(mail) /\ Len(mail) \in Nat
      /\ \A i \in 1..Len(mail) : Silent(mail)[i] = [mail[i] EXCEPT !.awaited = FALSE]
  BY <1>1, SilentWire, LenProperties
<1>4. QED
  BY <1>1, <1>2, <1>3

\* The tab stops waiting for an answer: its requests are still served, or the last one
\* is not.
LEMMA QuietKeeps ==
    ASSUME RunningInv, UNCHANGED <<requestKeys, held, requestStatus, requestKept>>,
           post'.answer \notin {"operation", "refused"}, post'.kind = "none" => post'.answer = "none",
           \/ mail' = Request!Unawaited
           \/ mail # <<>> /\ mail[Len(mail)].awaited /\ mail' = SubSeq(mail, 1, Len(mail) - 1)
    PROVE  /\ MailInv'
           /\ HeldInv => \A i \in 1..Len(mail') : mail'[i].kind = "start" /\ mail'[i].key # held'.key =>
                requestStatus'[mail'[i].key] # "none"
<1>1. /\ mail \in Seq(Mails) /\ Len(mail) \in Nat
      /\ \A i \in 1..Len(mail) : mail[i].awaited => i = Len(mail)
      /\ \A i \in 1..Len(mail) : mail[i].key \in 1..requestKeys
      /\ \A i \in 1..Len(mail) : mail[i] \in Mails
  BY LenProperties, ElementOfSeq DEF RunningInv, MailInv
<1>2. /\ mail' \in Seq(Mails) /\ Len(mail') <= Len(mail) /\ Len(mail') \in Nat
      /\ \A i \in 1..Len(mail') :
            mail'[i].key = mail[i].key /\ mail'[i].kind = mail[i].kind /\ ~mail'[i].awaited
  <2>1. CASE mail' = Request!Unawaited
    <3>1. mail' = Silent(mail)
      BY <2>1 DEF Request!Unawaited, Silent
    <3>2. QED
      BY <1>1, <3>1, SilentMail
  <2>2. CASE mail # <<>> /\ mail' = SubSeq(mail, 1, Len(mail) - 1)
    <3>1. /\ mail' \in Seq(Mails) /\ Len(mail') = Len(mail) - 1
          /\ \A i \in 1..Len(mail) - 1 : mail'[i] = mail[i]
      BY <1>1, <2>2, FrontOf
    <3>2. Len(mail) \in Nat \ {0}
      BY <1>1, <2>2, EmptySeq
    <3>3. QED
      BY <1>1, <3>1, <3>2
  <2>3. QED
    BY <2>1, <2>2
<1>3. \A i \in 1..Len(mail') : i \in 1..Len(mail)
  BY <1>1, <1>2
<1>4. MailInv'
  BY <1>1, <1>2, <1>3 DEF MailInv
<1>5. ASSUME HeldInv, NEW i \in 1..Len(mail'), mail'[i].kind = "start", mail'[i].key # held'.key
      PROVE  requestStatus'[mail'[i].key] # "none"
  BY <1>2, <1>3, <1>5 DEF HeldInv
<1>6. QED
  BY <1>4, <1>5

\* The connection breaks, or the page is loaded again.
LEMMA BreakKeeps == ASSUME RunningInv, Request!Break \/ Request!Reload PROVE RunningInv'
<1>1. CASE Request!Break
  <2>1. /\ post.kind # "none" /\ post' = [post EXCEPT !.answer = "fault"]
        /\ UNCHANGED <<requestKeys, held, storedHeld, shownOp, requestStatus, told, requestKept>>
        /\ \/ mail' = Request!Unawaited
           \/ mail # <<>> /\ mail[Len(mail)].awaited /\ mail' = SubSeq(mail, 1, Len(mail) - 1)
    BY <1>1 DEF Request!Break
  <2>2. /\ post' \in [kind : {"none", "start", "cancel"},
                      answer : {"none", "operation", "refused", "fault"}]
        /\ post'.answer = "fault" /\ post'.kind # "none"
    BY <2>1 DEF RunningInv, RequestTypes
  <2>3. RequestTypes'
    BY <2>1, <2>2 DEF RunningInv, RequestTypes, Request!Submissions
  <2>4. /\ MailInv'
        /\ HeldInv => \A i \in 1..Len(mail') : mail'[i].kind = "start" /\ mail'[i].key # held'.key =>
             requestStatus'[mail'[i].key] # "none"
    BY <2>1, <2>2, QuietKeeps
  <2>5. QED
    BY <2>1, <2>2, <2>3, <2>4 DEF RunningInv, HeldInv
<1>2. CASE Request!Reload
  <2>1. /\ held' = storedHeld /\ shownOp' = Request!NoOperation /\ post' = Request!Quiet
        /\ mail' = Request!Unawaited
        /\ UNCHANGED <<requestKeys, storedHeld, requestStatus, told, requestKept>>
    BY <1>2 DEF Request!Reload
  <2>2. /\ post' \in [kind : {"none", "start", "cancel"},
                      answer : {"none", "operation", "refused", "fault"}]
        /\ post'.answer = "none" /\ post'.kind = "none"
    BY <2>1 DEF Request!Quiet
  <2>3. RequestTypes'
    <3>1. shownOp' \in [id : 0..requestKeys', status : Statuses] /\ shownOp'.status = "none"
      BY <2>1, SizesAssumption DEF RunningInv, RequestTypes, Request!NoOperation, Statuses
    <3>2. QED
      BY <2>1, <2>2, <3>1 DEF RunningInv, RequestTypes, Request!Submissions
  <2>4. /\ mail' \in Seq(Mails) /\ Len(mail') = Len(mail)
        /\ \A i \in 1..Len(mail) : mail'[i].key = mail[i].key /\ ~mail'[i].awaited
    <3>1. mail' = Silent(mail) /\ mail \in Seq(Mails)
      BY <2>1 DEF Request!Unawaited, Silent, RunningInv, MailInv
    <3>2. QED
      BY <3>1, SilentMail
  <2>5. CASE held' = held
    BY <2>1, <2>2, <2>3, <2>5, QuietKeeps DEF RunningInv, HeldInv
  <2>6. CASE ~requestKept
    <3>1. MailInv'
      <4>1. \A i \in 1..Len(mail') : mail'[i].key \in 1..requestKeys'
        BY <2>1, <2>4 DEF RunningInv, MailInv
      <4>2. QED
        BY <2>2, <2>4, <4>1 DEF MailInv
    <3>2. QED
      BY <2>1, <2>3, <2>6, <3>1 DEF RunningInv
  <2>7. QED
    BY <2>1, <2>5, <2>6 DEF RunningInv, HeldInv
<1>3. QED
  BY <1>1, <1>2

\* Every step of a request keeps the invariant.
LEMMA NextRequest == ASSUME RunningInv, Request!Next PROVE RunningInv'
BY AskKeeps, AnsweredKeeps, PollKeeps, ServeKeeps, FinishKeeps, BreakKeeps DEF Request!Next

\* An operation that runs is held, in storage too.
LEMMA RequestProperty == ASSUME RunningInv PROVE Request!RunningIsHeld /\ Request!TypeOK
<1>1. requestKeys \in 0..MaxRequests /\ \A k \in 1..requestKeys : k \in 1..MaxRequests
  BY SizesAssumption DEF RunningInv, RequestTypes
<1>2. Request!RunningIsHeld
  BY <1>1 DEF RunningInv, HeldInv, Request!RunningIsHeld
<1>3. Request!TypeOK
  BY <1>1 DEF RunningInv, RequestTypes, Statuses, Request!TypeOK
<1>4. QED
  BY <1>2, <1>3

-----------------------------------------------------------------------------
(* RunSubmission: which keys can make a run of a text.                       *)

Posts == [key : Nat, awaited : BOOLEAN]
TabTypes ==
    /\ texts \in 1..MaxTexts /\ draft \in 0..texts /\ storedDraft \in 0..texts
    /\ {storage, excused} \subseteq BOOLEAN
    /\ textOf \in Seq(Nat) /\ \A k \in 1..Len(textOf) : textOf[k] <= texts
    /\ {storedKey, sending, unconfirmed} \subseteq 0..Len(textOf)
    /\ accepted \subseteq 1..Len(textOf)
    /\ answer \in {"none", "accepted", "rejected", "fault"}
\* A submission that is awaited is the last one that left.
PostsInv ==
    /\ wire \in Seq(Posts) /\ \A i \in 1..Len(wire) : wire[i].key \in 1..Len(textOf)
    /\ \A i \in 1..Len(wire) : wire[i].awaited =>
          i = Len(wire) /\ wire[i].key = sending /\ sending # 0 /\ answer = "none"
    /\ sending = 0 => answer = "none"
    /\ answer \in {"accepted", "rejected"} => wire = <<>>
    /\ answer = "rejected" => sending \notin accepted
\* The keys that have made a run or still may, and that the tab knows of.
Asks(k) ==
    \/ k \in accepted \/ \E i \in 1..Len(wire) : wire[i].key = k
    \/ k # 0 /\ k \in {sending, unconfirmed}
\* What the tab saved is what it knows; one text has one key, and the text in the composer
\* only the one that the tab waits for or is not sure of.
SavedInv ==
    /\ storage => storedDraft = draft /\ storedKey = IF sending # 0 THEN sending ELSE unconfirmed
    /\ ~storage => storedDraft = 0 /\ storedKey = 0
TextsInv ==
    /\ sending # 0 => unconfirmed \in {0, sending}
    /\ \A k, l \in 1..Len(textOf) :
          Asks(k) /\ Asks(l) /\ textOf[k] = textOf[l] /\ textOf[k] # 0 => k = l
    /\ \A k \in 1..Len(textOf) :
          Asks(k) /\ textOf[k] = draft /\ draft # 0 => k \in {sending, unconfirmed}
SubmissionInv == TabTypes /\ PostsInv /\ SavedInv /\ (~excused => TextsInv)

\* Nothing is submitted at first.
LEMMA InitSubmission == (part = "Submission" /\ Submission!Init) => SubmissionInv
<1> SUFFICES ASSUME Submission!Init PROVE SubmissionInv
  OBVIOUS
<1>1. wire = <<>> /\ wire \in Seq(Posts) /\ Len(wire) = 0
  BY EmptySeq DEF Submission!Init
<1>2. textOf = <<>> /\ textOf \in Seq(Nat) /\ Len(textOf) = 0
  BY EmptySeq DEF Submission!Init
<1>3. TabTypes /\ SavedInv
  <2>1. texts \in 1..MaxTexts /\ draft \in 0..texts /\ storedDraft \in 0..texts
    BY SizesAssumption DEF Submission!Init
  <2>2. {storage, excused} \subseteq BOOLEAN
    BY Zenon DEF Submission!Init
  <2>3. \A k \in 1..Len(textOf) : textOf[k] <= texts
    BY <1>2
  <2>4. storedKey = 0 /\ sending = 0 /\ unconfirmed = 0 /\ accepted = {} /\ answer = "none"
    BY DEF Submission!Init
  <2>5. {storedKey, sending, unconfirmed} \subseteq 0..Len(textOf) /\ accepted \subseteq 1..Len(textOf)
    BY <1>2, <2>4
  <2>6. TabTypes
    BY <1>2, <2>1, <2>2, <2>3, <2>4, <2>5 DEF TabTypes
  <2>7. SavedInv
    BY DEF Submission!Init, SavedInv
  <2>8. QED
    BY <2>6, <2>7
<1>4. PostsInv
  BY <1>1 DEF Submission!Init, PostsInv
<1>5. TextsInv
  BY <1>2 DEF Submission!Init, TextsInv
<1>6. QED
  BY <1>3, <1>4, <1>5 DEF SubmissionInv

\* A submission that leaves is the last one on its way.
LEMMA PostWire ==
    ASSUME SubmissionInv, NEW key, key \in Nat, Submission!Post(key), sending = 0
    PROVE  /\ sending' = key /\ storedKey' = IF storage THEN key ELSE 0
           /\ wire' \in Seq(Posts) /\ Len(wire) \in Nat /\ Len(wire') = Len(wire) + 1
           /\ \A i \in 1..Len(wire') :
                \/ i \in 1..Len(wire) /\ wire'[i] = wire[i] /\ ~wire[i].awaited
                \/ i = Len(wire') /\ wire'[i].key = key
           /\ answer = "none"
<1> DEFINE new == [key |-> key, awaited |-> TRUE]
<1>1. new \in Posts /\ new.key = key
  BY DEF Posts
<1>2. wire' = Append(wire, new) /\ wire \in Seq(Posts)
  BY DEF Submission!Post, SubmissionInv, PostsInv
<1> HIDE DEF new
<1>3. /\ wire' \in Seq(Posts) /\ Len(wire') = Len(wire) + 1 /\ Len(wire) \in Nat
      /\ \A i \in 1..Len(wire) : wire'[i] = wire[i]
      /\ wire'[Len(wire) + 1] = new
  BY <1>1, <1>2, AppendProperties, LenProperties
<1>4. \A i \in 1..Len(wire) : ~wire[i].awaited
  BY DEF SubmissionInv, PostsInv
<1>5. \A i \in 1..Len(wire') : i \in 1..Len(wire) \/ i = Len(wire')
  BY <1>3
<1>6. QED
  BY <1>1, <1>3, <1>4, <1>5 DEF Submission!Post, Submission!Persisted, SubmissionInv, PostsInv

\* A new key: of the text in the composer, or of no text for a retry.
LEMMA NewKeyKeeps ==
    ASSUME SubmissionInv, NEW text \in {0, draft}, Submission!NewKey(text), sending = 0,
           UNCHANGED <<draft, texts, storage, storedDraft, unconfirmed, answer, accepted>>,
           excused' \in BOOLEAN, ~excused' => ~excused /\ unconfirmed = 0
    PROVE  SubmissionInv'
<1> DEFINE n == Len(textOf) + 1
<1>1. /\ textOf' = Append(textOf, text) /\ Submission!Post(n)
      /\ textOf \in Seq(Nat) /\ text \in Nat /\ text <= texts /\ texts \in Nat
      /\ Len(textOf) \in Nat /\ n \in Nat /\ n # 0
  BY LenProperties, SizesAssumption DEF Submission!NewKey, SubmissionInv, TabTypes
<1>2. /\ textOf' \in Seq(Nat) /\ Len(textOf') = n
      /\ \A k \in 1..Len(textOf) : textOf'[k] = textOf[k]
      /\ textOf'[n] = text
  BY <1>1, AppendProperties
<1>3. /\ sending' = n /\ storedKey' = IF storage THEN n ELSE 0
      /\ wire' \in Seq(Posts) /\ Len(wire) \in Nat /\ Len(wire') = Len(wire) + 1
      /\ \A i \in 1..Len(wire') :
           \/ i \in 1..Len(wire) /\ wire'[i] = wire[i] /\ ~wire[i].awaited
           \/ i = Len(wire') /\ wire'[i].key = n
      /\ answer = "none"
  BY <1>1, PostWire
<1> HIDE DEF n
<1>4. n = Len(textOf) + 1
  BY DEF n
<1>5. \A k \in 1..n : k \in 1..Len(textOf) \/ k = n
  BY <1>1, <1>4
<1>6. TabTypes'
  <2>1. \A k \in 1..Len(textOf') : textOf'[k] <= texts'
    BY <1>1, <1>2, <1>5 DEF SubmissionInv, TabTypes
  <2>2. {storedKey', sending', unconfirmed'} \subseteq 0..n /\ accepted' \subseteq 1..n
    BY <1>1, <1>3, <1>4 DEF SubmissionInv, TabTypes
  <2>3. QED
    BY <1>2, <1>3, <2>1, <2>2 DEF SubmissionInv, TabTypes
<1>7. PostsInv'
  <2>1. \A i \in 1..Len(wire') : wire'[i].key \in 1..n
    BY <1>1, <1>3, <1>4 DEF SubmissionInv, PostsInv
  <2>2. QED
    BY <1>1, <1>2, <1>3, <2>1 DEF SubmissionInv, PostsInv
<1>8. SavedInv'
  BY <1>1, <1>3 DEF SubmissionInv, SavedInv
<1>9. ASSUME ~excused' PROVE TextsInv'
  <2>1. TextsInv /\ unconfirmed = 0
    BY <1>9 DEF SubmissionInv
  <2>2. ASSUME NEW k \in 1..n, Asks(k)'
        PROVE  k = n \/ (k \in 1..Len(textOf) /\ Asks(k))
    BY <1>3, <1>5, <2>1, <2>2 DEF Asks
  <2>3. ASSUME NEW k \in 1..Len(textOf), Asks(k) PROVE textOf[k] # text \/ text = 0
    <3>1. k \notin {sending, unconfirmed}
      BY <2>1
    <3>2. QED
      BY <2>1, <2>3, <3>1 DEF TextsInv
  <2>4. \A k, l \in 1..n :
          Asks(k)' /\ Asks(l)' /\ textOf'[k] = textOf'[l] /\ textOf'[k] # 0 => k = l
    BY <1>2, <2>1, <2>2, <2>3 DEF TextsInv
  <2>5. \A k \in 1..n : Asks(k)' /\ textOf'[k] = draft' /\ draft' # 0 => k \in {sending', unconfirmed'}
    BY <1>2, <1>3, <2>1, <2>2 DEF TextsInv
  <2>6. QED
    BY <1>2, <2>1, <2>4, <2>5 DEF TextsInv
<1>10. QED
  BY <1>6, <1>7, <1>8, <1>9 DEF SubmissionInv

LEMMA SendKeeps ==
    ASSUME SubmissionInv, Submission!Send \/ Submission!AutoStart \/ Submission!Retry
    PROVE  SubmissionInv'
<1>1. excused \in BOOLEAN
  BY DEF SubmissionInv, TabTypes
<1>2. CASE Submission!Send \/ Submission!AutoStart
  BY <1>1, <1>2, NewKeyKeeps
     DEF Submission!Send, Submission!AutoStart, Submission!SubmissionBlocked, Submission!form
<1>3. CASE Submission!Retry
  BY <1>1, <1>3, NewKeyKeeps DEF Submission!Retry, Submission!form
<1>4. QED
  BY <1>2, <1>3

\* A text is typed: no key has it yet.
LEMMA EditKeeps == ASSUME SubmissionInv, Submission!Edit PROVE SubmissionInv'
<1>1. /\ texts' = texts + 1 /\ draft' = texts + 1 /\ texts < MaxTexts
      /\ storedDraft' = IF storage THEN texts + 1 ELSE 0
      /\ UNCHANGED <<storage, storedKey, sending, unconfirmed, textOf, wire, answer, accepted, excused>>
  BY DEF Submission!Edit, Submission!SaveDraft
<1>2. /\ texts \in 1..MaxTexts /\ textOf \in Seq(Nat)
      /\ \A k \in 1..Len(textOf) : textOf[k] \in Nat /\ textOf[k] <= texts
  BY ElementOfSeq DEF SubmissionInv, TabTypes
<1>3. TabTypes'
  BY <1>1, <1>2, SizesAssumption DEF SubmissionInv, TabTypes
<1>4. PostsInv' /\ SavedInv'
  BY <1>1 DEF SubmissionInv, PostsInv, SavedInv
<1>5. ASSUME ~excused' PROVE TextsInv'
  <2>1. TextsInv
    BY <1>1, <1>5 DEF SubmissionInv
  <2>2. \A k \in 1..Len(textOf) : textOf[k] # draft'
    BY <1>1, <1>2, SizesAssumption
  <2>3. \A k : Asks(k)' <=> Asks(k)
    BY <1>1 DEF Asks
  <2>4. QED
    BY <1>1, <2>1, <2>2, <2>3 DEF TextsInv
<1>6. QED
  BY <1>3, <1>4, <1>5 DEF SubmissionInv

\* The key whose outcome is not known is sent again.
LEMMA SendAgainKeeps == ASSUME SubmissionInv, Submission!Confirm PROVE SubmissionInv'
<1>1. /\ unconfirmed # 0 /\ sending = 0 /\ Submission!Post(unconfirmed)
      /\ UNCHANGED <<draft, texts, storage, storedDraft, unconfirmed, textOf, answer, accepted, excused>>
  BY DEF Submission!Confirm, Submission!form
<1>2. unconfirmed \in 1..Len(textOf) /\ unconfirmed \in Nat /\ Len(textOf) \in Nat
  BY <1>1, LenProperties DEF SubmissionInv, TabTypes
<1>3. /\ sending' = unconfirmed /\ storedKey' = IF storage THEN unconfirmed ELSE 0
      /\ wire' \in Seq(Posts) /\ Len(wire) \in Nat /\ Len(wire') = Len(wire) + 1
      /\ \A i \in 1..Len(wire') :
           \/ i \in 1..Len(wire) /\ wire'[i] = wire[i] /\ ~wire[i].awaited
           \/ i = Len(wire') /\ wire'[i].key = unconfirmed
      /\ answer = "none"
  BY <1>1, <1>2, PostWire
<1>4. TabTypes'
  BY <1>1, <1>2, <1>3 DEF SubmissionInv, TabTypes
<1>5. PostsInv'
  BY <1>1, <1>2, <1>3 DEF SubmissionInv, PostsInv
<1>6. SavedInv'
  BY <1>1, <1>3 DEF SubmissionInv, SavedInv
<1>7. ASSUME ~excused' PROVE TextsInv'
  <2>1. TextsInv
    BY <1>1, <1>7 DEF SubmissionInv
  <2>2. ASSUME NEW k, Asks(k)' PROVE Asks(k)
    BY <1>1, <1>3, <2>2 DEF Asks
  <2>3. QED
    BY <1>1, <1>3, <2>1, <2>2 DEF TextsInv
<1>8. QED
  BY <1>4, <1>5, <1>6, <1>7 DEF SubmissionInv

\* The server takes the next submission in.
LEMMA ServerKeeps == ASSUME SubmissionInv, Submission!Serve PROVE SubmissionInv'
<1> DEFINE m == Head(wire)
<1>1. /\ wire # <<>> /\ wire' = Tail(wire) /\ wire \in Seq(Posts)
      /\ UNCHANGED <<draft, texts, storage, storedDraft, storedKey, sending, unconfirmed, textOf, excused>>
  BY DEF Submission!Serve, Submission!form, SubmissionInv, PostsInv
<1>2. /\ m = wire[1] /\ m \in Posts /\ wire' \in Seq(Posts)
      /\ Len(wire) \in Nat \ {0} /\ Len(wire') = Len(wire) - 1
      /\ \A i \in 1..Len(wire') : wire'[i] = wire[i + 1]
  BY <1>1, HeadTailProperties, EmptySeq
<1>3. PICK said \in {"accepted", "rejected", "fault"} :
        /\ m.key \in accepted => said # "rejected"
        /\ accepted' = IF said = "accepted" THEN accepted \union {m.key} ELSE accepted
        /\ answer' = IF m.awaited THEN said ELSE answer
  BY DEF Submission!Serve
<1> HIDE DEF m
<1>4. /\ m.key \in 1..Len(textOf)
      /\ m.awaited => Len(wire) = 1 /\ m.key = sending /\ sending # 0
      /\ answer \notin {"accepted", "rejected"}
  <2>1. 1 \in 1..Len(wire)
    BY <1>2
  <2>2. QED
    BY <1>1, <1>2, <2>1 DEF SubmissionInv, PostsInv
<1>5. \A i \in 1..Len(wire') : i + 1 \in 1..Len(wire) /\ wire'[i] = wire[i + 1]
  BY <1>2
<1>6. TabTypes'
  BY <1>1, <1>3, <1>4 DEF SubmissionInv, TabTypes
<1>7. PostsInv'
  <2>1. \A i \in 1..Len(wire') : wire'[i].key \in 1..Len(textOf')
    BY <1>1, <1>5 DEF SubmissionInv, PostsInv
  <2>2. ASSUME NEW i \in 1..Len(wire'), wire'[i].awaited
        PROVE  i = Len(wire') /\ wire'[i].key = sending' /\ sending' # 0 /\ answer' = "none"
    <3>1. i + 1 \in 1..Len(wire) /\ wire[i + 1].awaited /\ wire'[i] = wire[i + 1]
      BY <1>5, <2>2
    <3>2. i + 1 = Len(wire) /\ wire[i + 1].key = sending /\ sending # 0 /\ answer = "none"
      BY <3>1 DEF SubmissionInv, PostsInv
    <3>3. ~m.awaited
      BY <1>2, <1>4, <3>1
    <3>4. answer' = answer
      BY <1>3, <3>3
    <3>5. i \in Nat /\ i = Len(wire')
      BY <1>2, <3>2
    <3>6. QED
      BY <1>1, <3>1, <3>2, <3>4, <3>5
  <2>3. sending' = 0 => answer' = "none"
    BY <1>1, <1>3, <1>4 DEF SubmissionInv, PostsInv
  <2>4. answer' \in {"accepted", "rejected"} => wire' = <<>>
    BY <1>2, <1>3, <1>4, EmptySeq
  <2>5. answer' = "rejected" => sending' \notin accepted'
    BY <1>1, <1>3, <1>4
  <2>6. QED
    BY <1>2, <2>1, <2>2, <2>3, <2>4, <2>5 DEF PostsInv
<1>8. SavedInv'
  BY <1>1 DEF SubmissionInv, SavedInv
<1>9. ASSUME ~excused' PROVE TextsInv'
  <2>1. TextsInv
    BY <1>1, <1>9 DEF SubmissionInv
  <2>2. Asks(m.key)
    <3>1. 1 \in 1..Len(wire) /\ wire[1].key = m.key
      BY <1>2
    <3>2. QED
      BY <3>1 DEF Asks
  <2>3. ASSUME NEW k, Asks(k)' PROVE Asks(k)
    <3>1. CASE k \in accepted'
      BY <1>3, <2>2, <3>1 DEF Asks
    <3>2. CASE \E i \in 1..Len(wire') : wire'[i].key = k
      BY <1>5, <3>2 DEF Asks
    <3>3. QED
      BY <1>1, <2>3, <3>1, <3>2 DEF Asks
  <2>4. QED
    BY <1>1, <2>1, <2>3 DEF TextsInv
<1>10. QED
  BY <1>6, <1>7, <1>8, <1>9 DEF SubmissionInv

\* What is still on its way when nobody waits for it any more.
LEMMA SilentPosts ==
    ASSUME wire \in Seq(Posts)
    PROVE  /\ Silent(wire) \in Seq(Posts) /\ Len(Silent(wire)) = Len(wire) /\ Len(wire) \in Nat
           /\ \A i \in 1..Len(wire) : Silent(wire)[i].key = wire[i].key /\ ~Silent(wire)[i].awaited
<1>1. ASSUME NEW r \in Posts
      PROVE  LET q == [r EXCEPT !.awaited = FALSE]
             IN  q \in Posts /\ q.key = r.key /\ ~q.awaited
  BY DEF Posts
<1>2. \A i \in 1..Len(wire) : wire[i] \in Posts
  BY ElementOfSeq
<1>3. /\ Silent(wire) \in Seq(Posts) /\ Len(Silent(wire)) = Len(wire) /\ Len(wire) \in Nat
      /\ \A i \in 1..Len(wire) : Silent(wire)[i] = [wire[i] EXCEPT !.awaited = FALSE]
  BY <1>1, SilentWire, LenProperties
<1>4. QED
  BY <1>1, <1>2, <1>3
LEMMA QuietPosts ==
    ASSUME SubmissionInv,
           \/ wire' = Submission!Unawaited
           \/ wire # <<>> /\ wire[Len(wire)].awaited /\ wire' = SubSeq(wire, 1, Len(wire) - 1)
    PROVE  /\ wire' \in Seq(Posts)
           /\ \A i \in 1..Len(wire') :
                i \in 1..Len(wire) /\ wire'[i].key = wire[i].key /\ ~wire'[i].awaited
<1>1. /\ wire \in Seq(Posts) /\ Len(wire) \in Nat
      /\ \A i \in 1..Len(wire) : wire[i].awaited => i = Len(wire)
  BY LenProperties DEF SubmissionInv, PostsInv
<1>2. CASE wire' = Submission!Unawaited
  <2>1. wire' = Silent(wire)
    BY <1>2 DEF Submission!Unawaited, Silent
  <2>2. QED
    BY <1>1, <2>1, SilentPosts
<1>3. CASE wire # <<>> /\ wire' = SubSeq(wire, 1, Len(wire) - 1)
  <2>1. /\ wire' \in Seq(Posts) /\ Len(wire') = Len(wire) - 1
        /\ \A i \in 1..Len(wire) - 1 : wire'[i] = wire[i]
    BY <1>1, <1>3, FrontOf
  <2>2. \A i \in 1..Len(wire') : i \in 1..Len(wire) /\ i # Len(wire) /\ i \in 1..Len(wire) - 1
    BY <1>1, <2>1
  <2>3. QED
    BY <1>1, <2>1, <2>2
<1>4. QED
  BY <1>2, <1>3

\* The connection breaks, the session ends, or the page is loaded again.
LEMMA LossKeeps ==
    ASSUME SubmissionInv, Submission!Break \/ Submission!SessionEnds \/ Submission!Reload
    PROVE  SubmissionInv'
<1>1. /\ wire' \in Seq(Posts)
      /\ \A i \in 1..Len(wire') :
           i \in 1..Len(wire) /\ wire'[i].key = wire[i].key /\ ~wire'[i].awaited
  BY QuietPosts DEF Submission!Break, Submission!SessionEnds, Submission!Reload
<1>2. UNCHANGED <<texts, storage, storedDraft, textOf, accepted>>
  BY DEF Submission!Break, Submission!SessionEnds, Submission!Reload, Submission!form
<1>3. \A i \in 1..Len(wire') : wire'[i].key \in 1..Len(textOf')
  BY <1>1, <1>2 DEF SubmissionInv, PostsInv
<1>4. ASSUME NEW k, Asks(k)', k # 0 => k \notin {sending', unconfirmed'} PROVE Asks(k)
  BY <1>1, <1>2, <1>4 DEF Asks
<1>5. CASE Submission!Break
  <2>1. /\ sending # 0 /\ answer' = "fault"
        /\ UNCHANGED <<draft, storedKey, sending, unconfirmed, excused>>
    BY <1>5 DEF Submission!Break, Submission!form
  <2>2. TabTypes' /\ PostsInv' /\ SavedInv'
    BY <1>1, <1>2, <1>3, <2>1 DEF SubmissionInv, TabTypes, PostsInv, SavedInv
  <2>3. ASSUME ~excused' PROVE TextsInv'
    <3>1. TextsInv /\ \A k : Asks(k)' => Asks(k)
      BY <1>4, <2>1, <2>3 DEF SubmissionInv, Asks
    <3>2. QED
      BY <1>2, <2>1, <3>1 DEF TextsInv
  <2>4. QED
    BY <2>2, <2>3 DEF SubmissionInv
<1>6. CASE Submission!SessionEnds
  <2>1. /\ sending' = 0 /\ answer' = "none" /\ storedKey' = 0 /\ unconfirmed' = 0 /\ excused' = TRUE
        /\ draft' = draft
    BY <1>6 DEF Submission!SessionEnds, Submission!Answered, Submission!form
  <2>2. Len(textOf) \in Nat
    BY LenProperties DEF SubmissionInv, TabTypes
  <2>3. TabTypes' /\ PostsInv' /\ SavedInv'
    BY <1>1, <1>2, <1>3, <2>1, <2>2 DEF SubmissionInv, TabTypes, PostsInv, SavedInv
  <2>4. QED
    BY <2>1, <2>3 DEF SubmissionInv
<1>7. CASE Submission!Reload
  <2>1. /\ draft' = storedDraft /\ unconfirmed' = storedKey /\ sending' = 0 /\ answer' = "none"
        /\ UNCHANGED <<storedKey, excused>>
    BY <1>7 DEF Submission!Reload
  <2>2. Len(textOf) \in Nat
    BY LenProperties DEF SubmissionInv, TabTypes
  <2>3. TabTypes' /\ PostsInv' /\ SavedInv'
    <3>1. TabTypes'
      BY <1>2, <2>1, <2>2 DEF SubmissionInv, TabTypes
    <3>2. PostsInv'
      BY <1>1, <1>3, <2>1 DEF PostsInv
    <3>3. IF storage THEN storedDraft = draft' /\ storedKey = unconfirmed'
          ELSE storedDraft = 0 /\ storedKey = 0
      BY <2>1 DEF SubmissionInv, SavedInv, TabTypes
    <3>4. SavedInv'
      BY <1>2, <2>1, <3>3 DEF SavedInv
    <3>5. QED
      BY <3>1, <3>2, <3>4
  <2>4. ASSUME ~excused' PROVE TextsInv'
    <3>1. TextsInv
      BY <2>1, <2>4 DEF SubmissionInv
    <3>2. storedKey # 0 => storedKey \in {sending, unconfirmed}
      BY DEF SubmissionInv, SavedInv, TabTypes
    <3>3. \A k : Asks(k)' => Asks(k)
      BY <1>4, <2>1, <3>2 DEF Asks
    <3>4. draft' # 0 => draft' = draft /\ storage
      BY <2>1 DEF SubmissionInv, SavedInv, TabTypes
    <3>5. ASSUME NEW k \in 1..Len(textOf), Asks(k)', textOf[k] = draft', draft' # 0
          PROVE  k = storedKey
      <4>1. k \in {sending, unconfirmed} /\ k # 0 /\ storage
        BY <2>2, <3>1, <3>3, <3>4, <3>5 DEF TextsInv
      <4>2. QED
        BY <3>1, <4>1 DEF TextsInv, SubmissionInv, SavedInv
    <3>6. QED
      BY <1>2, <2>1, <3>1, <3>3, <3>5 DEF TextsInv
  <2>5. QED
    BY <2>3, <2>4 DEF SubmissionInv
<1>8. QED
  BY <1>5, <1>6, <1>7

\* The answer to a submission is taken in: the key is done with, or is not sure.
LEMMA TakenKeeps ==
    ASSUME SubmissionInv,
           Submission!OnAccepted \/ Submission!OnRejected \/ Submission!OnUncertain
    PROVE  SubmissionInv'
<1>1. /\ answer # "none" /\ sending # 0 /\ sending' = 0 /\ answer' = "none"
      /\ sending \in 1..Len(textOf) /\ Len(textOf) \in Nat
      /\ UNCHANGED <<texts, storage, textOf, wire, accepted, excused>>
  <2>1. /\ answer # "none" /\ sending' = 0 /\ answer' = "none"
        /\ UNCHANGED <<texts, storage, textOf, wire, accepted, excused>>
    BY DEF Submission!OnAccepted, Submission!OnRejected, Submission!OnUncertain,
           Submission!Answered, Submission!form
  <2>2. sending # 0 /\ sending \in 0..Len(textOf) /\ Len(textOf) \in Nat
    BY <2>1, LenProperties DEF SubmissionInv, PostsInv, TabTypes
  <2>3. QED
    BY <2>1, <2>2
<1>2. PostsInv'
  <2>1. \A i \in 1..Len(wire) : ~wire[i].awaited
    BY <1>1 DEF SubmissionInv, PostsInv
  <2>2. QED
    BY <1>1, <2>1 DEF SubmissionInv, PostsInv
<1>3. ASSUME NEW k, Asks(k)' PROVE Asks(k) \/ k = unconfirmed'
  BY <1>1, <1>3 DEF Asks
<1>4. CASE Submission!OnAccepted
  <2>1. /\ storedKey' = 0 /\ unconfirmed' = 0
        /\ \/ draft = textOf[sending] /\ draft' = 0 /\ storedDraft' = 0
           \/ draft # textOf[sending] /\ UNCHANGED <<draft, storedDraft>>
    BY <1>4 DEF Submission!OnAccepted, Submission!SaveDraft
  <2>2. TabTypes'
    <3>1. /\ draft' \in 0..texts' /\ storedDraft' \in 0..texts'
      BY <1>1, <2>1, SizesAssumption DEF SubmissionInv, TabTypes
    <3>2. {storedKey', sending', unconfirmed'} \subseteq 0..Len(textOf')
      BY <1>1, <2>1
    <3>3. answer' \in {"none", "accepted", "rejected", "fault"}
      BY <1>1
    <3>4. QED
      BY <1>1, <3>1, <3>2, <3>3 DEF SubmissionInv, TabTypes
  <2>3. SavedInv'
    BY <1>1, <2>1 DEF SubmissionInv, SavedInv
  <2>4. ASSUME ~excused' PROVE TextsInv'
    <3>1. TextsInv /\ unconfirmed \in {0, sending}
      BY <1>1, <2>4 DEF SubmissionInv, TextsInv
    <3>2. \A k \in 1..Len(textOf) : Asks(k)' => Asks(k)
      BY <1>3, <2>1
    <3>3. ASSUME NEW k \in 1..Len(textOf), Asks(k), textOf[k] = draft', draft' # 0 PROVE FALSE
      <4>1. draft' = draft /\ draft # textOf[sending]
        BY <2>1, <3>3
      <4>2. k = sending
        BY <3>1, <3>3, <4>1 DEF TextsInv
      <4>3. QED
        BY <3>3, <4>1, <4>2
    <3>4. QED
      BY <1>1, <3>1, <3>2, <3>3 DEF TextsInv
  <2>5. QED
    BY <1>2, <2>2, <2>3, <2>4 DEF SubmissionInv
<1>5. CASE Submission!OnRejected
  <2>1. /\ storedKey' = 0 /\ unconfirmed' = 0 /\ UNCHANGED <<draft, storedDraft>>
        /\ answer = "rejected"
    BY <1>5 DEF Submission!OnRejected, Submission!form
  <2>2. sending \notin accepted /\ wire = <<>>
    BY <2>1 DEF SubmissionInv, PostsInv
  <2>3. TabTypes' /\ SavedInv'
    BY <1>1, <2>1 DEF SubmissionInv, TabTypes, SavedInv
  <2>4. ASSUME ~excused' PROVE TextsInv'
    <3>1. TextsInv /\ unconfirmed \in {0, sending}
      BY <1>1, <2>4 DEF SubmissionInv, TextsInv
    <3>2. ASSUME NEW k \in 1..Len(textOf), Asks(k)' PROVE Asks(k) /\ k \notin {sending, unconfirmed}
      <4>1. wire' = <<>> /\ Len(wire') = 0
        BY <1>1, <2>2, EmptySeq
      <4>2. k \in accepted'
        BY <1>1, <2>1, <3>2, <4>1 DEF Asks
      <4>3. QED
        BY <1>1, <2>2, <3>1, <4>2 DEF Asks
    <3>3. QED
      BY <1>1, <2>1, <3>1, <3>2 DEF TextsInv
  <2>5. QED
    BY <1>2, <2>3, <2>4 DEF SubmissionInv
<1>6. CASE Submission!OnUncertain
  <2>1. unconfirmed' = sending /\ UNCHANGED <<draft, storedDraft, storedKey>>
    BY <1>6 DEF Submission!OnUncertain, Submission!form
  <2>2. TabTypes' /\ SavedInv'
    BY <1>1, <2>1 DEF SubmissionInv, TabTypes, SavedInv
  <2>3. ASSUME ~excused' PROVE TextsInv'
    <3>1. TextsInv /\ unconfirmed \in {0, sending}
      BY <1>1, <2>3 DEF SubmissionInv, TextsInv
    <3>2. \A k \in 1..Len(textOf) : Asks(k)' => Asks(k)
      BY <1>1, <1>3, <2>1 DEF Asks
    <3>3. QED
      BY <1>1, <2>1, <3>1, <3>2 DEF TextsInv
  <2>4. QED
    BY <1>2, <2>2, <2>3 DEF SubmissionInv
<1>7. QED
  BY <1>4, <1>5, <1>6

\* Every step of a submission keeps the invariant.
LEMMA NextSubmission == ASSUME SubmissionInv, Submission!Next PROVE SubmissionInv'
BY EditKeeps, SendKeeps, SendAgainKeeps, ServerKeeps, LossKeeps, TakenKeeps
   DEF Submission!Next

\* One text makes at most one run, and the tab's variables have their types.
LEMMA SubmissionProperty ==
    ASSUME SubmissionInv PROVE Submission!OneRunPerText /\ Submission!TypeOK
<1>1. /\ Len(textOf) \in Nat /\ accepted \subseteq 1..Len(textOf) /\ texts \in Nat
      /\ wire \in Seq(Posts) /\ \A i \in 1..Len(wire) : wire[i].key \in 1..Len(textOf)
  BY LenProperties, SizesAssumption DEF SubmissionInv, TabTypes, PostsInv
<1>2. Submission!OneRunPerText
  <2> SUFFICES ASSUME ~excused, NEW t \in 1..texts
               PROVE  Submission!Cardinality({k \in accepted : textOf[k] = t}) <= 1
    BY DEF Submission!OneRunPerText
  <2> DEFINE S == {k \in accepted : textOf[k] = t}
  <2>1. \A k, l \in S : k = l
    <3>1. \A k \in S : k \in 1..Len(textOf) /\ Asks(k) /\ textOf[k] = t /\ t # 0
      BY <1>1 DEF Asks
    <3>2. QED
      BY <3>1 DEF SubmissionInv, TextsInv
  <2>2. S = {} \/ \E k \in S : S = {k}
    BY <2>1
  <2>3. Submission!Cardinality(S) = Cardinality(S)
    BY Zenon DEF Submission!Cardinality, Cardinality
  <2> HIDE DEF S
  <2>4. Cardinality(S) = 0 \/ Cardinality(S) = 1
    BY <2>2, FS_EmptySet, FS_Singleton
  <2>5. Cardinality(S) <= 1
    BY <2>4
  <2>6. QED
    BY <2>3, <2>5 DEF S
<1>3. Submission!TypeOK
  <2>1. DOMAIN wire = 1..Len(wire)
    BY <1>1, LenProperties
  <2>2. QED
    BY <1>1, <2>1 DEF SubmissionInv, TabTypes, Submission!TypeOK, Submission!Keys
<1>4. QED
  BY <1>2, <1>3

-----------------------------------------------------------------------------
(* What was asked for once, in the component of the behaviour.               *)

AskedInv ==
    /\ part = "Submission" => SubmissionInv
    /\ part = "Request" => RunningInv
    /\ part = "Import" => ImportInv
    /\ part = "Data" => DataInv

\* A behaviour starts with one component's initial state.
LEMMA InitAsked == Init => AskedInv
BY InitSubmission, InitRequest, InitImport, InitData DEF Init, AskedInv

\* A component of another behaviour stays as it is.
LEMMA SubmissionSame == UNCHANGED SubmissionVars /\ SubmissionInv => SubmissionInv'
BY DEF SubmissionVars, SubmissionInv, TabTypes, PostsInv, SavedInv, TextsInv, Asks
LEMMA RequestSame == UNCHANGED RequestVars /\ RunningInv => RunningInv'
<1> SUFFICES ASSUME UNCHANGED RequestVars, RunningInv PROVE RunningInv'
  OBVIOUS
<1>1. RequestTypes'
  BY DEF RequestVars, RunningInv, RequestTypes, Request!Submissions, Request!Nothing
<1>2. MailInv'
  BY DEF RequestVars, RunningInv, MailInv, Request!Nothing
<1>3. requestKept' => HeldInv'
  BY DEF RequestVars, RunningInv, HeldInv, Request!Nothing
<1>4. QED
  BY <1>1, <1>2, <1>3 DEF RunningInv
LEMMA ImportSame == UNCHANGED ImportVars /\ ImportInv => ImportInv'
BY DEF ImportVars, ImportInv, KeysInv, WholeInv, ImportTypes, StepsInv, StatesInv
LEMMA DataSame == UNCHANGED DataVars /\ DataInv => DataInv'
BY DEF DataVars, DataInv, Stored, Told, PagesInv

\* A step is one of the behaviour's component.
LEMMA NextAsked == ASSUME AskedInv, [Next]_vars PROVE AskedInv'
<1>1. CASE Next
  BY <1>1, NextSubmission, NextRequest, NextImport, NextData DEF Next, AskedInv
<1>2. CASE UNCHANGED vars
  BY <1>2, SubmissionSame, RequestSame, ImportSame, DataSame DEF vars, AskedInv
<1>3. QED
  BY <1>1, <1>2

\* A text makes one run, a rollback that runs is held, an import makes one project and a
\* visitor's answer is kept once and as it was given, whatever is lost, repeated, reloaded
\* or answered late.
THEOREM AskedOnceHolds == Spec => []AskedOnce
<1>1. AskedInv => AskedOnce
  BY SubmissionProperty, RequestProperty, ImportProperty, DataProperty DEF AskedInv, AskedOnce
<1>2. AskedInv /\ [Next]_vars => AskedInv'
  BY NextAsked
<1>3. QED
  BY <1>1, <1>2, InitAsked, PTL DEF Spec

\* What a template's project says it was made from is what was stored of it, and the
\* variables of an import, a submission and a rollback request have their types.
THEOREM RequestTypesHold ==
    Spec => [](/\ part = "Import" => Import!ImportTypeOK /\ Import!ImportIsWhole
               /\ part = "Submission" => Submission!TypeOK
               /\ part = "Request" => Request!TypeOK)
<1>1. AskedInv => /\ part = "Import" => Import!ImportTypeOK /\ Import!ImportIsWhole
                  /\ part = "Submission" => Submission!TypeOK
                  /\ part = "Request" => Request!TypeOK
  BY SubmissionProperty, RequestProperty, ImportProperty DEF AskedInv
<1>2. AskedInv /\ [Next]_vars => AskedInv'
  BY NextAsked
<1>3. QED
  BY <1>1, <1>2, InitAsked, PTL DEF Spec

-----------------------------------------------------------------------------
(* Sums over finite sets; the folds of the components are such sums.         *)

\* Numbers that are there have a least one.
LEMMA LeastOf ==
    ASSUME NEW T, T \subseteq Nat, T # {}
    PROVE  \E x \in T : \A y \in T : x <= y
<1> DEFINE less == {p \in Nat \X Nat : p[1] < p[2]}
<1>1. IsWellFoundedOn(less, Nat)
  BY NatLessThanWellFounded DEF OpToRel
<1>2. PICK x \in T : \A y \in T : ~(<<y, x>> \in less)
  <2> HIDE DEF less
  <2> QED
    BY <1>1, WFMin
<1>3. ASSUME NEW y \in T PROVE x <= y
  <2>1. <<y, x>> \in Nat \X Nat /\ ~(<<y, x>> \in less)
    BY <1>2
  <2>2. QED
    BY <2>1
<1>4. QED
  BY <1>3

-----------------------------------------------------------------------------
(* Sums.  A fold takes the elements of a set in the order of CHOOSE; the     *)
(* table of its recursion is there, and is the same whatever that order is.  *)

Any(T) == CHOOSE x \in T : TRUE
SumTable(f, S, g) ==
    /\ g \in [SUBSET S -> Nat] /\ g[{}] = 0
    /\ \A T \in SUBSET S : T # {} => g[T] = g[T \ {Any(T)}] + f[Any(T)]
Sum(f, S) == (CHOOSE g : SumTable(f, S, g))[S]

\* The table is right up to sets of n elements.
SumUpTo(f, S, g, n) ==
    /\ g \in [SUBSET S -> Nat] /\ g[{}] = 0
    /\ \A T \in SUBSET S : T # {} /\ Cardinality(T) <= n => g[T] = g[T \ {Any(T)}] + f[Any(T)]

\* Taking one out of a finite set.
LEMMA Smaller ==
    ASSUME NEW S, IsFiniteSet(S), NEW T \in SUBSET S, NEW x \in T
    PROVE  /\ T \ {x} \in SUBSET S /\ Cardinality(T) \in Nat /\ Cardinality(T) # 0
           /\ Cardinality(T \ {x}) = Cardinality(T) - 1
<1>1. IsFiniteSet(T)
  BY FS_Subset
<1>2. Cardinality(T) \in Nat
  BY <1>1, FS_CardinalityType
<1>3. Cardinality(T \ {x}) = Cardinality(T) - 1
  BY <1>1, FS_RemoveElement
<1>4. IsFiniteSet(T \ {x}) /\ Cardinality(T \ {x}) \in Nat
  BY <1>1, FS_RemoveElement, FS_CardinalityType
<1>5. QED
  BY <1>2, <1>3, <1>4

\* Something of a set that is not empty.
LEMMA AnyOf == ASSUME NEW T, T # {} PROVE Any(T) \in T
BY DEF Any

\* A table that is right up to n can be continued.
LEMMA SumStep ==
    ASSUME NEW S, IsFiniteSet(S), NEW f, \A x \in S : f[x] \in Nat, NEW n \in Nat,
           NEW g, SumUpTo(f, S, g, n)
    PROVE  \E h : SumUpTo(f, S, h, n + 1)
<1> DEFINE h == [T \in SUBSET S |-> IF T = {} \/ Cardinality(T) <= n THEN g[T]
                                    ELSE g[T \ {Any(T)}] + f[Any(T)]]
<1>1. ASSUME NEW T \in SUBSET S, T # {}
      PROVE  /\ Any(T) \in T /\ T \ {Any(T)} \in SUBSET S /\ f[Any(T)] \in Nat
             /\ Cardinality(T) \in Nat /\ Cardinality(T) # 0
             /\ Cardinality(T \ {Any(T)}) = Cardinality(T) - 1
  <2>1. Any(T) \in T
    BY <1>1, AnyOf
  <2>2. QED
    BY <2>1, Smaller
<1>2. h \in [SUBSET S -> Nat] /\ h[{}] = 0
  <2>1. ASSUME NEW T \in SUBSET S PROVE h[T] \in Nat
    <3>1. CASE T = {} \/ Cardinality(T) <= n
      BY <3>1 DEF SumUpTo
    <3>2. CASE T # {} /\ ~(Cardinality(T) <= n)
      <4>1. f[Any(T)] \in Nat /\ g[T \ {Any(T)}] \in Nat
        BY <1>1, <3>2 DEF SumUpTo
      <4>2. QED
        BY <3>2, <4>1
    <3>3. QED
      BY <3>1, <3>2
  <2>2. h[{}] = 0
    BY DEF SumUpTo
  <2>3. QED
    BY <2>1, <2>2
<1>3. ASSUME NEW T \in SUBSET S, T # {}, Cardinality(T) <= n + 1
      PROVE  h[T] = h[T \ {Any(T)}] + f[Any(T)]
  <2> DEFINE r == T \ {Any(T)}
  <2>1. /\ r \in SUBSET S /\ Cardinality(T) \in Nat /\ Cardinality(r) = Cardinality(T) - 1
    BY <1>1, <1>3
  <2>2. Cardinality(r) <= n
    BY <1>3, <2>1
  <2>3. h[r] = g[r]
    BY <2>1, <2>2
  <2>4. h[T] = g[r] + f[Any(T)]
    <3>1. CASE Cardinality(T) <= n
      BY <1>3, <3>1 DEF SumUpTo
    <3>2. CASE ~(Cardinality(T) <= n)
      BY <1>3, <3>2
    <3>3. QED
      BY <3>1, <3>2
  <2>5. QED
    BY <2>3, <2>4
<1> HIDE DEF h
<1>4. SumUpTo(f, S, h, n + 1)
  BY <1>2, <1>3 DEF SumUpTo
<1>5. QED
  BY <1>4

\* There is a table of the sums over the subsets.
LEMMA SumExists ==
    ASSUME NEW S, IsFiniteSet(S), NEW f, \A x \in S : f[x] \in Nat
    PROVE  \E g : SumTable(f, S, g)
<1> DEFINE missing == {n \in Nat : ~\E g : SumUpTo(f, S, g, n)}
<1>1. \E g : SumUpTo(f, S, g, 0)
  <2> DEFINE g == [T \in SUBSET S |-> 0]
  <2>1. \A T \in SUBSET S : T # {} => ~(Cardinality(T) <= 0)
    <3>1. ASSUME NEW T \in SUBSET S, T # {} PROVE ~(Cardinality(T) <= 0)
      <4>1. Cardinality(T) \in Nat /\ Cardinality(T) # 0
        BY <3>1, Smaller
      <4>2. QED
        BY <4>1
    <3>2. QED
      BY <3>1
  <2>2. g \in [SUBSET S -> Nat] /\ g[{}] = 0
    OBVIOUS
  <2> HIDE DEF g
  <2>3. QED
    BY <2>1, <2>2 DEF SumUpTo
<1>2. missing = {}
  <2>1. ASSUME missing # {} PROVE FALSE
    <3>1. PICK n \in missing : \A m \in missing : n <= m
      <4>1. missing \subseteq Nat
        OBVIOUS
      <4> HIDE DEF missing
      <4>2. QED
        BY <2>1, <4>1, LeastOf
    <3>2. n \in Nat /\ n # 0 /\ ~\E g : SumUpTo(f, S, g, n)
      BY <1>1
    <3>3. n - 1 \in Nat /\ n - 1 \notin missing /\ (n - 1) + 1 = n
      BY <3>1, <3>2
    <3>4. PICK g : SumUpTo(f, S, g, n - 1)
      BY <3>3
    <3>5. \E h : SumUpTo(f, S, h, (n - 1) + 1)
      BY <3>3, <3>4, SumStep
    <3>6. QED
      BY <3>2, <3>3, <3>5
  <2>2. QED
    BY <2>1
<1>3. Cardinality(S) \in Nat
  BY FS_CardinalityType
<1>4. PICK g : SumUpTo(f, S, g, Cardinality(S))
  BY <1>2, <1>3
<1>5. \A T \in SUBSET S : Cardinality(T) <= Cardinality(S)
  BY FS_Subset
<1>6. SumTable(f, S, g)
  BY <1>4, <1>5 DEF SumUpTo, SumTable
<1>7. QED
  BY <1>6

\* In whatever order: each of the elements may be the first one taken.
LEMMA TableRemove ==
    ASSUME NEW S, IsFiniteSet(S), NEW f, \A x \in S : f[x] \in Nat, NEW g, SumTable(f, S, g)
    PROVE  \A T \in SUBSET S : \A x \in T : g[T] = g[T \ {x}] + f[x]
<1> DEFINE Bad(n) == \E T \in SUBSET S : Cardinality(T) = n /\ \E x \in T : g[T] # g[T \ {x}] + f[x]
<1> DEFINE bad == {n \in Nat : Bad(n)}
<1>1. ASSUME bad # {} PROVE FALSE
  <2>1. PICK n \in bad : \A m \in bad : n <= m
    <3>1. bad \subseteq Nat
      OBVIOUS
    <3> HIDE DEF bad
    <3>2. QED
      BY <1>1, <3>1, LeastOf
  <2>2. PICK T \in SUBSET S : Cardinality(T) = n /\ \E x \in T : g[T] # g[T \ {x}] + f[x]
    OBVIOUS
  <2>3. PICK x \in T : g[T] # g[T \ {x}] + f[x]
    BY <2>2
  <2>4. PICK y \in T : g[T] = g[T \ {y}] + f[y]
    <3>1. Any(T) \in T
      BY <2>3, AnyOf
    <3>2. QED
      BY <3>1 DEF SumTable
  <2>5. x # y
    BY <2>3, <2>4
  <2>6. n \in Nat /\ n # 0 /\ n - 1 \in Nat /\ ~Bad(n - 1)
    <3>1. n \in Nat /\ n # 0
      BY <2>2, <2>3, Smaller
    <3>2. n - 1 \in Nat /\ ~(n <= n - 1)
      BY <3>1
    <3>3. n - 1 \notin bad
      BY <2>1, <3>2
    <3>4. QED
      BY <3>1, <3>2, <3>3
  <2>7. /\ T \ {y} \in SUBSET S /\ Cardinality(T \ {y}) = n - 1 /\ x \in T \ {y}
        /\ T \ {x} \in SUBSET S /\ Cardinality(T \ {x}) = n - 1 /\ y \in T \ {x}
    BY <2>2, <2>3, <2>4, <2>5, Smaller
  <2>8. g[T \ {y}] = g[(T \ {y}) \ {x}] + f[x]
    BY <2>6, <2>7
  <2>9. g[T \ {x}] = g[(T \ {x}) \ {y}] + f[y]
    BY <2>6, <2>7
  <2>10. (T \ {x}) \ {y} = (T \ {y}) \ {x}
    OBVIOUS
  <2>11. f[x] \in Nat /\ f[y] \in Nat /\ g[(T \ {y}) \ {x}] \in Nat
    <3>1. (T \ {y}) \ {x} \in SUBSET S
      BY <2>2
    <3>2. QED
      BY <2>2, <2>3, <2>4, <3>1 DEF SumTable
  <2> DEFINE a == g[(T \ {y}) \ {x}]
             b == g[T \ {y}]
             c == g[T \ {x}]
             d == g[T]
  <2>12. a \in Nat /\ b = a + f[x] /\ c = a + f[y] /\ d = b + f[y] /\ d # c + f[x]
    BY <2>3, <2>4, <2>8, <2>9, <2>10, <2>11
  <2> HIDE DEF a, b, c, d
  <2>13. QED
    BY <2>11, <2>12
<1>2. \A T \in SUBSET S : Cardinality(T) \in Nat
  BY FS_Subset, FS_CardinalityType
<1>3. QED
  BY <1>1, <1>2

\* What is at most as large, element by element, adds up to at most as much.
LEMMA TableMono ==
    ASSUME NEW S, IsFiniteSet(S), NEW R, IsFiniteSet(R),
           NEW f, \A x \in S : f[x] \in Nat, NEW g, SumTable(f, S, g),
           NEW u, \A x \in R : u[x] \in Nat, NEW h, SumTable(u, R, h)
    PROVE  \A T \in SUBSET (S \cap R) : (\A x \in T : f[x] <= u[x]) => g[T] <= h[T]
<1> DEFINE Bad(n) == \E T \in SUBSET (S \cap R) :
                        Cardinality(T) = n /\ (\A x \in T : f[x] <= u[x]) /\ ~(g[T] <= h[T])
<1> DEFINE bad == {n \in Nat : Bad(n)}
<1>1. ASSUME bad # {} PROVE FALSE
  <2>1. PICK n \in bad : \A m \in bad : n <= m
    <3>1. bad \subseteq Nat
      OBVIOUS
    <3> HIDE DEF bad
    <3>2. QED
      BY <1>1, <3>1, LeastOf
  <2>2. PICK T \in SUBSET (S \cap R) :
           Cardinality(T) = n /\ (\A x \in T : f[x] <= u[x]) /\ ~(g[T] <= h[T])
    OBVIOUS
  <2>3. T # {}
    <3>1. g[{}] = 0 /\ h[{}] = 0 /\ 0 <= 0
      BY DEF SumTable
    <3>2. QED
      BY <2>2, <3>1
  <2>4. PICK y \in T : TRUE
    BY <2>3
  <2>5. T \in SUBSET S /\ T \in SUBSET R
    OBVIOUS
  <2>6. n \in Nat /\ n # 0 /\ T \ {y} \in SUBSET (S \cap R) /\ Cardinality(T \ {y}) = n - 1
    BY <2>2, <2>5, Smaller
  <2>7. ~Bad(n - 1)
    <3>1. n - 1 \in Nat /\ ~(n <= n - 1)
      BY <2>6
    <3>2. n - 1 \notin bad
      BY <2>1, <3>1
    <3>3. QED
      BY <3>1, <3>2
  <2>8. g[T \ {y}] <= h[T \ {y}]
    BY <2>2, <2>6, <2>7
  <2>9. g[T] = g[T \ {y}] + f[y] /\ h[T] = h[T \ {y}] + u[y]
    BY <2>5, TableRemove
  <2>10. f[y] \in Nat /\ u[y] \in Nat /\ f[y] <= u[y] /\ g[T \ {y}] \in Nat /\ h[T \ {y}] \in Nat
    BY <2>2, <2>5 DEF SumTable
  <2> DEFINE a == g[T \ {y}]
             b == h[T \ {y}]
  <2>11. a \in Nat /\ b \in Nat /\ a <= b /\ ~(a + f[y] <= b + u[y])
    BY <2>2, <2>8, <2>9, <2>10
  <2> HIDE DEF a, b
  <2>12. QED
    BY <2>10, <2>11
<1>2. \A T \in SUBSET (S \cap R) : Cardinality(T) \in Nat
  <2>1. \A T \in SUBSET (S \cap R) : T \in SUBSET S
    OBVIOUS
  <2>2. QED
    BY <2>1, FS_Subset, FS_CardinalityType
<1>3. QED
  BY <1>1, <1>2

\* The sum is what any table says.
LEMMA SumOf ==
    ASSUME NEW S, IsFiniteSet(S), NEW f, \A x \in S : f[x] \in Nat
    PROVE  /\ Sum(f, S) \in Nat
           /\ \A R, u, h : /\ IsFiniteSet(R) /\ S \subseteq R /\ SumTable(u, R, h)
                           /\ \A x \in R : u[x] \in Nat
                           /\ \A x \in S : f[x] = u[x]
                           => Sum(f, S) = h[S]
<1> DEFINE g == CHOOSE t : SumTable(f, S, t)
<1>1. SumTable(f, S, g)
  BY SumExists
<1>2. Sum(f, S) = g[S]
  BY DEF Sum
<1> HIDE DEF g
<1>3. g[S] \in Nat
  BY <1>1 DEF SumTable
<1>4. ASSUME NEW R, NEW u, NEW h, IsFiniteSet(R), S \subseteq R, SumTable(u, R, h),
             \A x \in R : u[x] \in Nat, \A x \in S : f[x] = u[x]
      PROVE  g[S] = h[S]
  <2>1. S \in SUBSET (S \cap R) /\ S \in SUBSET (R \cap S) /\ S \in SUBSET R
    BY <1>4
  <2>2. (\A x \in S : f[x] <= u[x]) /\ \A x \in S : u[x] <= f[x]
    <3>1. ASSUME NEW x \in S PROVE f[x] <= u[x] /\ u[x] <= f[x]
      <4>1. f[x] \in Nat /\ f[x] = u[x]
        BY <1>4
      <4>2. QED
        BY <4>1
    <3>2. QED
      BY <3>1
  <2>3. g[S] <= h[S]
    BY <1>1, <1>4, <2>1, <2>2, TableMono
  <2>4. h[S] <= g[S]
    BY <1>1, <1>4, <2>1, <2>2, TableMono
  <2>5. h[S] \in Nat
    BY <1>4, <2>1 DEF SumTable
  <2>6. QED
    BY <1>3, <2>3, <2>4, <2>5
<1>5. QED
  BY <1>2, <1>3, <1>4

\* What a sum is without an element, without one of them, of equal, of smaller and of no
\* numbers.
LEMMA SumEmpty == ASSUME NEW f PROVE Sum(f, {}) = 0
<1>1. IsFiniteSet({})
  BY FS_EmptySet
<1>2. PICK g : SumTable(f, {}, g)
  BY <1>1, SumExists
<1>3. Sum(f, {}) = g[{}]
  BY <1>1, <1>2, SumOf
<1>4. QED
  BY <1>2, <1>3 DEF SumTable
LEMMA SumRemove ==
    ASSUME NEW S, IsFiniteSet(S), NEW f, \A x \in S : f[x] \in Nat, NEW x \in S
    PROVE  Sum(f, S) = Sum(f, S \ {x}) + f[x] /\ IsFiniteSet(S \ {x})
<1>1. PICK g : SumTable(f, S, g)
  BY SumExists
<1>2. Sum(f, S) = g[S]
  BY <1>1, SumOf
<1>3. IsFiniteSet(S \ {x}) /\ S \ {x} \subseteq S /\ \A y \in S \ {x} : f[y] \in Nat
  BY FS_RemoveElement
<1>4. Sum(f, S \ {x}) = g[S \ {x}]
  BY <1>1, <1>3, SumOf
<1>5. g[S] = g[S \ {x}] + f[x]
  BY <1>1, TableRemove
<1>6. QED
  BY <1>2, <1>3, <1>4, <1>5
LEMMA SumSame ==
    ASSUME NEW S, IsFiniteSet(S), NEW f, \A x \in S : f[x] \in Nat,
           NEW u, \A x \in S : u[x] = f[x]
    PROVE  Sum(u, S) = Sum(f, S)
<1>1. PICK g : SumTable(f, S, g)
  BY SumExists
<1>2. \A x \in S : u[x] \in Nat
  OBVIOUS
<1>3. QED
  BY <1>1, <1>2, SumOf
LEMMA SumMono ==
    ASSUME NEW S, IsFiniteSet(S), NEW f, \A x \in S : f[x] \in Nat,
           NEW u, \A x \in S : u[x] \in Nat /\ f[x] <= u[x]
    PROVE  Sum(f, S) <= Sum(u, S)
<1>1. PICK g : SumTable(f, S, g)
  BY SumExists
<1>2. PICK h : SumTable(u, S, h)
  BY SumExists
<1>3. Sum(f, S) = g[S] /\ Sum(u, S) = h[S]
  BY <1>1, <1>2, SumOf
<1>4. S \in SUBSET (S \cap S)
  OBVIOUS
<1>5. g[S] <= h[S]
  BY <1>1, <1>2, <1>4, TableMono
<1>6. QED
  BY <1>3, <1>5
LEMMA SumZero == ASSUME NEW S, IsFiniteSet(S), NEW f, \A x \in S : f[x] = 0 PROVE Sum(f, S) = 0
<1> DEFINE g == [T \in SUBSET S |-> 0]
<1>1. g \in [SUBSET S -> Nat] /\ g[{}] = 0
  OBVIOUS
<1>2. ASSUME NEW T \in SUBSET S, T # {} PROVE g[T] = g[T \ {Any(T)}] + f[Any(T)]
  <2>1. Any(T) \in S /\ T \ {Any(T)} \in SUBSET S
    BY <1>2, AnyOf
  <2>2. g[T] = 0 /\ g[T \ {Any(T)}] = 0 /\ f[Any(T)] = 0
    BY <2>1
  <2>3. QED
    BY <2>2
<1>3. g[S] = 0
  OBVIOUS
<1> HIDE DEF g
<1>4. SumTable(f, S, g)
  BY <1>1, <1>2 DEF SumTable
<1>5. S \subseteq S /\ \A x \in S : f[x] \in Nat
  OBVIOUS
<1>6. QED
  BY <1>3, <1>4, <1>5, SumOf
\* A change of one element changes the sum by as much.
LEMMA SumChange ==
    ASSUME NEW S, IsFiniteSet(S), NEW f, \A x \in S : f[x] \in Nat, NEW s \in S,
           NEW u, \A x \in S : u[x] \in Nat, \A x \in S \ {s} : u[x] = f[x]
    PROVE  Sum(u, S) + f[s] = Sum(f, S) + u[s]
<1>1. IsFiniteSet(S \ {s}) /\ \A x \in S \ {s} : f[x] \in Nat
  BY FS_RemoveElement
<1>2. Sum(u, S \ {s}) = Sum(f, S \ {s}) /\ Sum(f, S \ {s}) \in Nat
  BY <1>1, SumSame, SumOf
<1>3. Sum(u, S) = Sum(u, S \ {s}) + u[s] /\ Sum(f, S) = Sum(f, S \ {s}) + f[s]
  BY SumRemove
<1>4. f[s] \in Nat /\ u[s] \in Nat
  OBVIOUS
<1>5. QED
  BY <1>2, <1>3, <1>4
\* The recursion of a fold, from whichever side it adds, has one solution: the table.
LEMMA FoldTable ==
    ASSUME NEW S, IsFiniteSet(S), NEW f, \A x \in S : f[x] \in Nat,
           NEW g, g \in [SUBSET S -> {g[T] : T \in SUBSET S}], g[{}] = 0,
           \A T \in SUBSET S : T # {} => \/ g[T] = g[T \ {Any(T)}] + f[Any(T)]
                                         \/ g[T] = f[Any(T)] + g[T \ {Any(T)}]
    PROVE  g[S] = Sum(f, S)
<1> DEFINE Bad(n) == \E T \in SUBSET S : Cardinality(T) = n /\ g[T] \notin Nat
<1> DEFINE bad == {n \in Nat : Bad(n)}
<1>1. ASSUME bad # {} PROVE FALSE
  <2>1. PICK n \in bad : \A m \in bad : n <= m
    <3>1. bad \subseteq Nat
      OBVIOUS
    <3> HIDE DEF bad
    <3>2. QED
      BY <1>1, <3>1, LeastOf
  <2>2. PICK T \in SUBSET S : Cardinality(T) = n /\ g[T] \notin Nat
    OBVIOUS
  <2>3. T # {}
    <3>1. g[{}] \in Nat
      OBVIOUS
    <3>2. QED
      BY <2>2, <3>1
  <2>4. Any(T) \in T /\ f[Any(T)] \in Nat
    BY <2>3, AnyOf
  <2>5. T \ {Any(T)} \in SUBSET S /\ n \in Nat /\ n # 0 /\ Cardinality(T \ {Any(T)}) = n - 1
    BY <2>2, <2>4, Smaller
  <2>6. n - 1 \in Nat /\ ~(n <= n - 1)
    BY <2>5
  <2>7. n - 1 \notin bad
    BY <2>1, <2>6
  <2>8. g[T \ {Any(T)}] \in Nat
    BY <2>5, <2>6, <2>7
  <2>9. g[T \ {Any(T)}] + f[Any(T)] \in Nat /\ f[Any(T)] + g[T \ {Any(T)}] \in Nat
    <3> DEFINE a == g[T \ {Any(T)}]
               b == f[Any(T)]
    <3>1. a \in Nat /\ b \in Nat
      BY <2>4, <2>8
    <3> HIDE DEF a, b
    <3>2. a + b \in Nat /\ b + a \in Nat
      BY <3>1
    <3>3. QED
      BY <3>2 DEF a, b
  <2>10. QED
    BY ONLY <2>2, <2>3, <2>9, \A R \in SUBSET S : R # {} => \/ g[R] = g[R \ {Any(R)}] + f[Any(R)]
                                                        \/ g[R] = f[Any(R)] + g[R \ {Any(R)}]
<1>2. \A T \in SUBSET S : Cardinality(T) \in Nat
  BY FS_Subset, FS_CardinalityType
<1>3. \A T \in SUBSET S : g[T] \in Nat
  BY <1>1, <1>2
<1>4. g \in [SUBSET S -> Nat]
  BY <1>3
<1>5. ASSUME NEW T \in SUBSET S, T # {} PROVE g[T] = g[T \ {Any(T)}] + f[Any(T)]
  <2>1. Any(T) \in T /\ T \ {Any(T)} \in SUBSET S
    BY <1>5, AnyOf
  <2>2. g[T \ {Any(T)}] \in Nat /\ f[Any(T)] \in Nat
    BY <1>3, <2>1
  <2>3. g[T \ {Any(T)}] + f[Any(T)] = f[Any(T)] + g[T \ {Any(T)}]
    <3> DEFINE a == g[T \ {Any(T)}]
               b == f[Any(T)]
    <3>1. a \in Nat /\ b \in Nat
      BY <2>2
    <3> HIDE DEF a, b
    <3>2. a + b = b + a
      BY <3>1
    <3>3. QED
      BY <3>2 DEF a, b
  <2>4. QED
    BY <1>5, <2>3
<1>6. SumTable(f, S, g)
  BY <1>4, <1>5 DEF SumTable
<1>7. QED
  BY <1>6, SumOf

\* A fold of the community modules, whichever order it takes, is the sum.
LEMMA FoldIsSum ==
    ASSUME NEW S, IsFiniteSet(S), NEW f, \A x \in S : f[x] \in Nat
    PROVE  /\ \E g : g = [T \in SUBSET S |-> IF T = {} THEN 0 ELSE g[T \ {Any(T)}] + f[Any(T)]]
           /\ \A g : g = [T \in SUBSET S |-> IF T = {} THEN 0 ELSE g[T \ {Any(T)}] + f[Any(T)]]
                     => g[S] = Sum(f, S)
<1> DEFINE Fold(g) == g = [T \in SUBSET S |-> IF T = {} THEN 0 ELSE g[T \ {Any(T)}] + f[Any(T)]]
<1>1. \E g : Fold(g)
  <2>1. PICK g : SumTable(f, S, g)
    BY SumExists
  <2>2. Fold(g)
    BY <2>1 DEF SumTable
  <2>3. QED
    BY <2>2
<1>2. ASSUME NEW g, Fold(g) PROVE g[S] = Sum(f, S)
  <2>1. g[{}] = 0 /\ g \in [SUBSET S -> {g[T] : T \in SUBSET S}]
    <3>1. g[{}] = 0
      BY <1>2
    <3>2. DOMAIN g = SUBSET S /\ g = [T \in DOMAIN g |-> g[T]]
      BY <1>2
    <3> HIDE DEF Fold
    <3>3. QED
      BY <3>1, <3>2
  <2>2. ASSUME NEW T \in SUBSET S, T # {} PROVE g[T] = g[T \ {Any(T)}] + f[Any(T)]
    BY <1>2, <2>2
  <2> HIDE DEF Fold
  <2>3. QED
    BY <2>1, <2>2, FoldTable
<1>3. QED
  BY <1>1, <1>2
LEMMA FoldIsSumToo ==
    ASSUME NEW S, IsFiniteSet(S), NEW f, \A x \in S : f[x] \in Nat
    PROVE  /\ \E g : g = [T \in SUBSET S |-> IF T = {} THEN 0 ELSE f[Any(T)] + g[T \ {Any(T)}]]
           /\ \A g : g = [T \in SUBSET S |-> IF T = {} THEN 0 ELSE f[Any(T)] + g[T \ {Any(T)}]]
                     => g[S] = Sum(f, S)
<1> DEFINE Fold(g) == g = [T \in SUBSET S |-> IF T = {} THEN 0 ELSE f[Any(T)] + g[T \ {Any(T)}]]
<1>1. \E g : Fold(g)
  <2>1. PICK g : SumTable(f, S, g)
    BY SumExists
  <2>2. ASSUME NEW T \in SUBSET S, T # {}
        PROVE g[T \ {Any(T)}] + f[Any(T)] = f[Any(T)] + g[T \ {Any(T)}]
    <3>1. Any(T) \in T /\ T \ {Any(T)} \in SUBSET S
      BY <2>2, AnyOf
    <3>2. g[T \ {Any(T)}] \in Nat /\ f[Any(T)] \in Nat
      BY <2>1, <3>1 DEF SumTable
    <3>3. QED
      BY <3>2
  <2>3. Fold(g)
    BY <2>1, <2>2 DEF SumTable
  <2>4. QED
    BY <2>3
<1>2. ASSUME NEW g, Fold(g) PROVE g[S] = Sum(f, S)
  <2>1. g[{}] = 0 /\ g \in [SUBSET S -> {g[T] : T \in SUBSET S}]
    <3>1. g[{}] = 0
      BY <1>2
    <3>2. DOMAIN g = SUBSET S /\ g = [T \in DOMAIN g |-> g[T]]
      BY <1>2
    <3> HIDE DEF Fold
    <3>3. QED
      BY <3>1, <3>2
  <2>2. ASSUME NEW T \in SUBSET S, T # {} PROVE g[T] = f[Any(T)] + g[T \ {Any(T)}]
    BY <1>2, <2>2
  <2> HIDE DEF Fold
  <2>3. QED
    BY <2>1, <2>2, FoldTable
<1>3. QED
  BY <1>1, <1>2

\* The components' folds are sums.
LEMMA TokensSum ==
    ASSUME NEW S, IsFiniteSet(S), NEW f, \A x \in S : f[x] \in Nat
    PROVE  Tokens!FoldSet(LAMBDA s, sum : sum + f[s], 0, S) = Sum(f, S)
<1> DEFINE Fold(g) == g = [T \in SUBSET S |-> IF T = {} THEN 0
                            ELSE g[T \ {CHOOSE x \in T : TRUE}] + f[CHOOSE x \in T : TRUE]]
<1> DEFINE iter == CHOOSE g : Fold(g)
<1>1. (\E g : Fold(g)) /\ \A g : Fold(g) => g[S] = Sum(f, S)
  BY FoldIsSum DEF Any
<1>2. Tokens!FoldSet(LAMBDA s, sum : sum + f[s], 0, S) = iter[S]
  BY DEF Tokens!FoldSet, Tokens!MapThenFoldSet
<1> HIDE DEF Fold
<1>3. Fold(iter)
  BY <1>1
<1>4. QED
  BY <1>1, <1>2, <1>3
\* The texts of a note.
LEMMA SummarySum ==
    ASSUME NEW S, IsFiniteSet(S), NEW f, \A x \in S : f[x] \in Nat
    PROVE  DOMAIN f = S => Summary!FoldFunction(Summary!Plus, 0, f) = Sum(f, S)
<1> DEFINE Fold(g) == g = [T \in SUBSET S |-> IF T = {} THEN 0
                            ELSE f[CHOOSE x \in T : TRUE] + g[T \ {CHOOSE x \in T : TRUE}]]
<1> DEFINE iter == CHOOSE g : Fold(g)
<1>1. DOMAIN f = S => Summary!FoldFunction(Summary!Plus, 0, f) = iter[S]
  BY DEF Summary!FoldFunction, Summary!FoldFunctionOnSet, Summary!MapThenFoldSet, Summary!Plus
<1>2. (\E g : Fold(g)) /\ \A g : Fold(g) => g[S] = Sum(f, S)
  BY FoldIsSumToo DEF Any
<1> HIDE DEF Fold
<1>3. Fold(iter)
  BY <1>2
<1>4. QED
  BY <1>1, <1>2, <1>3
LEMMA CapacitySum ==
    ASSUME NEW S, IsFiniteSet(S), NEW f, \A x \in S : f[x] \in Nat
    PROVE  DOMAIN f = S => Capacity!Total(f) = Sum(f, S)
<1> DEFINE Fold(g) == g = [T \in SUBSET S |-> IF T = {} THEN 0
                            ELSE f[CHOOSE x \in T : TRUE] + g[T \ {CHOOSE x \in T : TRUE}]]
<1> DEFINE iter == CHOOSE g : Fold(g)
<1>1. DOMAIN f = S => Capacity!Total(f) = iter[S]
  BY DEF Capacity!Total, Capacity!FoldFunction, Capacity!FoldFunctionOnSet, Capacity!MapThenFoldSet
<1>2. (\E g : Fold(g)) /\ \A g : Fold(g) => g[S] = Sum(f, S)
  BY FoldIsSumToo DEF Any
<1> HIDE DEF Fold
<1>3. Fold(iter)
  BY <1>2
<1>4. QED
  BY <1>1, <1>2, <1>3

-----------------------------------------------------------------------------
(* RemoteBrowser: a check's browser that is confirmed closed.                *)

BrowserWork == [kind : {"open", "observe", "act", "program"},
                step : {"check", "command", "look", "ready", "run", "end"}]
BrowserTypes ==
    /\ stopped \in BOOLEAN /\ shut \in BOOLEAN /\ begun \in BOOLEAN /\ operating \in BOOLEAN
    /\ aborted \in BOOLEAN /\ inFlight \in BOOLEAN /\ stray \in BOOLEAN /\ browserChrome \in BOOLEAN
    /\ browserView \in {"none", "fresh"} /\ ops \in 0..BrowserOps
    /\ command \in {"none", "running"} /\ work \in BrowserWork \union {None}
    /\ closer \in [BrowserClosers -> {"idle", "called", "late", "closing", "ack", "lateAck",
                                      "confirmed", "unconfirmed"}]
\* A command runs for the operation that waits for it, and not before the first was sent.
FlightInv ==
    /\ inFlight <=> command = "running"
    /\ inFlight => work # None /\ work.step \in {"check", "command", "look", "run"}
    /\ ~begun => ~inFlight /\ ~stray /\ ~browserChrome
\* Nothing starts once a close was asked for; a close that found nothing in flight has
\* nothing come after it, and only such a one is confirmed.
ClosedInv ==
    /\ \A c \in BrowserClosers :
          /\ closer[c] \in {"late", "lateAck"} => stopped
          /\ closer[c] \in {"closing", "ack"} => stopped /\ begun /\ ~inFlight
          /\ closer[c] = "ack" => stray \/ ~browserChrome
    /\ (\/ shut
        \/ \E c \in BrowserClosers : closer[c] = "confirmed")
          => stopped /\ ~inFlight /\ (stray \/ ~browserChrome)
BrowserInv == BrowserTypes /\ FlightInv /\ ClosedInv

\* No browser is begun at first.
LEMMA InitBrowser == Browser!Init => BrowserInv
<1> SUFFICES ASSUME Browser!Init PROVE BrowserInv
  OBVIOUS
<1>1. BrowserTypes
  <2>1. ops \in 0..BrowserOps
    BY BrowserAssumption DEF Browser!Init
  <2>2. closer \in [BrowserClosers -> {"idle", "called", "late", "closing", "ack", "lateAck",
                                       "confirmed", "unconfirmed"}]
    BY DEF Browser!Init
  <2>3. work \in BrowserWork \union {None}
    BY DEF Browser!Init
  <2>4. QED
    BY <2>1, <2>2, <2>3 DEF Browser!Init, BrowserTypes
<1>2. FlightInv /\ ClosedInv
  BY DEF Browser!Init, FlightInv, ClosedInv
<1>3. QED
  BY <1>1, <1>2 DEF BrowserInv

\* The types.
LEMMA BrowserTypesKept == ASSUME BrowserInv, Browser!Next PROVE BrowserTypes'
<1> USE DEF BrowserInv, BrowserTypes
<1>1. ASSUME NEW new \in Browser!Kinds, Browser!Begin(new) PROVE BrowserTypes'
  BY <1>1, BrowserAssumption DEF Browser!Begin, Browser!Kinds, Browser!First, BrowserWork
<1>2. CASE Browser!Send
  BY <1>2 DEF Browser!Send
<1>3. CASE Browser!SendProgram
  <2>1. work' \in BrowserWork
    BY <1>3 DEF Browser!SendProgram, BrowserWork
  <2>2. QED
    BY <1>3, <2>1 DEF Browser!SendProgram
<1>4. CASE Browser!RemoteEffect
  BY <1>4 DEF Browser!RemoteEffect, Browser!flags
<1>5. CASE Browser!Answer
  <2>1. work' \in BrowserWork \union {None}
    BY <1>5 DEF Browser!Answer, Browser!Follow, BrowserWork, FlightInv
  <2>2. QED
    BY <1>5, <2>1 DEF Browser!Answer, Browser!flags
<1>6. CASE Browser!Fail
  BY <1>6 DEF Browser!Fail
<1>7. CASE Browser!Interrupt
  BY <1>7 DEF Browser!Interrupt, Browser!flags
<1>8. CASE Browser!Finish
  BY <1>8 DEF Browser!Finish
<1>9. CASE Browser!GiveUp
  BY <1>9 DEF Browser!GiveUp
<1>10. CASE Browser!Abort
  BY <1>10 DEF Browser!Abort
<1>11. ASSUME NEW c \in BrowserClosers, Browser!Timeout(c) PROVE BrowserTypes'
  BY <1>11 DEF Browser!Timeout
<1>12. ASSUME NEW c \in BrowserClosers, Browser!Close(c) PROVE BrowserTypes'
  <2>1. \E at \in {"confirmed", "late", "closing"} : closer' = [closer EXCEPT ![c] = at]
    BY <1>12 DEF Browser!Close
  <2>2. QED
    BY <1>12, <2>1 DEF Browser!Close
<1>13. ASSUME NEW c \in BrowserClosers, Browser!RemoteClose(c) PROVE BrowserTypes'
  <2>1. \E at \in {"ack", "lateAck"} : closer' = [closer EXCEPT ![c] = at]
    BY <1>13 DEF Browser!RemoteClose
  <2>2. UNCHANGED <<stopped, shut, begun, operating, aborted, work, inFlight, browserView,
                    command, stray, ops>> /\ browserChrome' = FALSE
    BY <1>13 DEF Browser!RemoteClose, Browser!flags
  <2>3. QED
    BY <2>1, <2>2
<1>14. ASSUME NEW c \in BrowserClosers, Browser!Closed(c) PROVE BrowserTypes'
  BY <1>14 DEF Browser!Closed
<1>15. ASSUME NEW c \in BrowserClosers, Browser!CloseFails(c) PROVE BrowserTypes'
  BY <1>15 DEF Browser!CloseFails, Browser!flags
<1>16. QED
  BY <1>1, <1>2, <1>3, <1>4, <1>5, <1>6, <1>7, <1>8, <1>9, <1>10, <1>11, <1>12, <1>13, <1>14, <1>15
     DEF Browser!Next

\* One command at a time, and none before the first.
LEMMA FlightKept == ASSUME BrowserInv, Browser!Next PROVE FlightInv'
<1> USE DEF BrowserInv, FlightInv
<1>1. ASSUME NEW new \in Browser!Kinds, Browser!Begin(new) PROVE FlightInv'
  BY <1>1 DEF Browser!Begin
<1>2. CASE Browser!Send
  BY <1>2 DEF Browser!Send, Browser!Starts
<1>3. CASE Browser!SendProgram
  <2>1. work' \in BrowserWork /\ work'.step = "run"
    BY <1>3 DEF Browser!SendProgram, BrowserWork, BrowserTypes
  <2>2. work' # None
    BY <2>1, NoWorkAssumption DEF BrowserWork
  <2>3. QED
    BY <1>3, <2>1, <2>2 DEF Browser!SendProgram
<1>4. CASE Browser!RemoteEffect
  BY <1>4 DEF Browser!RemoteEffect, Browser!flags
<1>5. CASE Browser!Answer
  BY <1>5 DEF Browser!Answer, Browser!flags
<1>6. CASE Browser!Fail
  BY <1>6 DEF Browser!Fail
<1>7. CASE Browser!Interrupt
  BY <1>7 DEF Browser!Interrupt, Browser!flags
<1>8. CASE Browser!Finish
  BY <1>8 DEF Browser!Finish
<1>9. CASE Browser!GiveUp
  BY <1>9 DEF Browser!GiveUp
<1>10. CASE Browser!Abort
  BY <1>10 DEF Browser!Abort
<1>11. ASSUME NEW c \in BrowserClosers, Browser!Timeout(c) PROVE FlightInv'
  BY <1>11 DEF Browser!Timeout
<1>12. ASSUME NEW c \in BrowserClosers, Browser!Close(c) PROVE FlightInv'
  BY <1>12 DEF Browser!Close
<1>13. ASSUME NEW c \in BrowserClosers, Browser!RemoteClose(c) PROVE FlightInv'
  BY <1>13 DEF Browser!RemoteClose, Browser!flags
<1>14. ASSUME NEW c \in BrowserClosers, Browser!Closed(c) PROVE FlightInv'
  BY <1>14 DEF Browser!Closed
<1>15. ASSUME NEW c \in BrowserClosers, Browser!CloseFails(c) PROVE FlightInv'
  BY <1>15 DEF Browser!CloseFails, Browser!flags
<1>16. QED
  BY <1>1, <1>2, <1>3, <1>4, <1>5, <1>6, <1>7, <1>8, <1>9, <1>10, <1>11, <1>12, <1>13, <1>14, <1>15
     DEF Browser!Next

\* What a close found stays so, and what was in flight does not count as closed.
LEMMA ClosedKept == ASSUME BrowserInv, Browser!Next PROVE ClosedInv'
<1> USE DEF BrowserInv, FlightInv, ClosedInv
<1>1. ASSUME NEW new \in Browser!Kinds, Browser!Begin(new) PROVE ClosedInv'
  BY <1>1 DEF Browser!Begin
<1>2. CASE Browser!Send
  BY <1>2 DEF Browser!Send
<1>3. CASE Browser!SendProgram
  BY <1>3 DEF Browser!SendProgram
<1>4. CASE Browser!RemoteEffect
  BY <1>4 DEF Browser!RemoteEffect, Browser!flags
<1>5. CASE Browser!Answer
  BY <1>5 DEF Browser!Answer, Browser!flags
<1>6. CASE Browser!Fail
  BY <1>6 DEF Browser!Fail
<1>7. CASE Browser!Interrupt
  BY <1>7 DEF Browser!Interrupt, Browser!flags
<1>8. CASE Browser!Finish
  BY <1>8 DEF Browser!Finish
<1>9. CASE Browser!GiveUp
  BY <1>9 DEF Browser!GiveUp
<1>10. CASE Browser!Abort
  BY <1>10 DEF Browser!Abort
<1>11. ASSUME NEW c \in BrowserClosers, Browser!Timeout(c) PROVE ClosedInv'
  BY <1>11 DEF Browser!Timeout, BrowserTypes
<1>12. ASSUME NEW c \in BrowserClosers, Browser!Close(c) PROVE ClosedInv'
  BY <1>12 DEF Browser!Close, BrowserTypes
<1>13. ASSUME NEW c \in BrowserClosers, Browser!RemoteClose(c) PROVE ClosedInv'
  BY <1>13 DEF Browser!RemoteClose, Browser!flags, BrowserTypes
<1>14. ASSUME NEW c \in BrowserClosers, Browser!Closed(c) PROVE ClosedInv'
  BY <1>14 DEF Browser!Closed, BrowserTypes
<1>15. ASSUME NEW c \in BrowserClosers, Browser!CloseFails(c) PROVE ClosedInv'
  BY <1>15 DEF Browser!CloseFails, Browser!flags, BrowserTypes
<1>16. QED
  BY <1>1, <1>2, <1>3, <1>4, <1>5, <1>6, <1>7, <1>8, <1>9, <1>10, <1>11, <1>12, <1>13, <1>14, <1>15
     DEF Browser!Next

\* Every step keeps the invariant, and the property follows from it.
LEMMA NextBrowser == ASSUME BrowserInv, Browser!Next PROVE BrowserInv'
BY BrowserTypesKept, FlightKept, ClosedKept DEF BrowserInv

LEMMA BrowserProperty == BrowserInv => Browser!ConfirmedIsClosed /\ Browser!TypeOK
BY DEF BrowserInv, BrowserTypes, FlightInv, ClosedInv, Browser!ConfirmedIsClosed, Browser!TypeOK

-----------------------------------------------------------------------------
(* RemoteWorkspace: a sandbox that is gone, an output and a lease.           *)

ResourceTypes ==
    /\ making \in {"none", "creating", "failed", "recording", "renewing", "renewed", "handle",
                   "undoing", "rejected", "CLEANUP_PENDING"}
    /\ entry \in {"none", "active", "destroying", "destroyed", "cleanup_pending"}
    /\ writable \in BOOLEAN /\ workspaceCleanup \in Nat \union {None}
    /\ cloud \in {"none", "running", "gone"} /\ halted \in BOOLEAN
    /\ files \in {"none", "read", "write"}
LeaseTypes ==
    /\ leaseEnd \in Nat /\ reported \in Nat /\ wallClock \in 0..WorkspaceClock
    /\ renewing \in [end : Nat, at : {"sent", "done"}] \union {None}
ShellTypes ==
    /\ shell \in {"none", "logs", "status", "drain", "result"}
    /\ process \in {"none", "running", "exited"} /\ unread \in BOOLEAN
WorkspaceTypes == ResourceTypes /\ LeaseTypes /\ ShellTypes
\* There is a resource once the sandbox is known; a cleanup runs while it is destroyed,
\* and what is destroyed is gone for good.
ResourceInv ==
    /\ entry = "none" <=> making \in {"none", "creating", "failed"}
    /\ entry = "destroying" <=> workspaceCleanup # None
    /\ writable => entry = "active"
    /\ making = "rejected" => entry = "destroyed"
    /\ entry = "destroyed" => cloud = "gone"
\* What is read once a command exited is all of its output.
ShellInv ==
    /\ shell # "none" => making = "handle"
    /\ shell \in {"drain", "result"} => process = "exited"
    /\ shell = "result" => ~unread
\* Every deadline was measured before the request that grants it.
LeaseInv ==
    /\ making \in {"recording", "renewing"} => reported <= wallClock + LeaseTime
    /\ making \in {"renewed", "handle"} => reported <= leaseEnd /\ leaseEnd <= wallClock + LeaseTime
    /\ renewing # None =>
          /\ making = "handle" /\ renewing.end <= wallClock + LeaseTime
          /\ renewing.at = "done" => renewing.end <= leaseEnd
WorkspaceInv == WorkspaceTypes /\ ResourceInv /\ ShellInv /\ LeaseInv

\* No sandbox is made at first.
LEMMA InitWorkspace == Workspace!Init => WorkspaceInv
<1> SUFFICES ASSUME Workspace!Init PROVE WorkspaceInv
  OBVIOUS
<1>1. wallClock \in 0..WorkspaceClock
  BY LeaseAssumption DEF Workspace!Init
<1>2. WorkspaceTypes
  BY <1>1 DEF Workspace!Init, WorkspaceTypes, ResourceTypes, LeaseTypes, ShellTypes
<1>3. ResourceInv /\ ShellInv /\ LeaseInv
  BY DEF Workspace!Init, ResourceInv, ShellInv, LeaseInv
<1>4. QED
  BY <1>2, <1>3 DEF WorkspaceInv

\* A destruction that is asked for.
LEMMA DestroyTypes ==
    ASSUME WorkspaceTypes, Workspace!Destroy
    PROVE  /\ entry' \in {"none", "active", "destroying", "destroyed", "cleanup_pending"}
           /\ writable' \in BOOLEAN /\ workspaceCleanup' \in Nat \union {None}
<1>1. WorkspacePolls + 1 \in Nat
  BY LeaseAssumption
<1>2. QED
  BY <1>1 DEF WorkspaceTypes, ResourceTypes, Workspace!Destroy

\* The types.
LEMMA WorkspaceTypesKept == ASSUME WorkspaceTypes, Workspace!Next PROVE WorkspaceTypes'
<1>1. LeaseTypes'
  <2>1. CASE Workspace!Tick
    BY <2>1, LeaseAssumption DEF WorkspaceTypes, LeaseTypes, Workspace!Tick
  <2>2. CASE Workspace!Create
    BY <2>2, LeaseAssumption DEF WorkspaceTypes, LeaseTypes, Workspace!Create
  <2>3. CASE Workspace!Created
    BY <2>3, LeaseAssumption DEF WorkspaceTypes, LeaseTypes, Workspace!Created
  <2>4. CASE Workspace!FirstRenewal
    BY <2>4, LeaseAssumption DEF WorkspaceTypes, LeaseTypes, Workspace!FirstRenewal
  <2>5. CASE Workspace!RenewLease
    BY <2>5, LeaseAssumption DEF WorkspaceTypes, LeaseTypes, Workspace!RenewLease
  <2>6. CASE Workspace!RemoteRenew
    BY <2>6, LeaseAssumption DEF WorkspaceTypes, LeaseTypes, Workspace!RemoteRenew
  <2>7. CASE Workspace!renewLease
    BY <2>7, LeaseAssumption DEF WorkspaceTypes, LeaseTypes, Workspace!renewLease
  <2>8. ASSUME UNCHANGED Workspace!lease PROVE LeaseTypes'
    BY <2>8 DEF WorkspaceTypes, LeaseTypes, Workspace!lease
  <2>9. CASE Workspace!Expire \/ Workspace!Halt \/ Workspace!Recorded \/ Workspace!Returned \/
         Workspace!CreateFails \/ Workspace!Undone \/ Workspace!Kill \/ Workspace!Poll \/
         Workspace!Dies \/ Workspace!Retry \/ Workspace!Exec \/ Workspace!Prints \/
         Workspace!Exits \/ Workspace!ReadLogs \/ Workspace!AskStatus \/ Workspace!DrainLogs
         \/ Workspace!ExecFails \/ Workspace!Read \/ Workspace!Write \/ Workspace!IoEnds \/
         Workspace!RevokeWriters
    <3>1. UNCHANGED Workspace!lease
      BY <2>9 DEF Workspace!Expire, Workspace!Halt, Workspace!Recorded, Workspace!Returned,
        Workspace!CreateFails, Workspace!Undone, Workspace!Kill, Workspace!Poll,
        Workspace!Dies, Workspace!Retry, Workspace!Exec, Workspace!Prints, Workspace!Exits,
        Workspace!ReadLogs, Workspace!AskStatus, Workspace!DrainLogs, Workspace!ExecFails,
        Workspace!Read, Workspace!Write, Workspace!IoEnds, Workspace!RevokeWriters,
        Workspace!Rest, Workspace!Stage, Workspace!lease
    <3>2. QED
      BY <2>8, <3>1
  <2>10. QED
    BY <2>1, <2>2, <2>3, <2>4, <2>5, <2>6, <2>7, <2>9 DEF Workspace!Next
<1>2. ShellTypes'
  <2>1. CASE Workspace!Exec
    BY <2>1 DEF WorkspaceTypes, ShellTypes, Workspace!Exec, Workspace!Run
  <2>2. CASE Workspace!Prints
    BY <2>2 DEF WorkspaceTypes, ShellTypes, Workspace!Prints, Workspace!Rest
  <2>3. CASE Workspace!Exits
    BY <2>3 DEF WorkspaceTypes, ShellTypes, Workspace!Exits, Workspace!Rest
  <2>4. CASE Workspace!ReadLogs
    BY <2>4 DEF WorkspaceTypes, ShellTypes, Workspace!ReadLogs, Workspace!Rest
  <2>5. CASE Workspace!AskStatus
    BY <2>5 DEF WorkspaceTypes, ShellTypes, Workspace!AskStatus, Workspace!Rest
  <2>6. CASE Workspace!DrainLogs
    BY <2>6 DEF WorkspaceTypes, ShellTypes, Workspace!DrainLogs, Workspace!Rest
  <2>7. CASE Workspace!ExecFails
    BY <2>7 DEF WorkspaceTypes, ShellTypes, Workspace!ExecFails
  <2>8. CASE Workspace!RevokeWriters
    BY <2>8 DEF WorkspaceTypes, ShellTypes, Workspace!RevokeWriters
  <2>9. CASE Workspace!Tick \/ Workspace!Expire \/ Workspace!Create \/ Workspace!Created \/
         Workspace!Halt \/ Workspace!Recorded \/ Workspace!FirstRenewal \/
         Workspace!Returned \/ Workspace!CreateFails \/ Workspace!Undone \/ Workspace!Kill
         \/ Workspace!Poll \/ Workspace!Dies \/ Workspace!Retry \/ Workspace!RenewLease \/
         Workspace!RemoteRenew \/ Workspace!renewLease \/ Workspace!Read \/ Workspace!Write
         \/ Workspace!IoEnds
    <3>1. UNCHANGED Workspace!running
      BY <2>9 DEF Workspace!Tick, Workspace!Expire, Workspace!Create, Workspace!Created,
        Workspace!Halt, Workspace!Recorded, Workspace!FirstRenewal, Workspace!Returned,
        Workspace!CreateFails, Workspace!Undone, Workspace!Kill, Workspace!Poll,
        Workspace!Dies, Workspace!Retry, Workspace!RenewLease, Workspace!RemoteRenew,
        Workspace!renewLease, Workspace!Read, Workspace!Write, Workspace!IoEnds,
        Workspace!Stage, Workspace!running
    <3>2. QED
      BY <3>1 DEF WorkspaceTypes, ShellTypes, Workspace!running
  <2>10. QED
    BY <2>1, <2>2, <2>3, <2>4, <2>5, <2>6, <2>7, <2>8, <2>9 DEF Workspace!Next
<1>3. ResourceTypes'
  <2>1. CASE Workspace!Tick
    BY <2>1 DEF WorkspaceTypes, ResourceTypes, Workspace!Tick
  <2>2. CASE Workspace!Expire
    BY <2>2 DEF WorkspaceTypes, ResourceTypes, Workspace!Expire
  <2>3. CASE Workspace!Create
    BY <2>3 DEF WorkspaceTypes, ResourceTypes, Workspace!Create
  <2>4. CASE Workspace!Created
    BY <2>4 DEF WorkspaceTypes, ResourceTypes, Workspace!Created
  <2>5. CASE Workspace!Halt
    <3>1. /\ entry' \in {"none", "active", "destroying", "destroyed", "cleanup_pending"}
          /\ writable' \in BOOLEAN /\ workspaceCleanup' \in Nat \union {None}
      BY <2>5, DestroyTypes DEF WorkspaceTypes, ResourceTypes, Workspace!Halt
    <3>2. QED
      BY <2>5, <3>1 DEF WorkspaceTypes, ResourceTypes, Workspace!Halt
  <2>6. CASE Workspace!Recorded
    BY <2>6 DEF WorkspaceTypes, ResourceTypes, Workspace!Recorded
  <2>7. CASE Workspace!FirstRenewal
    BY <2>7 DEF WorkspaceTypes, ResourceTypes, Workspace!FirstRenewal
  <2>8. CASE Workspace!Returned
    BY <2>8 DEF WorkspaceTypes, ResourceTypes, Workspace!Returned
  <2>9. CASE Workspace!CreateFails
    <3>1. /\ entry' \in {"none", "active", "destroying", "destroyed", "cleanup_pending"}
          /\ writable' \in BOOLEAN /\ workspaceCleanup' \in Nat \union {None}
      BY <2>9, DestroyTypes DEF WorkspaceTypes, ResourceTypes, Workspace!CreateFails
    <3>2. QED
      BY <2>9, <3>1 DEF WorkspaceTypes, ResourceTypes, Workspace!CreateFails
  <2>10. CASE Workspace!Undone
    BY <2>10 DEF WorkspaceTypes, ResourceTypes, Workspace!Undone
  <2>11. CASE Workspace!Kill
    BY <2>11, LeaseAssumption DEF WorkspaceTypes, ResourceTypes, Workspace!Kill
  <2>12. CASE Workspace!Poll
    BY <2>12, LeaseAssumption DEF WorkspaceTypes, ResourceTypes, Workspace!Poll
  <2>13. CASE Workspace!Dies
    BY <2>13 DEF WorkspaceTypes, ResourceTypes, Workspace!Dies
  <2>14. CASE Workspace!Retry
    <3>1. /\ entry' \in {"none", "active", "destroying", "destroyed", "cleanup_pending"}
          /\ writable' \in BOOLEAN /\ workspaceCleanup' \in Nat \union {None}
      BY <2>14, DestroyTypes DEF WorkspaceTypes, ResourceTypes, Workspace!Retry
    <3>2. QED
      BY <2>14, <3>1 DEF WorkspaceTypes, ResourceTypes, Workspace!Retry
  <2>15. CASE Workspace!RenewLease
    BY <2>15 DEF WorkspaceTypes, ResourceTypes, Workspace!RenewLease
  <2>16. CASE Workspace!RemoteRenew
    BY <2>16 DEF WorkspaceTypes, ResourceTypes, Workspace!RemoteRenew
  <2>17. CASE Workspace!renewLease
    BY <2>17 DEF WorkspaceTypes, ResourceTypes, Workspace!renewLease
  <2>18. CASE Workspace!Exec
    BY <2>18 DEF WorkspaceTypes, ResourceTypes, Workspace!Exec, Workspace!Run
  <2>19. CASE Workspace!Prints
    BY <2>19 DEF WorkspaceTypes, ResourceTypes, Workspace!Prints, Workspace!Rest
  <2>20. CASE Workspace!Exits
    BY <2>20 DEF WorkspaceTypes, ResourceTypes, Workspace!Exits, Workspace!Rest
  <2>21. CASE Workspace!ReadLogs
    BY <2>21 DEF WorkspaceTypes, ResourceTypes, Workspace!ReadLogs, Workspace!Rest
  <2>22. CASE Workspace!AskStatus
    BY <2>22 DEF WorkspaceTypes, ResourceTypes, Workspace!AskStatus, Workspace!Rest
  <2>23. CASE Workspace!DrainLogs
    BY <2>23 DEF WorkspaceTypes, ResourceTypes, Workspace!DrainLogs, Workspace!Rest
  <2>24. CASE Workspace!ExecFails
    <3>1. /\ entry' \in {"none", "active", "destroying", "destroyed", "cleanup_pending"}
          /\ writable' \in BOOLEAN /\ workspaceCleanup' \in Nat \union {None}
      BY <2>24, DestroyTypes DEF WorkspaceTypes, ResourceTypes, Workspace!ExecFails
    <3>2. QED
      BY <2>24, <3>1 DEF WorkspaceTypes, ResourceTypes, Workspace!ExecFails
  <2>25. CASE Workspace!Read
    BY <2>25 DEF WorkspaceTypes, ResourceTypes, Workspace!Read, Workspace!Stage
  <2>26. CASE Workspace!Write
    BY <2>26 DEF WorkspaceTypes, ResourceTypes, Workspace!Write, Workspace!Stage
  <2>27. CASE Workspace!IoEnds
    BY <2>27 DEF WorkspaceTypes, ResourceTypes, Workspace!IoEnds
  <2>28. CASE Workspace!RevokeWriters
    BY <2>28 DEF WorkspaceTypes, ResourceTypes, Workspace!RevokeWriters
  <2>29. QED
    BY <2>1, <2>2, <2>3, <2>4, <2>5, <2>6, <2>7, <2>8, <2>9, <2>10, <2>11, <2>12, <2>13,
       <2>14, <2>15, <2>16, <2>17, <2>18, <2>19, <2>20, <2>21, <2>22, <2>23, <2>24, <2>25,
       <2>26, <2>27, <2>28
       DEF Workspace!Next
<1>4. QED
  BY <1>1, <1>2, <1>3 DEF WorkspaceTypes

\* Whoever asks for a destruction, and however often.
LEMMA ResourceKept == ASSUME WorkspaceInv, Workspace!Next PROVE ResourceInv'
<1> USE LeaseAssumption, NoKeyAssumption
    DEF WorkspaceInv, WorkspaceTypes, ResourceTypes, ResourceInv, ShellInv
<1>1. CASE Workspace!Tick
  BY <1>1 DEF Workspace!Tick, Workspace!running
<1>2. CASE Workspace!Expire
  BY <1>2 DEF Workspace!Expire, Workspace!lease, Workspace!running
<1>3. CASE Workspace!Create
  BY <1>3 DEF Workspace!Create, Workspace!running
<1>4. CASE Workspace!Created
  BY <1>4 DEF Workspace!Created, Workspace!running
<1>5. CASE Workspace!Halt
  BY <1>5 DEF Workspace!Halt, Workspace!lease, Workspace!running, Workspace!Destroy
<1>6. CASE Workspace!Recorded
  BY <1>6 DEF Workspace!Recorded, Workspace!lease, Workspace!running
<1>7. CASE Workspace!FirstRenewal
  BY <1>7 DEF Workspace!FirstRenewal, Workspace!running
<1>8. CASE Workspace!Returned
  BY <1>8 DEF Workspace!Returned, Workspace!lease, Workspace!running
<1>9. CASE Workspace!CreateFails
  BY <1>9 DEF Workspace!CreateFails, Workspace!lease, Workspace!running, Workspace!Destroy
<1>10. CASE Workspace!Undone
  BY <1>10 DEF Workspace!Undone, Workspace!lease, Workspace!running
<1>11. CASE Workspace!Kill
  BY <1>11 DEF Workspace!Kill, Workspace!lease, Workspace!running
<1>12. CASE Workspace!Poll
  BY <1>12 DEF Workspace!Poll, Workspace!lease, Workspace!running
<1>13. CASE Workspace!Dies
  BY <1>13 DEF Workspace!Dies, Workspace!lease, Workspace!running
<1>14. CASE Workspace!Retry
  BY <1>14 DEF Workspace!Retry, Workspace!lease, Workspace!running, Workspace!Destroy
<1>15. CASE Workspace!RenewLease
  BY <1>15 DEF Workspace!RenewLease, Workspace!running, Workspace!InUse
<1>16. CASE Workspace!RemoteRenew
  BY <1>16 DEF Workspace!RemoteRenew, Workspace!running
<1>17. CASE Workspace!renewLease
  BY <1>17 DEF Workspace!renewLease, Workspace!running
<1>18. CASE Workspace!Exec
  BY <1>18 DEF Workspace!Exec, Workspace!lease, Workspace!Run, Workspace!InUse
<1>19. CASE Workspace!Prints
  BY <1>19 DEF Workspace!Prints, Workspace!lease, Workspace!Rest
<1>20. CASE Workspace!Exits
  BY <1>20 DEF Workspace!Exits, Workspace!lease, Workspace!Rest
<1>21. CASE Workspace!ReadLogs
  BY <1>21 DEF Workspace!ReadLogs, Workspace!lease, Workspace!Rest
<1>22. CASE Workspace!AskStatus
  BY <1>22 DEF Workspace!AskStatus, Workspace!lease, Workspace!Rest
<1>23. CASE Workspace!DrainLogs
  BY <1>23 DEF Workspace!DrainLogs, Workspace!lease, Workspace!Rest
<1>24. CASE Workspace!ExecFails
  BY <1>24 DEF Workspace!ExecFails, Workspace!lease, Workspace!Destroy
<1>25. CASE Workspace!Read
  BY <1>25 DEF Workspace!Read, Workspace!lease, Workspace!running, Workspace!Stage, Workspace!InUse
<1>26. CASE Workspace!Write
  BY <1>26 DEF Workspace!Write, Workspace!lease, Workspace!running, Workspace!Stage, Workspace!InUse
<1>27. CASE Workspace!IoEnds
  BY <1>27 DEF Workspace!IoEnds, Workspace!lease, Workspace!running
<1>28. CASE Workspace!RevokeWriters
  BY <1>28 DEF Workspace!RevokeWriters, Workspace!lease, Workspace!InUse
<1>29. QED
  BY <1>1, <1>2, <1>3, <1>4, <1>5, <1>6, <1>7, <1>8, <1>9, <1>10, <1>11, <1>12, <1>13,
     <1>14, <1>15, <1>16, <1>17, <1>18, <1>19, <1>20, <1>21, <1>22, <1>23, <1>24, <1>25, <1>26,
     <1>27, <1>28
     DEF Workspace!Next

\* However the output falls between two requests.
LEMMA OutputKept == ASSUME WorkspaceInv, Workspace!Next PROVE ShellInv'
<1> USE DEF WorkspaceInv, WorkspaceTypes, ShellTypes, ShellInv
<1>1. CASE Workspace!Tick
  BY <1>1 DEF Workspace!Tick, Workspace!running
<1>2. CASE Workspace!Expire
  BY <1>2 DEF Workspace!Expire, Workspace!lease, Workspace!running
<1>3. CASE Workspace!Create
  BY <1>3 DEF Workspace!Create, Workspace!running
<1>4. CASE Workspace!Created
  BY <1>4 DEF Workspace!Created, Workspace!running
<1>5. CASE Workspace!Halt
  BY <1>5 DEF Workspace!Halt, Workspace!lease, Workspace!running, Workspace!Destroy
<1>6. CASE Workspace!Recorded
  BY <1>6 DEF Workspace!Recorded, Workspace!lease, Workspace!running
<1>7. CASE Workspace!FirstRenewal
  BY <1>7 DEF Workspace!FirstRenewal, Workspace!running
<1>8. CASE Workspace!Returned
  BY <1>8 DEF Workspace!Returned, Workspace!lease, Workspace!running
<1>9. CASE Workspace!CreateFails
  BY <1>9 DEF Workspace!CreateFails, Workspace!lease, Workspace!running, Workspace!Destroy
<1>10. CASE Workspace!Undone
  BY <1>10 DEF Workspace!Undone, Workspace!lease, Workspace!running
<1>11. CASE Workspace!Kill
  BY <1>11 DEF Workspace!Kill, Workspace!lease, Workspace!running
<1>12. CASE Workspace!Poll
  BY <1>12 DEF Workspace!Poll, Workspace!lease, Workspace!running
<1>13. CASE Workspace!Dies
  BY <1>13 DEF Workspace!Dies, Workspace!lease, Workspace!running
<1>14. CASE Workspace!Retry
  BY <1>14 DEF Workspace!Retry, Workspace!lease, Workspace!running, Workspace!Destroy
<1>15. CASE Workspace!RenewLease
  BY <1>15 DEF Workspace!RenewLease, Workspace!running, Workspace!InUse
<1>16. CASE Workspace!RemoteRenew
  BY <1>16 DEF Workspace!RemoteRenew, Workspace!running
<1>17. CASE Workspace!renewLease
  BY <1>17 DEF Workspace!renewLease, Workspace!running
<1>18. CASE Workspace!Exec
  BY <1>18 DEF Workspace!Exec, Workspace!lease, Workspace!Run, Workspace!InUse
<1>19. CASE Workspace!Prints
  BY <1>19 DEF Workspace!Prints, Workspace!lease, Workspace!Rest
<1>20. CASE Workspace!Exits
  BY <1>20 DEF Workspace!Exits, Workspace!lease, Workspace!Rest
<1>21. CASE Workspace!ReadLogs
  BY <1>21 DEF Workspace!ReadLogs, Workspace!lease, Workspace!Rest
<1>22. CASE Workspace!AskStatus
  BY <1>22 DEF Workspace!AskStatus, Workspace!lease, Workspace!Rest
<1>23. CASE Workspace!DrainLogs
  BY <1>23 DEF Workspace!DrainLogs, Workspace!lease, Workspace!Rest
<1>24. CASE Workspace!ExecFails
  BY <1>24 DEF Workspace!ExecFails, Workspace!lease, Workspace!Destroy
<1>25. CASE Workspace!Read
  BY <1>25 DEF Workspace!Read, Workspace!lease, Workspace!running, Workspace!Stage, Workspace!InUse
<1>26. CASE Workspace!Write
  BY <1>26 DEF Workspace!Write, Workspace!lease, Workspace!running, Workspace!Stage, Workspace!InUse
<1>27. CASE Workspace!IoEnds
  BY <1>27 DEF Workspace!IoEnds, Workspace!lease, Workspace!running
<1>28. CASE Workspace!RevokeWriters
  BY <1>28 DEF Workspace!RevokeWriters, Workspace!lease, Workspace!InUse
<1>29. QED
  BY <1>1, <1>2, <1>3, <1>4, <1>5, <1>6, <1>7, <1>8, <1>9, <1>10, <1>11, <1>12, <1>13,
     <1>14, <1>15, <1>16, <1>17, <1>18, <1>19, <1>20, <1>21, <1>22, <1>23, <1>24, <1>25, <1>26,
     <1>27, <1>28
     DEF Workspace!Next

\* However late the answers are.
LEMMA LeaseKept == ASSUME WorkspaceInv, Workspace!Next PROVE LeaseInv'
<1> USE LeaseAssumption, NoRenewalAssumption DEF WorkspaceInv, WorkspaceTypes, LeaseTypes, LeaseInv
<1>1. CASE Workspace!Tick
  BY <1>1 DEF Workspace!Tick, Workspace!running
<1>2. CASE Workspace!Expire
  BY <1>2 DEF Workspace!Expire, Workspace!lease, Workspace!running
<1>3. CASE Workspace!Create
  BY <1>3 DEF Workspace!Create, Workspace!running
<1>4. CASE Workspace!Created
  BY <1>4 DEF Workspace!Created, Workspace!running
<1>5. CASE Workspace!Halt
  BY <1>5 DEF Workspace!Halt, Workspace!lease, Workspace!running, Workspace!Destroy
<1>6. CASE Workspace!Recorded
  BY <1>6 DEF Workspace!Recorded, Workspace!lease, Workspace!running
<1>7. CASE Workspace!FirstRenewal
  BY <1>7 DEF Workspace!FirstRenewal, Workspace!running
<1>8. CASE Workspace!Returned
  BY <1>8 DEF Workspace!Returned, Workspace!lease, Workspace!running
<1>9. CASE Workspace!CreateFails
  BY <1>9 DEF Workspace!CreateFails, Workspace!lease, Workspace!running, Workspace!Destroy
<1>10. CASE Workspace!Undone
  BY <1>10 DEF Workspace!Undone, Workspace!lease, Workspace!running
<1>11. CASE Workspace!Kill
  BY <1>11 DEF Workspace!Kill, Workspace!lease, Workspace!running
<1>12. CASE Workspace!Poll
  BY <1>12 DEF Workspace!Poll, Workspace!lease, Workspace!running
<1>13. CASE Workspace!Dies
  BY <1>13 DEF Workspace!Dies, Workspace!lease, Workspace!running
<1>14. CASE Workspace!Retry
  BY <1>14 DEF Workspace!Retry, Workspace!lease, Workspace!running, Workspace!Destroy
<1>15. CASE Workspace!RenewLease
  BY <1>15 DEF Workspace!RenewLease, Workspace!running, Workspace!InUse
<1>16. CASE Workspace!RemoteRenew
  BY <1>16 DEF Workspace!RemoteRenew, Workspace!running
<1>17. CASE Workspace!renewLease
  BY <1>17 DEF Workspace!renewLease, Workspace!running
<1>18. CASE Workspace!Exec
  BY <1>18 DEF Workspace!Exec, Workspace!lease, Workspace!Run, Workspace!InUse
<1>19. CASE Workspace!Prints
  BY <1>19 DEF Workspace!Prints, Workspace!lease, Workspace!Rest
<1>20. CASE Workspace!Exits
  BY <1>20 DEF Workspace!Exits, Workspace!lease, Workspace!Rest
<1>21. CASE Workspace!ReadLogs
  BY <1>21 DEF Workspace!ReadLogs, Workspace!lease, Workspace!Rest
<1>22. CASE Workspace!AskStatus
  BY <1>22 DEF Workspace!AskStatus, Workspace!lease, Workspace!Rest
<1>23. CASE Workspace!DrainLogs
  BY <1>23 DEF Workspace!DrainLogs, Workspace!lease, Workspace!Rest
<1>24. CASE Workspace!ExecFails
  BY <1>24 DEF Workspace!ExecFails, Workspace!lease, Workspace!Destroy
<1>25. CASE Workspace!Read
  BY <1>25 DEF Workspace!Read, Workspace!lease, Workspace!running, Workspace!Stage, Workspace!InUse
<1>26. CASE Workspace!Write
  BY <1>26 DEF Workspace!Write, Workspace!lease, Workspace!running, Workspace!Stage, Workspace!InUse
<1>27. CASE Workspace!IoEnds
  BY <1>27 DEF Workspace!IoEnds, Workspace!lease, Workspace!running
<1>28. CASE Workspace!RevokeWriters
  BY <1>28 DEF Workspace!RevokeWriters, Workspace!lease, Workspace!InUse
<1>29. QED
  BY <1>1, <1>2, <1>3, <1>4, <1>5, <1>6, <1>7, <1>8, <1>9, <1>10, <1>11, <1>12, <1>13,
     <1>14, <1>15, <1>16, <1>17, <1>18, <1>19, <1>20, <1>21, <1>22, <1>23, <1>24, <1>25, <1>26,
     <1>27, <1>28
     DEF Workspace!Next

\* Every step keeps the invariant, and the properties follow from it.
LEMMA NextWorkspace == ASSUME WorkspaceInv, Workspace!Next PROVE WorkspaceInv'
BY WorkspaceTypesKept, ResourceKept, OutputKept, LeaseKept DEF WorkspaceInv

LEMMA WorkspaceProperty ==
    WorkspaceInv => /\ Workspace!RejectedIsGone /\ Workspace!OutputIsWhole
                    /\ Workspace!ReportedWithinLease /\ Workspace!TypeOK
BY DEF WorkspaceInv, WorkspaceTypes, ResourceTypes, LeaseTypes, ShellTypes, ResourceInv,
   ShellInv, LeaseInv, Workspace!RejectedIsGone,
   Workspace!OutputIsWhole, Workspace!ReportedWithinLease, Workspace!TypeOK

-----------------------------------------------------------------------------
(* TokenLedger: what the providers spend and what the ledger accounts for.   *)

TokenTypes ==
    /\ tokensPhase \in [TokenStreams -> {"none", "open", "attempted", "sent", "closed"}]
    /\ reserved \in [TokenStreams -> Nat] /\ charged \in [TokenStreams -> Nat]
    /\ tokensUsed \in [TokenStreams -> Nat] /\ accounted \in Nat
    /\ DOMAIN sample = TokenStreams
\* A request that was sent is charged for what it reserved, one that may still be spending
\* for no less, one that is over for what it used, and one that never left for nothing.
StreamInv(s) ==
    /\ tokensPhase[s] \in {"none", "open", "attempted"} => reserved[s] = 0 /\ charged[s] = 0
    /\ tokensPhase[s] = "sent" => charged[s] = reserved[s]
    /\ IF sample[s] = "reported" THEN tokensPhase[s] = "closed" /\ charged[s] = tokensUsed[s]
       ELSE reserved[s] <= charged[s]
Sent == {s \in TokenStreams : tokensPhase[s] = "sent"}
Beyond == Sum(Tokens!Excess, TokenStreams)
LedgerInv ==
    /\ accounted = Sum(charged, TokenStreams)
    /\ TokenLimit # None => accounted <= TokenLimit + Beyond
    /\ tokensPending = Cardinality(Sent)
TokenInv == TokenTypes /\ (\A s \in TokenStreams : StreamInv(s)) /\ LedgerInv

\* What requests took beyond their reservations can be counted.
LEMMA ExcessCounted ==
    /\ TokenTypes => (\A s \in TokenStreams : Tokens!Excess[s] \in Nat) /\ Beyond \in Nat
    /\ TokenTypes' => (\A s \in TokenStreams : Tokens!Excess'[s] \in Nat) /\ Beyond' \in Nat
<1>1. TokenTypes => \A s \in TokenStreams : Tokens!Excess[s] \in Nat
  BY DEF Tokens!Excess, TokenTypes
<1>2. TokenTypes' => \A s \in TokenStreams : Tokens!Excess'[s] \in Nat
  BY DEF Tokens!Excess, TokenTypes
<1>3. QED
  BY <1>1, <1>2, TokensAssumption, SumOf DEF Beyond

\* It is the same where nothing is charged and nothing reserved anew.
LEMMA ExcessStays ==
    ASSUME UNCHANGED <<reserved, charged>>
    PROVE  Beyond' = Beyond
BY DEF Beyond, Tokens!Excess, Sum, SumTable

\* Nothing is reserved at first.
LEMMA InitTokens == Tokens!Init => TokenInv
<1> SUFFICES ASSUME Tokens!Init PROVE TokenInv
  OBVIOUS
<1>1. TokenTypes /\ \A s \in TokenStreams : StreamInv(s)
  BY TokensAssumption DEF Tokens!Init, TokenTypes, StreamInv
<1>2. Sum(charged, TokenStreams) = 0
  <2>1. \A s \in TokenStreams : charged[s] = 0
    BY DEF Tokens!Init
  <2>2. QED
    BY <2>1, TokensAssumption, SumZero
<1>3. Sent = {}
  BY DEF Sent, Tokens!Init
<1>4. Beyond \in Nat
  BY <1>1, ExcessCounted
<1>5. LedgerInv
  BY <1>2, <1>3, <1>4, TokensAssumption, FS_EmptySet DEF Tokens!Init, LedgerInv
<1>6. QED
  BY <1>1, <1>5 DEF TokenInv

\* A stream that changes alone, and what it is charged.
LEMMA Charges ==
    ASSUME TokenInv, TokenTypes', NEW s \in TokenStreams,
           \A t \in TokenStreams \ {s} : charged'[t] = charged[t]
    PROVE  Sum(charged', TokenStreams) + charged[s] = Sum(charged, TokenStreams) + charged'[s]
<1>1. /\ IsFiniteSet(TokenStreams) /\ \A t \in TokenStreams : charged[t] \in Nat
      /\ \A t \in TokenStreams : charged'[t] \in Nat
  BY TokensAssumption DEF TokenInv, TokenTypes
<1>2. QED
  BY <1>1, SumChange

\* The requests that were sent can be counted.
LEMMA SentFinite == TokenTypes => IsFiniteSet(Sent) /\ Cardinality(Sent) \in Nat
BY TokensAssumption, FS_Subset, FS_CardinalityType DEF Sent

\* What is within a limit is within a wider one.
LEMMA Widened ==
    ASSUME NEW x \in Nat, NEW l \in Nat, NEW more \in Nat, x <= l
    PROVE  x <= l + more
OBVIOUS

\* A request leaves with its estimate or not at all.
LEMMA FetchKeeps ==
    ASSUME TokenInv, NEW s \in TokenStreams, Tokens!Fetch(s)
    PROVE  TokenInv'
<1>1. CASE Tokens!Refused(s)
  <2>1. /\ tokensPhase[s] = "open" /\ tokensPhase' = [tokensPhase EXCEPT ![s] = "attempted"]
        /\ UNCHANGED <<reserved, accounted, charged, sample, tokensPending, tokensUsed>>
    BY <1>1 DEF Tokens!Fetch, Tokens!Refused
  <2>2. TokenTypes' /\ \A t \in TokenStreams : StreamInv(t)'
    BY <2>1 DEF TokenInv, TokenTypes, StreamInv
  <2>3. Sent' = Sent
    BY <2>1 DEF TokenInv, TokenTypes, Sent
  <2>4. LedgerInv'
    BY <2>1, <2>3, ExcessStays DEF TokenInv, LedgerInv
  <2>5. QED
    BY <2>2, <2>4 DEF TokenInv
<1>2. ASSUME NEW e \in TokenEstimates, TokenLimit # None => accounted + e <= TokenLimit,
             tokensPhase' = [tokensPhase EXCEPT ![s] = "sent"],
             reserved' = [reserved EXCEPT ![s] = e], accounted' = accounted + e,
             charged' = [charged EXCEPT ![s] = e], tokensPending' = tokensPending + 1,
             UNCHANGED <<sample, tokensUsed>>
      PROVE  TokenInv'
  <2>1. tokensPhase[s] = "open" /\ e \in Nat
    BY TokensAssumption DEF Tokens!Fetch
  <2>2. TokenTypes'
    BY <1>2, <2>1 DEF TokenInv, TokenTypes
  <2>3. reserved[s] = 0 /\ charged[s] = 0 /\ sample[s] # "reported"
    BY <2>1 DEF TokenInv, TokenTypes, StreamInv
  <2>4. \A t \in TokenStreams : StreamInv(t)'
    BY <1>2, <2>1, <2>3 DEF TokenInv, TokenTypes, StreamInv
  <2>5. Sum(charged', TokenStreams) + charged[s] = Sum(charged, TokenStreams) + e
    BY <1>2, <2>2, Charges DEF TokenInv, TokenTypes
  <2>6. Sum(charged, TokenStreams) \in Nat /\ Sum(charged', TokenStreams) \in Nat
    BY <2>2, TokensAssumption, SumOf DEF TokenInv, TokenTypes
  <2>7. accounted' = Sum(charged', TokenStreams)
    BY <1>2, <2>1, <2>3, <2>5, <2>6 DEF TokenInv, LedgerInv
  <2>8. Sent' = Sent \union {s} /\ s \notin Sent
    BY <1>2, <2>1 DEF TokenInv, TokenTypes, Sent
  <2>9. Cardinality(Sent') = Cardinality(Sent) + 1
    BY <2>8, SentFinite, FS_AddElement DEF TokenInv
  <2>10. Beyond' \in Nat
    BY <2>2, ExcessCounted
  <2>11. TokenLimit # None => accounted' <= TokenLimit + Beyond'
    <3> SUFFICES ASSUME TokenLimit # None PROVE accounted' <= TokenLimit + Beyond'
      OBVIOUS
    <3>1. TokenLimit \in Nat /\ accounted \in Nat /\ accounted' \in Nat
      BY <2>2, TokensAssumption DEF TokenInv, TokenTypes
    <3>2. accounted' <= TokenLimit
      BY <1>2
    <3>3. QED
      BY <3>1, <3>2, <2>10, Widened
  <2>12. LedgerInv'
    BY <1>2, <2>7, <2>9, <2>11 DEF TokenInv, LedgerInv
  <2>13. QED
    BY <2>2, <2>4, <2>12 DEF TokenInv
<1>3. CASE \E e \in TokenEstimates :
              IF TokenLimit # None /\ accounted + e > TokenLimit THEN Tokens!Refused(s)
              ELSE /\ tokensPhase' = [tokensPhase EXCEPT ![s] = "sent"]
                   /\ reserved' = [reserved EXCEPT ![s] = e] /\ accounted' = accounted + e
                   /\ charged' = [charged EXCEPT ![s] = e] /\ tokensPending' = tokensPending + 1
                   /\ UNCHANGED <<sample, failedRole, tokensUsed>>
  <2>1. PICK e \in TokenEstimates :
              IF TokenLimit # None /\ accounted + e > TokenLimit THEN Tokens!Refused(s)
              ELSE /\ tokensPhase' = [tokensPhase EXCEPT ![s] = "sent"]
                   /\ reserved' = [reserved EXCEPT ![s] = e] /\ accounted' = accounted + e
                   /\ charged' = [charged EXCEPT ![s] = e] /\ tokensPending' = tokensPending + 1
                   /\ UNCHANGED <<sample, failedRole, tokensUsed>>
    BY <1>3
  <2>2. CASE TokenLimit # None /\ accounted + e > TokenLimit
    BY <1>1, <2>1, <2>2
  <2>3. CASE ~(TokenLimit # None /\ accounted + e > TokenLimit)
    <3>1. TokenLimit # None => accounted + e <= TokenLimit
      BY <2>3, TokensAssumption DEF TokenInv, TokenTypes
    <3>2. /\ tokensPhase' = [tokensPhase EXCEPT ![s] = "sent"]
          /\ reserved' = [reserved EXCEPT ![s] = e] /\ accounted' = accounted + e
          /\ charged' = [charged EXCEPT ![s] = e] /\ tokensPending' = tokensPending + 1
          /\ UNCHANGED <<sample, tokensUsed>>
      BY <2>1, <2>3
    <3>3. QED
      BY <1>2, <3>1, <3>2
  <2>4. QED
    BY <2>2, <2>3
<1>4. QED
  BY <1>1, <1>3 DEF Tokens!Fetch

\* What a request is charged in the end.
LEMMA ChargeOf ==
    ASSUME NEW r \in Nat, NEW observed \in Nat
    PROVE  Tokens!Max({r, observed}) = IF observed <= r THEN r ELSE observed
<1> DEFINE most == IF observed <= r THEN r ELSE observed
<1>1. most \in {r, observed} /\ \A y \in {r, observed} : most >= y
  OBVIOUS
<1>2. \A x \in {r, observed} : (\A y \in {r, observed} : x >= y) => x = most
  OBVIOUS
<1>3. QED
  BY <1>1, <1>2 DEF Tokens!Max

\* A settled request gives back what it did not use only if that is known.
LEMMA TokensSettle ==
    ASSUME TokenInv, NEW s \in TokenStreams, Tokens!Settle(s)
    PROVE  TokenInv'
<1>1. /\ tokensPhase' = [tokensPhase EXCEPT ![s] = "closed"]
      /\ UNCHANGED <<reserved, tokensUsed>>
  BY DEF Tokens!Settle
<1>2. CASE tokensPhase[s] # "sent"
  <2>1. /\ UNCHANGED <<accounted, charged, sample, tokensPending>>
        /\ tokensPhase[s] \in {"open", "attempted"}
    BY <1>2 DEF Tokens!Settle
  <2>2. TokenTypes' /\ \A t \in TokenStreams : StreamInv(t)'
    BY <1>1, <2>1 DEF TokenInv, TokenTypes, StreamInv
  <2>3. Sent' = Sent
    BY <1>1, <2>1 DEF TokenInv, TokenTypes, Sent
  <2>4. LedgerInv'
    BY <1>1, <2>1, <2>3, ExcessStays DEF TokenInv, LedgerInv
  <2>5. QED
    BY <2>2, <2>4 DEF TokenInv
<1>3. CASE tokensPhase[s] = "sent"
  <2>1. PICK report \in Tokens!Reported, ended \in BOOLEAN :
           LET final == ended /\ TokenRoles[s] \notin failedRole
               least == IF report = "complete" /\ final THEN tokensUsed[s] ELSE 0
           IN \E observed \in (IF report = "silent" THEN {0} ELSE least..tokensUsed[s]) :
                LET c == Tokens!Charge(s, report, observed, final)
                IN /\ accounted' = (accounted + c) - reserved[s]
                   /\ charged' = [charged EXCEPT ![s] = c] /\ tokensPending' = tokensPending - 1
                   /\ sample' = [sample EXCEPT ![s] =
                        IF report = "complete" /\ final THEN "reported" ELSE "unreported"]
    BY <1>3 DEF Tokens!Settle
  <2> DEFINE known == report = "complete" /\ ended /\ TokenRoles[s] \notin failedRole
  <2>2. /\ reserved[s] \in Nat /\ tokensUsed[s] \in Nat /\ charged[s] = reserved[s]
        /\ charged[s] \in Nat
    BY <1>3 DEF TokenInv, TokenTypes, StreamInv
  <2>3. PICK observed \in (IF report = "silent" THEN {0}
                           ELSE (IF known THEN tokensUsed[s] ELSE 0) .. tokensUsed[s]) :
           LET final == ended /\ TokenRoles[s] \notin failedRole
               d == Tokens!Charge(s, report, observed, final)
           IN /\ accounted' = (accounted + d) - reserved[s]
              /\ charged' = [charged EXCEPT ![s] = d] /\ tokensPending' = tokensPending - 1
              /\ sample' = [sample EXCEPT ![s] = IF known THEN "reported" ELSE "unreported"]
    BY <2>1
  <2> DEFINE c == Tokens!Charge(s, report, observed, ended /\ TokenRoles[s] \notin failedRole)
  <2>4. observed \in Nat /\ (known => observed = tokensUsed[s])
    BY <2>2
  <2>5. /\ accounted' = (accounted + c) - reserved[s] /\ charged' = [charged EXCEPT ![s] = c]
        /\ tokensPending' = tokensPending - 1
        /\ sample' = [sample EXCEPT ![s] = IF known THEN "reported" ELSE "unreported"]
    BY <2>3
  <2>6. c \in Nat /\ (IF known THEN c = tokensUsed[s] ELSE reserved[s] <= c)
    <3>1. c = IF known THEN observed ELSE Tokens!Max({reserved[s], observed})
      BY DEF Tokens!Charge
    <3>2. Tokens!Max({reserved[s], observed}) = IF observed <= reserved[s] THEN reserved[s] ELSE observed
      BY <2>2, <2>4, ChargeOf
    <3> HIDE DEF known, c
    <3>3. QED
      BY <2>2, <2>4, <3>1, <3>2
  <2> HIDE DEF known, c
  <2>7. charged' \in [TokenStreams -> Nat]
    BY <2>5, <2>6 DEF TokenInv, TokenTypes
  <2>8. Sum(charged, TokenStreams) \in Nat /\ Sum(charged', TokenStreams) \in Nat
    BY <2>7, TokensAssumption, SumOf DEF TokenInv, TokenTypes
  <2>9. Sum(charged', TokenStreams) + charged[s] = Sum(charged, TokenStreams) + c
    <3>1. charged'[s] = c /\ \A t \in TokenStreams \ {s} : charged'[t] = charged[t]
      BY <2>5 DEF TokenInv, TokenTypes
    <3>2. /\ IsFiniteSet(TokenStreams) /\ \A t \in TokenStreams : charged[t] \in Nat
          /\ \A t \in TokenStreams : charged'[t] \in Nat
      BY <2>7, TokensAssumption DEF TokenInv, TokenTypes
    <3>3. QED
      BY <3>1, <3>2, SumChange
  <2>10. accounted' = Sum(charged', TokenStreams) /\ accounted' \in Nat
    BY <2>2, <2>5, <2>6, <2>8, <2>9 DEF TokenInv, LedgerInv
  <2>11. TokenTypes'
    BY <1>1, <2>5, <2>7, <2>10 DEF TokenInv, TokenTypes
  <2>12. \A t \in TokenStreams : StreamInv(t)'
    BY <1>1, <2>2, <2>5, <2>6 DEF TokenInv, TokenTypes, StreamInv
  <2>13. Sent' = Sent \ {s} /\ s \in Sent
    BY <1>1, <1>3 DEF TokenInv, TokenTypes, Sent
  <2>14. Cardinality(Sent') = Cardinality(Sent) - 1
    BY <2>13, SentFinite, FS_RemoveElement DEF TokenInv
  <2>15. TokenLimit # None => accounted' <= TokenLimit + Beyond'
    <3> DEFINE more == IF reserved[s] < c THEN c - reserved[s] ELSE 0
    <3>1. /\ Tokens!Excess[s] = 0 /\ Tokens!Excess'[s] = more
          /\ \A t \in TokenStreams \ {s} : Tokens!Excess'[t] = Tokens!Excess[t]
      BY <1>1, <2>2, <2>5, <2>6 DEF Tokens!Excess, TokenInv, TokenTypes
    <3>2. /\ IsFiniteSet(TokenStreams) /\ \A t \in TokenStreams : Tokens!Excess[t] \in Nat
          /\ \A t \in TokenStreams : Tokens!Excess'[t] \in Nat /\ Beyond \in Nat /\ Beyond' \in Nat
      BY <2>11, ExcessCounted, TokensAssumption DEF TokenInv
    <3>3. Sum(Tokens!Excess', TokenStreams) + Tokens!Excess[s]
             = Sum(Tokens!Excess, TokenStreams) + Tokens!Excess'[s]
      BY <3>1, <3>2, SumChange
    <3>4. Beyond' = Beyond + more /\ more \in Nat
      BY <2>2, <2>6, <3>1, <3>2, <3>3 DEF Beyond
    <3>5. accounted' <= accounted + more
      BY <2>2, <2>5, <2>6 DEF TokenInv, TokenTypes
    <3>6. accounted \in Nat /\ (TokenLimit # None => TokenLimit \in Nat /\ accounted <= TokenLimit + Beyond)
      BY TokensAssumption DEF TokenInv, TokenTypes, LedgerInv
    <3> HIDE DEF more
    <3>7. QED
      BY <2>10, <3>2, <3>4, <3>5, <3>6
  <2>16. LedgerInv'
    BY <2>5, <2>10, <2>14, <2>15 DEF TokenInv, LedgerInv
  <2>17. QED
    BY <2>11, <2>12, <2>16 DEF TokenInv
<1>4. QED
  BY <1>2, <1>3

\* Every step keeps the invariant, and the property follows from it.
LEMMA NextTokens == ASSUME TokenInv, Tokens!Next PROVE TokenInv'
<1>1. ASSUME NEW s \in TokenStreams, Tokens!Stream(s) PROVE TokenInv'
  <2>1. /\ tokensPhase[s] = "none" /\ tokensPhase' = [tokensPhase EXCEPT ![s] = "open"]
        /\ UNCHANGED <<reserved, accounted, charged, sample, tokensPending, tokensUsed>>
    BY <1>1 DEF Tokens!Stream
  <2>2. TokenTypes' /\ \A t \in TokenStreams : StreamInv(t)'
    BY <2>1 DEF TokenInv, TokenTypes, StreamInv
  <2>3. Sent' = Sent
    BY <2>1 DEF TokenInv, TokenTypes, Sent
  <2>4. LedgerInv'
    BY <2>1, <2>3, ExcessStays DEF TokenInv, LedgerInv
  <2>5. QED
    BY <2>2, <2>4 DEF TokenInv
<1>2. ASSUME NEW s \in TokenStreams, Tokens!FetchAgain(s) PROVE TokenInv'
  <2>1. UNCHANGED <<tokensPhase, reserved, accounted, charged, sample, tokensPending, tokensUsed>>
    BY <1>2 DEF Tokens!FetchAgain
  <2>2. TokenTypes' /\ (\A t \in TokenStreams : StreamInv(t)') /\ Sent' = Sent
    BY <2>1 DEF TokenInv, TokenTypes, StreamInv, Sent
  <2>3. QED
    BY <2>1, <2>2, ExcessStays DEF TokenInv, LedgerInv
<1>3. ASSUME NEW s \in TokenStreams, Tokens!Provider(s) PROVE TokenInv'
  <2>1. /\ tokensPhase[s] = "sent" \/ sample[s] = "unreported"
        /\ tokensUsed' = [tokensUsed EXCEPT ![s] = tokensUsed[s] + 1]
        /\ UNCHANGED <<tokensPhase, reserved, accounted, charged, sample, tokensPending>>
    BY <1>3 DEF Tokens!Provider
  <2>2. TokenTypes' /\ \A t \in TokenStreams : StreamInv(t)'
    BY <2>1 DEF TokenInv, TokenTypes, StreamInv
  <2>3. LedgerInv'
    BY <2>1, ExcessStays DEF TokenInv, LedgerInv, Sent
  <2>4. QED
    BY <2>2, <2>3 DEF TokenInv
<1>4. QED
  BY <1>1, <1>2, <1>3, FetchKeeps, TokensSettle DEF Tokens!Next

LEMMA TokensProperty == TokenInv => Tokens!BudgetHolds /\ Tokens!TypeOK
<1> SUFFICES ASSUME TokenInv PROVE Tokens!BudgetHolds /\ Tokens!TypeOK
  OBVIOUS
<1>1. /\ IsFiniteSet(TokenStreams) /\ \A s \in TokenStreams : charged[s] \in Nat
      /\ \A s \in TokenStreams : Tokens!Known[s] \in Nat /\ Tokens!Known[s] <= charged[s]
  BY TokensAssumption DEF TokenInv, TokenTypes, StreamInv, Tokens!Known
<1>2. Tokens!Total(Tokens!Known) <= accounted
  <2>1. Sum(Tokens!Known, TokenStreams) <= Sum(charged, TokenStreams)
    BY <1>1, SumMono
  <2>2. Tokens!FoldSet(LAMBDA s, sum : sum + Tokens!Known[s], 0, TokenStreams)
           = Sum(Tokens!Known, TokenStreams)
    BY <1>1, TokensSum
  <2>3. QED
    BY <2>1, <2>2 DEF Tokens!Total, TokenInv, LedgerInv
<1>3. Tokens!Total(Tokens!Excess) = Beyond
  <2>1. \A s \in TokenStreams : Tokens!Excess[s] \in Nat
    BY ExcessCounted DEF TokenInv
  <2>2. Tokens!FoldSet(LAMBDA s, sum : sum + Tokens!Excess[s], 0, TokenStreams)
           = Sum(Tokens!Excess, TokenStreams)
    BY <2>1, TokensAssumption, TokensSum
  <2>3. QED
    BY <2>2 DEF Tokens!Total, Beyond
<1>4. Tokens!BudgetHolds
  BY <1>2, <1>3 DEF Tokens!BudgetHolds, TokenInv, LedgerInv
<1>5. tokensPending = Tokens!Cardinality({s \in TokenStreams : tokensPhase[s] = "sent"})
  BY DEF TokenInv, LedgerInv, Sent, Cardinality, Tokens!Cardinality
<1>6. Tokens!TypeOK
  BY <1>5 DEF Tokens!TypeOK, TokenInv, TokenTypes
<1>7. QED
  BY <1>4, <1>6

-----------------------------------------------------------------------------
(* CapacityModel: the batches of a split.                                    *)

\* What a plan of k behaviours requires of each resource.
LEMMA RequiredOf ==
    ASSUME NEW k \in Nat
    PROVE  /\ Capacity!required(k)["planBehaviours"] = k
           /\ Capacity!required(k)["reviewToolCalls"] = 8 * k + 3
           /\ Capacity!required(k)["runToolCalls"] = 76 + (8 * k + 3)
           /\ Capacity!required(k)["evidenceEntries"] = (3 * (k * 7) + 1) \div 2
           /\ Capacity!required(k)["evidenceBytes"] = (3 * (k * 24576) + 1) \div 2
           /\ Capacity!required(k)["artifacts"] = (3 * k + 1) \div 2
           /\ Capacity!required(k)["planBytes"] = (3 * (412 + k * 794) + 1) \div 2
<1> DEFINE raw == Capacity!rawEnvelope(k)
           exact == [planBehaviours |-> k, reviewToolCalls |-> k * 8 + 3,
                     runToolCalls |-> 12 + 64 + (k * 8 + 3)]
<1>1. /\ Capacity!Cost.calls = 8 /\ Capacity!Cost.fixedCalls = 3 /\ Capacity!Cost.coordinator = 12
      /\ Capacity!Cost.builder = 64 /\ Capacity!Cost.entries = 7 /\ Capacity!Cost.bytes = 24576
      /\ Capacity!Cost.artifacts = 1
  BY DEF Capacity!Cost, Capacity!CallsPerBehavior
<1>2. raw = [evidenceEntries |-> k * 7, evidenceBytes |-> k * 24576, artifacts |-> k * 1,
             planBytes |-> Capacity!PlanBytes(k), handoffBytes |-> Capacity!HandoffBytes(k)]
  BY <1>1 DEF Capacity!rawEnvelope
<1>3. Capacity!required(k) = [r \in Capacity!Batchable \cup Capacity!PlanWide |->
           IF r \in DOMAIN raw THEN Capacity!WithHeadroom(raw[r]) ELSE exact[r]]
  BY <1>1 DEF Capacity!required
<1>4. DOMAIN raw = {"evidenceEntries", "evidenceBytes", "artifacts", "planBytes", "handoffBytes"}
  BY <1>2
<1>5. /\ raw["evidenceEntries"] = k * 7 /\ raw["evidenceBytes"] = k * 24576 /\ raw["artifacts"] = k * 1
      /\ raw["planBytes"] = Capacity!PlanBytes(k)
  BY <1>2
<1>6. /\ exact["planBehaviours"] = k /\ exact["reviewToolCalls"] = k * 8 + 3
      /\ exact["runToolCalls"] = 12 + 64 + (k * 8 + 3)
  OBVIOUS
<1> HIDE DEF raw, exact
<1>7. /\ Capacity!required(k)["planBehaviours"] = k
      /\ Capacity!required(k)["reviewToolCalls"] = k * 8 + 3
      /\ Capacity!required(k)["runToolCalls"] = 12 + 64 + (k * 8 + 3)
  BY <1>3, <1>4, <1>6 DEF Capacity!Batchable, Capacity!PlanWide
<1>8. /\ Capacity!required(k)["evidenceEntries"] = Capacity!WithHeadroom(k * 7)
      /\ Capacity!required(k)["evidenceBytes"] = Capacity!WithHeadroom(k * 24576)
      /\ Capacity!required(k)["artifacts"] = Capacity!WithHeadroom(k * 1)
      /\ Capacity!required(k)["planBytes"] = Capacity!WithHeadroom(Capacity!PlanBytes(k))
  BY <1>3, <1>4, <1>5 DEF Capacity!Batchable, Capacity!PlanWide
<1>9. Capacity!PlanBytes(k) = 412 + k * 794
  BY DEF Capacity!PlanBytes, Capacity!BehaviorPlanBytes
<1>10. k * 1 = k /\ k * 8 + 3 = 8 * k + 3 /\ 12 + 64 + (k * 8 + 3) = 76 + (8 * k + 3)
  OBVIOUS
<1>11. QED
  BY <1>7, <1>8, <1>9, <1>10 DEF Capacity!WithHeadroom

\* What it is allowed.
LEMMA LimitsOf ==
    ASSUME NEW k \in Nat, NEW over
    PROVE  /\ \A r \in Capacity!Batchable : r \in DOMAIN over /\ over[r] # None =>
                 Capacity!LimitsUnder(k, over)[r] = over[r]
           /\ \A r \in Capacity!Batchable : ~(r \in DOMAIN over /\ over[r] # None) =>
                 Capacity!LimitsUnder(k, over)[r] = Capacity!currentLimits(k)[r]
           /\ DOMAIN over \subseteq Capacity!Batchable => \A r \in Capacity!PlanWide :
                 Capacity!LimitsUnder(k, over)[r] = Capacity!currentLimits(k)[r]
<1>1. Capacity!LimitsUnder(k, over) =
         [r \in Capacity!Batchable \cup Capacity!PlanWide |->
             IF r \in DOMAIN over /\ over[r] # None THEN over[r] ELSE Capacity!currentLimits(k)[r]]
  BY DEF Capacity!LimitsUnder
<1>2. Capacity!Batchable \cap Capacity!PlanWide = {}
  BY DEF Capacity!Batchable, Capacity!PlanWide
<1>3. QED
  BY <1>1, <1>2

\* What the code allows a check of k behaviours.
LEMMA CurrentOf ==
    ASSUME NEW k \in Nat
    PROVE  /\ Capacity!currentLimits(k)["planBehaviours"] = 80
           /\ Capacity!currentLimits(k)["reviewToolCalls"] = Capacity!reviewToolLimitForPlan(k)
           /\ Capacity!currentLimits(k)["runToolCalls"] = Capacity!generationToolLimitForPlan(k)
           /\ Capacity!currentLimits(k)["evidenceEntries"] = 4096
           /\ Capacity!currentLimits(k)["evidenceBytes"] = 2097152
           /\ Capacity!currentLimits(k)["artifacts"] = 80
BY DEF Capacity!currentLimits

\* A smaller batch requires no more.
LEMMA Halves ==
    ASSUME NEW a \in Nat, NEW b \in Nat, a <= b
    PROVE  (3 * a + 1) \div 2 \in Nat /\ (3 * a + 1) \div 2 <= (3 * b + 1) \div 2
OBVIOUS

\* A smaller batch requires no more of what is batched.
LEMMA SmallerRequires ==
    ASSUME NEW m \in Nat, NEW k \in Nat, k <= m, NEW r \in Capacity!Batchable
    PROVE  /\ Capacity!required(m)[r] \in Nat /\ Capacity!required(k)[r] \in Nat
           /\ Capacity!required(k)[r] <= Capacity!required(m)[r]
<1>1. CASE r = "reviewToolCalls"
  <2>1. Capacity!required(m)[r] = 8 * m + 3 /\ Capacity!required(k)[r] = 8 * k + 3
    BY <1>1, RequiredOf
  <2>2. QED
    BY <2>1
<1>2. CASE r = "evidenceEntries"
  <2>1. /\ Capacity!required(m)[r] = (3 * (m * 7) + 1) \div 2
        /\ Capacity!required(k)[r] = (3 * (k * 7) + 1) \div 2
    BY <1>2, RequiredOf
  <2>2. m * 7 \in Nat /\ k * 7 \in Nat /\ k * 7 <= m * 7
    OBVIOUS
  <2>3. QED
    BY <2>1, <2>2, Halves
<1>3. CASE r = "evidenceBytes"
  <2>1. /\ Capacity!required(m)[r] = (3 * (m * 24576) + 1) \div 2
        /\ Capacity!required(k)[r] = (3 * (k * 24576) + 1) \div 2
    BY <1>3, RequiredOf
  <2>2. m * 24576 \in Nat /\ k * 24576 \in Nat /\ k * 24576 <= m * 24576
    OBVIOUS
  <2>3. QED
    BY <2>1, <2>2, Halves
<1>4. CASE r = "artifacts"
  <2>1. /\ Capacity!required(m)[r] = (3 * m + 1) \div 2
        /\ Capacity!required(k)[r] = (3 * k + 1) \div 2
    BY <1>4, RequiredOf
  <2>2. QED
    BY <2>1, Halves
<1>5. QED
  BY <1>1, <1>2, <1>3, <1>4 DEF Capacity!Batchable

\* The calls that a review may make allow what it requires up to 34 behaviours.
LEMMA SmallerReview ==
    ASSUME NEW m \in Nat, NEW k \in Nat, k <= m, 8 * m + 3 <= Capacity!reviewToolLimitForPlan(m)
    PROVE  /\ 8 * k + 3 <= Capacity!reviewToolLimitForPlan(k)
           /\ Capacity!reviewToolLimitForPlan(k) \in Nat
BY DEF Capacity!reviewToolLimitForPlan, Capacity!Greatest, Capacity!Least, Capacity!CallsPerBehavior

\* The calls of a review are a number.
LEMMA LimitIsNat == ASSUME NEW k \in Nat PROVE Capacity!reviewToolLimitForPlan(k) \in Nat
BY DEF Capacity!reviewToolLimitForPlan, Capacity!Greatest, Capacity!Least, Capacity!CallsPerBehavior

\* A batch fits when a larger one does.
LEMMA SmallerFits ==
    ASSUME NEW m \in Nat, NEW k \in Nat, k <= m, NEW over,
           \A r \in DOMAIN over : over[r] \in Nat \union {None}, Capacity!oneBatchFits(m, over)
    PROVE  Capacity!oneBatchFits(k, over)
<1>1. \A r \in Capacity!Batchable : ~(Capacity!required(m)[r] > Capacity!LimitsUnder(m, over)[r])
  BY DEF Capacity!oneBatchFits, Capacity!compare
<1>2. ASSUME NEW r \in Capacity!Batchable
      PROVE  ~(Capacity!required(k)[r] > Capacity!LimitsUnder(k, over)[r])
  <2>1. /\ Capacity!required(m)[r] \in Nat /\ Capacity!required(k)[r] \in Nat
        /\ Capacity!required(k)[r] <= Capacity!required(m)[r]
    BY SmallerRequires
  <2>2. CASE /\ Capacity!LimitsUnder(m, over)[r] \in Nat
             /\ Capacity!LimitsUnder(m, over)[r] = Capacity!LimitsUnder(k, over)[r]
    <3> DEFINE a == Capacity!required(k)[r]
               b == Capacity!required(m)[r]
               l == Capacity!LimitsUnder(k, over)[r]
    <3>1. a \in Nat /\ b \in Nat /\ a <= b /\ l \in Nat /\ ~(b > l)
      BY <1>1, <2>1, <2>2
    <3> HIDE DEF a, b, l
    <3>2. ~(a > l)
      BY <3>1
    <3>3. QED
      BY <3>2 DEF a, l
  <2>3. CASE r \in DOMAIN over /\ over[r] # None
    BY <2>2, <2>3, LimitsOf
  <2>4. CASE ~(r \in DOMAIN over /\ over[r] # None)
    <3>1. /\ Capacity!LimitsUnder(m, over)[r] = Capacity!currentLimits(m)[r]
          /\ Capacity!LimitsUnder(k, over)[r] = Capacity!currentLimits(k)[r]
      BY <2>4, LimitsOf
    <3>2. CASE r = "reviewToolCalls"
      <4>1. /\ Capacity!required(m)[r] = 8 * m + 3 /\ Capacity!required(k)[r] = 8 * k + 3
        BY <3>2, RequiredOf
      <4>2. /\ Capacity!currentLimits(m)[r] = Capacity!reviewToolLimitForPlan(m)
            /\ Capacity!currentLimits(k)[r] = Capacity!reviewToolLimitForPlan(k)
        BY <3>2, CurrentOf
      <4>3. Capacity!reviewToolLimitForPlan(m) \in Nat
        BY LimitIsNat
      <4>4. ~(8 * m + 3 > Capacity!reviewToolLimitForPlan(m))
        BY <1>1, <3>1, <4>1, <4>2
      <4>5. 8 * m + 3 <= Capacity!reviewToolLimitForPlan(m)
        BY <4>3, <4>4
      <4>6. 8 * k + 3 <= Capacity!reviewToolLimitForPlan(k) /\ Capacity!reviewToolLimitForPlan(k) \in Nat
        BY <4>5, SmallerReview
      <4>7. ~(8 * k + 3 > Capacity!reviewToolLimitForPlan(k))
        BY <4>6
      <4>8. QED
        BY <3>1, <4>1, <4>2, <4>7
    <3>3. CASE r # "reviewToolCalls"
      <4>1. Capacity!currentLimits(m)[r] \in Nat /\ Capacity!currentLimits(m)[r] = Capacity!currentLimits(k)[r]
        BY <3>3, CurrentOf DEF Capacity!Batchable
      <4>2. QED
        BY <2>2, <3>1, <4>1
    <3>4. QED
      BY <3>2, <3>3
  <2>5. QED
    BY <2>3, <2>4
<1>3. QED
  BY <1>2 DEF Capacity!oneBatchFits, Capacity!compare

\* A sum, number by number.
LEMMA SumFirst ==
    ASSUME NEW j \in Nat, j # 0, NEW f, \A i \in 1..j : f[i] \in Nat
    PROVE  Sum(f, 1..j) = Sum(f, 1..(j - 1)) + f[j] /\ Sum(f, 1..(j - 1)) \in Nat
<1>1. IsFiniteSet(1..j) /\ IsFiniteSet(1..(j - 1))
  BY FS_Interval
<1>2. j \in 1..j /\ (1..j) \ {j} = 1..(j - 1)
  OBVIOUS
<1>3. Sum(f, 1..j) = Sum(f, (1..j) \ {j}) + f[j]
  BY <1>1, <1>2, SumRemove
<1>4. \A i \in 1..(j - 1) : f[i] \in Nat
  OBVIOUS
<1>5. Sum(f, 1..(j - 1)) \in Nat
  BY <1>1, <1>4, SumOf
<1>6. QED
  BY <1>2, <1>3, <1>5

\* The calls of the batches are those of their behaviours and three for each.
LEMMA SumCalls ==
    ASSUME NEW q \in Nat, NEW f, \A i \in 1..q : f[i] \in Nat,
           NEW c, \A i \in 1..q : c[i] = 8 * f[i] + 3
    PROVE  Sum(c, 1..q) = 8 * Sum(f, 1..q) + 3 * q
<1> DEFINE Holds(j) == Sum(c, 1..j) = 8 * Sum(f, 1..j) + 3 * j
<1> DEFINE bad == {j \in 0..q : ~Holds(j)}
<1>1. Holds(0)
  <2>1. 1..0 = {}
    OBVIOUS
  <2>2. Sum(c, 1..0) = 0 /\ Sum(f, 1..0) = 0
    BY <2>1, SumEmpty
  <2>3. QED
    BY <2>2
<1>2. ASSUME NEW j \in 1..q, Holds(j - 1) PROVE Holds(j)
  <2>1. j \in Nat /\ j # 0 /\ (\A i \in 1..j : f[i] \in Nat) /\ (\A i \in 1..j : c[i] \in Nat)
    OBVIOUS
  <2>2. Sum(f, 1..j) = Sum(f, 1..(j - 1)) + f[j] /\ Sum(f, 1..(j - 1)) \in Nat
    BY <2>1, SumFirst
  <2>3. Sum(c, 1..j) = Sum(c, 1..(j - 1)) + c[j] /\ Sum(c, 1..(j - 1)) \in Nat
    BY <2>1, SumFirst
  <2>4. f[j] \in Nat /\ c[j] = 8 * f[j] + 3
    OBVIOUS
  <2> DEFINE a == Sum(f, 1..(j - 1))
             b == Sum(c, 1..(j - 1))
  <2>5. a \in Nat /\ b = 8 * a + 3 * (j - 1) /\ Sum(f, 1..j) = a + f[j] /\ Sum(c, 1..j) = b + c[j]
    BY <1>2, <2>2, <2>3
  <2> HIDE DEF a, b
  <2>6. QED
    BY <2>1, <2>4, <2>5
<1>3. ASSUME bad # {} PROVE FALSE
  <2>1. PICK j \in bad : \A i \in bad : j <= i
    <3>1. bad \subseteq Nat
      OBVIOUS
    <3> HIDE DEF bad
    <3>2. QED
      BY <1>3, <3>1, LeastOf
  <2>2. j \in 0..q /\ ~Holds(j) /\ j # 0
    BY <1>1
  <2> HIDE DEF Holds
  <2>3. j \in 1..q /\ j - 1 \in 0..q /\ ~(j <= j - 1)
    BY <2>2
  <2>4. Holds(j - 1)
    BY <2>1, <2>3
  <2>5. QED
    BY <1>2, <2>2, <2>3, <2>4
<1>4. q \in 0..q
  OBVIOUS
<1>5. QED
  BY <1>3, <1>4

\* The batches of a split: as large as they may be but for the last, and all of the plan.
LEMMA SplitOf ==
    ASSUME NEW n \in Nat \ {0}, NEW m \in Nat \ {0}
    PROVE  LET b == Capacity!splitIntoBatches(n, m)
               q == (n + m - 1) \div m
           IN  /\ q \in Nat /\ q <= n /\ DOMAIN b = 1..q /\ Len(b) = q
               /\ \A i \in 1..q : b[i] \in Nat /\ b[i] <= m
               /\ n > m => q > 1
               /\ Sum(b, 1..q) = n
<1> DEFINE b == Capacity!splitIntoBatches(n, m)
           q == (n + m - 1) \div m
<1>1. q \in Nat /\ n <= q * m /\ (q - 1) * m < n
  OBVIOUS
<1>2. b = [i \in 1..q |-> Capacity!Least(m, n - (i - 1) * m)]
  BY DEF Capacity!splitIntoBatches
<1> HIDE DEF b, q
<1>3. q # 0 /\ q <= n /\ (n > m => q > 1)
  <2>1. q # 0
    BY <1>1
  <2>2. q - 1 <= (q - 1) * m
    BY <1>1, <2>1
  <2>3. q <= n
    BY <1>1, <2>1, <2>2
  <2>4. ASSUME n > m PROVE q > 1
    <3>1. q = 1 => q * m = m
      OBVIOUS
    <3>2. q # 1
      BY <1>1, <2>4, <3>1
    <3>3. QED
      BY <1>1, <2>1, <3>2
  <2>5. QED
    BY <2>1, <2>3, <2>4
<1>4. ASSUME NEW i \in 1..q
      PROVE  /\ b[i] \in Nat /\ b[i] <= m
             /\ i # q => b[i] = m
             /\ i = q => b[i] = n - (i - 1) * m
  <2>1. b[i] = Capacity!Least(m, n - (i - 1) * m)
    BY <1>2
  <2>2. i \in Nat /\ (i - 1) * m \in Nat /\ (i - 1) * m <= (q - 1) * m
    BY <1>1
  <2>3. (i - 1) * m < n
    BY <1>1, <2>2
  <2>4. i # q => n - (i - 1) * m > m
    <3>1. ASSUME i # q PROVE n - (i - 1) * m > m
      <4>1. i <= q - 1 /\ i * m <= (q - 1) * m /\ i * m = (i - 1) * m + m
        BY <1>1, <2>2, <3>1
      <4>2. QED
        BY <1>1, <2>2, <4>1
    <3>2. QED
      BY <3>1
  <2>5. i = q => n - (i - 1) * m <= m
    <3>1. q * m = (q - 1) * m + m
      BY <1>1
    <3>2. QED
      BY <1>1, <2>2, <3>1
  <2> DEFINE d == (i - 1) * m
  <2>6. /\ d \in Nat /\ d < n /\ b[i] = Capacity!Least(m, n - d)
        /\ (i # q => n - d > m) /\ (i = q => n - d <= m)
    BY <2>1, <2>2, <2>3, <2>4, <2>5
  <2> HIDE DEF d
  <2>7. b[i] \in Nat /\ b[i] <= m /\ (i # q => b[i] = m) /\ (i = q => b[i] = n - d)
    BY <2>6 DEF Capacity!Least
  <2>8. QED
    BY <2>7 DEF d
<1>5. b \in Seq(Nat) /\ Len(b) = q /\ DOMAIN b = 1..q
  <2>1. b \in [1..q -> Nat]
    <3>1. \A i \in 1..q : b[i] \in Nat
      BY <1>4
    <3>2. QED
      BY <1>2, <3>1
  <2>2. b \in Seq(Nat) /\ DOMAIN b = 1..q
    BY <1>1, <2>1, SeqDef
  <2>3. Len(b) \in Nat /\ DOMAIN b = 1..Len(b)
    BY <2>2, LenProperties
  <2>4. Len(b) = q
    BY <1>1, <2>2, <2>3
  <2>5. QED
    BY <2>2, <2>4
<1>6. Sum(b, 1..q) = n
  <2> DEFINE Holds(j) == Sum(b, 1..j) = IF j = q THEN n ELSE j * m
  <2> DEFINE bad == {j \in 0..q : ~Holds(j)}
  <2>1. Holds(0)
    <3>1. 1..0 = {}
      OBVIOUS
    <3>2. Sum(b, 1..0) = 0
      BY <3>1, SumEmpty
    <3>3. QED
      BY <1>3, <3>2
  <2>2. ASSUME NEW j \in 1..q, Holds(j - 1) PROVE Holds(j)
    <3>1. j \in Nat /\ j # 0 /\ (\A i \in 1..j : b[i] \in Nat) /\ j - 1 # q
      BY <1>1, <1>4
    <3>2. Sum(b, 1..j) = Sum(b, 1..(j - 1)) + b[j]
      BY <3>1, SumFirst
    <3>3. Sum(b, 1..(j - 1)) = (j - 1) * m
      BY <2>2, <3>1
    <3>4. CASE j = q
      <4>1. b[j] = n - (j - 1) * m /\ (j - 1) * m \in Int
        BY <1>4, <3>1, <3>4
      <4>2. QED
        BY <3>2, <3>3, <3>4, <4>1
    <3>5. CASE j # q
      <4>1. b[j] = m /\ (j - 1) * m + m = j * m
        BY <1>4, <3>1, <3>5
      <4>2. QED
        BY <3>2, <3>3, <3>5, <4>1
    <3>6. QED
      BY <3>4, <3>5
  <2>3. ASSUME bad # {} PROVE FALSE
    <3>1. PICK j \in bad : \A i \in bad : j <= i
      <4>1. bad \subseteq Nat
        OBVIOUS
      <4> HIDE DEF bad
      <4>2. QED
        BY <2>3, <4>1, LeastOf
    <3>2. j \in 0..q /\ ~Holds(j) /\ j # 0
      BY <2>1
    <3> HIDE DEF Holds
    <3>3. j \in 1..q /\ j - 1 \in 0..q /\ ~(j <= j - 1)
      BY <1>1, <3>2
    <3>4. Holds(j - 1)
      BY <3>1, <3>3
    <3>5. QED
      BY <2>2, <3>2, <3>3, <3>4
  <2>4. q \in 0..q
    BY <1>1
  <2>5. Holds(q)
    BY <2>3, <2>4
  <2>6. QED
    BY <2>5
<1>7. QED
  BY <1>1, <1>3, <1>4, <1>5, <1>6 DEF b, q

\* The largest batch that fits, if any does.
LEMMA LargestFits ==
    ASSUME NEW over, Capacity!largestBatch(over) # 0
    PROVE  /\ Capacity!largestBatch(over) \in 1..80
           /\ Capacity!oneBatchFits(Capacity!largestBatch(over), over)
           /\ \A k \in 1..80 : Capacity!oneBatchFits(k, over) => k <= Capacity!largestBatch(over)
<1> DEFINE fits == {size \in 1..80 : Capacity!oneBatchFits(size, over)}
           left == {80 - k : k \in fits}
<1>1. Capacity!largestBatch(over) =
         IF fits = {} THEN 0 ELSE CHOOSE n \in fits : \A k \in fits : k <= n
  BY DEF Capacity!largestBatch
<1>2. fits # {}
  BY <1>1
<1>3. left \subseteq Nat /\ left # {}
  BY <1>2
<1>4. PICK x \in left : \A y \in left : x <= y
  <2> HIDE DEF left
  <2> QED
    BY <1>3, LeastOf
<1>5. PICK n \in fits : x = 80 - n
  BY <1>4
<1>6. \A k \in fits : k <= n
  <2>1. ASSUME NEW k \in fits PROVE k <= n
    <3>1. 80 - k \in left /\ k \in 1..80 /\ n \in 1..80
      OBVIOUS
    <3>2. 80 - n <= 80 - k
      BY <1>4, <1>5, <3>1
    <3>3. QED
      BY <3>1, <3>2
  <2>2. QED
    BY <2>1
<1> HIDE DEF left
<1>7. \E m \in fits : \A k \in fits : k <= m
  BY <1>5, <1>6
<1> DEFINE most == CHOOSE m \in fits : \A k \in fits : k <= m
<1>8. most \in fits /\ \A k \in fits : k <= most
  <2> HIDE DEF fits
  <2> QED
    BY <1>7
<1>9. Capacity!largestBatch(over) = most
  BY <1>1, <1>2
<1> HIDE DEF most
<1>10. QED
  BY <1>8, <1>9

\* What a recommended split says.
Assessment(n, over) ==
    [verdict |-> Capacity!Verdict(Capacity!compare(n, over), Capacity!largestBatch(over)),
     batches |-> IF Capacity!largestBatch(over) = 0 THEN <<>>
                 ELSE Capacity!splitIntoBatches(n, Capacity!largestBatch(over))]
CapacityInv ==
    /\ planned \in 1..PlannedMost
    /\ DOMAIN lowered \subseteq Capacity!Batchable
    /\ \A r \in DOMAIN lowered : lowered[r] \in Nat \union {None}
    /\ assessment \in {None, Assessment(planned, lowered)}

\* No plan is assessed at first, and the one step that there is assesses it.
LEMMA InitCapacity == Capacity!Init => CapacityInv
<1> SUFFICES ASSUME Capacity!Init PROVE CapacityInv
  OBVIOUS
<1>1. PICK r \in Capacity!Batchable : lowered \in [{r} -> LoweredLimits]
  BY DEF Capacity!Init
<1>2. QED
  BY <1>1, CapacityAssumption DEF Capacity!Init, CapacityInv
LEMMA NextCapacity == CapacityInv /\ Capacity!Next => CapacityInv'
BY DEF CapacityInv, Assessment, Capacity!Next, Capacity!preflightCapacity

\* What the run may spend on all of it, and what the whole plan must fit.
LEMMA RunSuffices ==
    ASSUME NEW n \in Nat, n <= 80, NEW q \in Nat, q <= n
    PROVE  12 + 64 + (8 * n + 3 * q) <= Capacity!generationToolLimitForPlan(n)
<1>1. Capacity!reviewToolLimitForPlan(n) \in Nat /\ Capacity!reviewToolLimitForPlan(n) >= 280
  BY DEF Capacity!reviewToolLimitForPlan, Capacity!Greatest, Capacity!Least,
         Capacity!CallsPerBehavior
<1>2. Capacity!generationToolLimitForPlan(n) \in Nat /\ Capacity!generationToolLimitForPlan(n) >= 1092
  BY <1>1 DEF Capacity!generationToolLimitForPlan, Capacity!Greatest, Capacity!Least
<1>3. 12 + 64 + (8 * n + 3 * q) <= 1092
  OBVIOUS
<1>4. QED
  BY <1>2, <1>3

\* A split that the assessment recommends can be carried out.
LEMMA CapacityProperty == CapacityInv => Capacity!SplitCanRun /\ Capacity!CapacityTypeOK
<1> SUFFICES ASSUME CapacityInv PROVE Capacity!SplitCanRun /\ Capacity!CapacityTypeOK
  OBVIOUS
<1> DEFINE most == Capacity!largestBatch(lowered)
           over == Capacity!compare(planned, lowered)
           b == Capacity!splitIntoBatches(planned, most)
           q == (planned + most - 1) \div most
           spent == [i \in DOMAIN b |-> Capacity!required(b[i]).reviewToolCalls]
<1>1. planned \in Nat \ {0}
  BY CapacityAssumption DEF CapacityInv
<1>2. ASSUME assessment # None, assessment.verdict = "batch"
      PROVE  /\ Capacity!Total(assessment.batches) = planned /\ Len(assessment.batches) > 1
             /\ \A i \in DOMAIN assessment.batches : Capacity!oneBatchFits(assessment.batches[i], lowered)
             /\ Capacity!required(planned).planBytes <= Capacity!currentLimits(planned).planBytes
             /\ Capacity!Cost.coordinator + Capacity!Cost.builder
                  + Capacity!Total([i \in DOMAIN assessment.batches |->
                                      Capacity!required(assessment.batches[i]).reviewToolCalls])
                  <= Capacity!generationToolLimitForPlan(planned)
  <2>1. assessment = Assessment(planned, lowered)
    BY <1>2 DEF CapacityInv
  <2>2. Capacity!Verdict(over, most) = "batch"
    BY <1>2, <2>1 DEF Assessment
  <2>3. over # {} /\ over \cap Capacity!PlanWide = {} /\ most # 0
    BY <2>2 DEF Capacity!Verdict
  <2>4. assessment.batches = b
    BY <2>1, <2>3 DEF Assessment
  <2>5. /\ most \in 1..80 /\ Capacity!oneBatchFits(most, lowered)
        /\ \A k \in 1..80 : Capacity!oneBatchFits(k, lowered) => k <= most
    BY <2>3, LargestFits
  <2>6. \A r \in Capacity!PlanWide :
           ~(Capacity!required(planned)[r] > Capacity!currentLimits(planned)[r])
    <3>1. ASSUME NEW r \in Capacity!PlanWide
          PROVE  ~(Capacity!required(planned)[r] > Capacity!currentLimits(planned)[r])
      <4>1. r \notin over
        BY <2>3
      <4>2. ~(Capacity!required(planned)[r] > Capacity!LimitsUnder(planned, lowered)[r])
        BY <4>1 DEF Capacity!compare
      <4>3. Capacity!LimitsUnder(planned, lowered)[r] = Capacity!currentLimits(planned)[r]
        BY <1>1, LimitsOf DEF CapacityInv
      <4>4. QED
        BY <4>2, <4>3
    <3>2. QED
      BY <3>1
  <2>7. planned <= 80
    <3>1. ~(Capacity!required(planned)["planBehaviours"] > Capacity!currentLimits(planned)["planBehaviours"])
      BY <2>6 DEF Capacity!PlanWide
    <3>2. Capacity!required(planned)["planBehaviours"] = planned
      BY <1>1, RequiredOf
    <3>3. Capacity!currentLimits(planned)["planBehaviours"] = 80
      BY <1>1, CurrentOf
    <3>4. ~(planned > 80)
      BY <3>1, <3>2, <3>3
    <3>5. QED
      BY <1>1, <3>4
  <2>8. Capacity!required(planned).planBytes <= Capacity!currentLimits(planned).planBytes
    <3>1. ~(Capacity!required(planned)["planBytes"] > Capacity!currentLimits(planned)["planBytes"])
      BY <2>6 DEF Capacity!PlanWide
    <3>2. Capacity!required(planned)["planBytes"] = (3 * (412 + planned * 794) + 1) \div 2
      BY <1>1, RequiredOf
    <3>3. Capacity!currentLimits(planned)["planBytes"] = 98304
      BY DEF Capacity!currentLimits
    <3>4. 412 + planned * 794 \in Nat
      BY <1>1
    <3>5. (3 * (412 + planned * 794) + 1) \div 2 \in Nat
      BY <3>4, Halves
    <3>6. Capacity!required(planned)["planBytes"] <= Capacity!currentLimits(planned)["planBytes"]
      BY <3>1, <3>2, <3>3, <3>5
    <3>7. QED
      BY <3>6
  <2>9. planned > most
    <3>1. ~Capacity!oneBatchFits(planned, lowered)
      BY <2>3 DEF Capacity!oneBatchFits, Capacity!compare
    <3>2. \A r \in DOMAIN lowered : lowered[r] \in Nat \union {None}
      BY DEF CapacityInv
    <3>3. most \in Nat /\ planned \in Nat
      BY <1>1, <2>5
    <3>4. Capacity!oneBatchFits(most, lowered)
      BY <2>5
    <3> HIDE DEF most
    <3>5. ~(planned <= most)
      BY <3>1, <3>2, <3>3, <3>4, SmallerFits
    <3>6. QED
      BY <3>3, <3>5
  <2>10. /\ q \in Nat /\ q <= planned /\ DOMAIN b = 1..q /\ Len(b) = q /\ q > 1
         /\ \A i \in 1..q : b[i] \in Nat /\ b[i] <= most
         /\ Sum(b, 1..q) = planned
    <3>1. most \in Nat \ {0}
      BY <2>5
    <3> HIDE DEF most
    <3>2. QED
      BY <1>1, <2>9, <3>1, SplitOf
  <2>11. IsFiniteSet(1..q)
    BY <2>10, FS_Interval
  <2> HIDE DEF b, q, most, over
  <2>12. Capacity!Total(b) = planned
    BY <2>10, <2>11, CapacitySum
  <2>13. \A i \in 1..q : Capacity!oneBatchFits(b[i], lowered)
    BY <2>5, <2>10, SmallerFits DEF CapacityInv
  <2>14. DOMAIN spent = 1..q /\ \A i \in 1..q : spent[i] = 8 * b[i] + 3
    <3>1. ASSUME NEW i \in 1..q PROVE spent[i] = 8 * b[i] + 3
      <4>1. b[i] \in Nat
        BY <2>10
      <4> HIDE DEF spent
      <4>2. \A k \in Nat : Capacity!required(k)["reviewToolCalls"] = 8 * k + 3
        BY RequiredOf
      <4>3. Capacity!required(b[i])["reviewToolCalls"] = 8 * b[i] + 3
        BY <4>1, <4>2
      <4>4. QED
        BY <2>10, <4>3 DEF spent
    <3>2. QED
      BY <2>10, <3>1
  <2> HIDE DEF spent
  <2>15. Sum(spent, 1..q) = 8 * planned + 3 * q
    BY <2>10, <2>14, SumCalls
  <2>16. \A i \in 1..q : spent[i] \in Nat
    BY <2>10, <2>14
  <2>17. Capacity!Total(spent) = 8 * planned + 3 * q
    BY <2>11, <2>14, <2>15, <2>16, CapacitySum
  <2>18. 12 + 64 + (8 * planned + 3 * q) <= Capacity!generationToolLimitForPlan(planned)
    BY <1>1, <2>7, <2>10, RunSuffices
  <2>19. Capacity!Cost.coordinator = 12 /\ Capacity!Cost.builder = 64
    BY DEF Capacity!Cost
  <2>20. Capacity!Cost.coordinator + Capacity!Cost.builder + Capacity!Total(spent)
           <= Capacity!generationToolLimitForPlan(planned)
    BY <2>17, <2>18, <2>19
  <2>21. QED
    BY <2>4, <2>8, <2>10, <2>12, <2>13, <2>20 DEF spent
<1>3. Capacity!SplitCanRun
  BY <1>2 DEF Capacity!SplitCanRun
<1>4. Capacity!CapacityTypeOK
  <2>1. Capacity!Verdict(over, most) \in {"ok", "batch", "refuse"}
    BY DEF Capacity!Verdict
  <2>2. QED
    BY <2>1 DEF CapacityInv, Assessment, Capacity!CapacityTypeOK
<1>5. QED
  BY <1>3, <1>4

-----------------------------------------------------------------------------
(* CheckpointSummary: what the note of a behaviour takes.                    *)

\* What is written of each step and of each observation, and of all before a phase.
StepTexts(what) == [i \in DOMAIN what.steps |-> NoteFrame + what.steps[i]]
EventTexts(noticed) == [i \in DOMAIN noticed |-> noticed[i].action + noticed[i].batch]
Heading(what, linked) == linked + what.actual + what.expected
AfterSteps(what, linked) == Heading(what, linked) + Sum(StepTexts(what), 1..Len(what.steps))
AfterEvents(what, noticed, linked) == AfterSteps(what, linked) + Sum(EventTexts(noticed), 1..Len(noticed))

NoteTypes ==
    /\ summaryItem \in [actual : Nat, expected : Nat, key : Nat, steps : Seq(Nat)]
    /\ summaryEvents \in Seq([action : Nat, batch : Nat])
    /\ base \in Nat /\ bytes \in Nat /\ index \in Nat
    /\ truncated \in BOOLEAN
    /\ summaryPhase \in {"actual", "expected", "steps", "events", "batch", "keys", "end"}
    /\ summaryOutcome \in {"none", "written", "refused"}
\* Nothing that is not marked is missing.
NoteWhole ==
    /\ summaryPhase = "actual" => truncated \/ bytes = base
    /\ summaryPhase = "expected" => truncated \/ bytes = base + summaryItem.actual
    /\ summaryPhase = "steps" =>
          /\ index \in 1..(Len(summaryItem.steps) + 1)
          /\ \/ truncated
             \/ bytes = Heading(summaryItem, base) + Sum(StepTexts(summaryItem), 1..(index - 1))
    /\ summaryPhase = "events" =>
          /\ index \in 1..(Len(summaryEvents) + 1)
          /\ \/ truncated
             \/ bytes = AfterSteps(summaryItem, base) + Sum(EventTexts(summaryEvents), 1..(index - 1))
    /\ summaryPhase = "batch" =>
          /\ index \in 1..Len(summaryEvents)
          /\ \/ truncated
             \/ bytes = AfterSteps(summaryItem, base) + Sum(EventTexts(summaryEvents), 1..(index - 1))
                          + summaryEvents[index].action
    /\ summaryPhase = "keys" => truncated \/ bytes = AfterEvents(summaryItem, summaryEvents, base)
    /\ summaryPhase = "end" =>
          truncated \/ bytes = AfterEvents(summaryItem, summaryEvents, base) + summaryItem.key
NoteInv ==
    /\ NoteTypes /\ NoteWhole
    /\ base <= NoteBytes => bytes <= NoteBytes
    /\ summaryOutcome # "none" => summaryPhase = "end"
    /\ summaryOutcome = "refused" => bytes > NoteBytes
    /\ summaryOutcome = "written" => ~(bytes > NoteBytes)

\* Numbers up to one, the least of three, and one number more of a sum.
LEMMA NumbersFinite == ASSUME NEW n \in Nat PROVE IsFiniteSet(1..n)
BY FS_Interval
LEMMA LeastOfThree ==
    ASSUME NEW a \in Nat, NEW b \in Nat, NEW c \in Nat
    PROVE  /\ Summary!Least({a, b, c}) \in Nat
           /\ Summary!Least({a, b, c}) <= a /\ Summary!Least({a, b, c}) <= c
<1>1. {a, b, c} \subseteq Nat /\ {a, b, c} # {}
  OBVIOUS
<1>2. \E n \in {a, b, c} : \A m \in {a, b, c} : n <= m
  BY <1>1, LeastOf
<1>3. /\ Summary!Least({a, b, c}) \in {a, b, c}
      /\ \A m \in {a, b, c} : Summary!Least({a, b, c}) <= m
  BY <1>2 DEF Summary!Least
<1>4. QED
  BY <1>3
\* A text that is cut is marked, and none goes beyond the limit.
LEMMA TextFits ==
    ASSUME NoteInv, NEW text \in Nat, NEW most \in Nat, Summary!addText(text, most), UNCHANGED base
    PROVE  /\ bytes' \in Nat /\ truncated' \in BOOLEAN /\ (truncated' \/ (~truncated /\ bytes' = bytes + text))
           /\ base <= NoteBytes => bytes' <= NoteBytes
<1> DEFINE left == Summary!Left
           fits == Summary!Least({text, most, left})
<1>1. bytes \in Nat /\ base \in Nat /\ NoteBytes \in Nat /\ truncated \in BOOLEAN
  BY NoteAssumption DEF NoteInv, NoteTypes
<1>2. left = IF bytes > NoteBytes THEN 0 ELSE NoteBytes - bytes
  BY DEF Summary!Left
<1>3. left \in Nat /\ (bytes <= NoteBytes => bytes + left <= NoteBytes)
  <2> HIDE DEF left
  <2> QED
    BY <1>1, <1>2
<1> HIDE DEF left
<1>4. fits \in Nat /\ fits <= text /\ fits <= left
  BY <1>3, LeastOfThree
<1>5. bytes' = bytes + fits /\ truncated' = (truncated \/ fits < text)
  BY DEF Summary!addText, left
<1> HIDE DEF fits
<1>6. bytes' \in Nat /\ truncated' \in BOOLEAN
  BY <1>1, <1>4, <1>5
<1>7. truncated' \/ (~truncated /\ bytes' = bytes + text)
  <2>1. CASE fits < text
    BY <1>5, <2>1
  <2>2. CASE ~(fits < text)
    <3>1. fits = text
      BY <1>4, <2>2
    <3>2. CASE truncated
      BY <1>5, <3>2
    <3>3. CASE ~truncated
      BY <1>5, <3>1, <3>3
    <3>4. QED
      BY <3>2, <3>3
  <2>3. QED
    BY <2>1, <2>2
<1>8. base <= NoteBytes => bytes' <= NoteBytes
  BY <1>1, <1>3, <1>4, <1>5 DEF NoteInv
<1>9. QED
  BY <1>6, <1>7, <1>8
\* The sums count on.
LEMMA NoteSums ==
    ASSUME NoteTypes
    PROVE  /\ StepTexts(summaryItem) \in [1..Len(summaryItem.steps) -> Nat]
           /\ \A i \in 1..Len(summaryItem.steps) :
                 StepTexts(summaryItem)[i] = NoteFrame + summaryItem.steps[i]
           /\ EventTexts(summaryEvents) \in [1..Len(summaryEvents) -> Nat]
           /\ \A i \in 1..Len(summaryEvents) :
                 /\ summaryEvents[i].action \in Nat /\ summaryEvents[i].batch \in Nat
                 /\ EventTexts(summaryEvents)[i] = summaryEvents[i].action + summaryEvents[i].batch
           /\ Sum(StepTexts(summaryItem), 1..0) = 0 /\ Sum(EventTexts(summaryEvents), 1..0) = 0
           /\ Len(summaryItem.steps) \in Nat /\ Len(summaryEvents) \in Nat
<1>1. summaryItem.steps \in Seq(Nat) /\ summaryEvents \in Seq([action : Nat, batch : Nat])
  BY DEF NoteTypes
<1>2. 1..0 = {}
  OBVIOUS
<1>3. Sum(StepTexts(summaryItem), 1..0) = 0 /\ Sum(EventTexts(summaryEvents), 1..0) = 0
  BY <1>2, SumEmpty
<1>4. StepTexts(summaryItem) \in [1..Len(summaryItem.steps) -> Nat]
  BY <1>1, NoteAssumption DEF StepTexts
<1>5. ASSUME NEW i \in 1..Len(summaryEvents)
      PROVE  /\ summaryEvents[i].action \in Nat /\ summaryEvents[i].batch \in Nat
             /\ EventTexts(summaryEvents)[i] = summaryEvents[i].action + summaryEvents[i].batch
             /\ EventTexts(summaryEvents)[i] \in Nat
  <2>1. summaryEvents[i] \in [action : Nat, batch : Nat]
    BY <1>1, ElementOfSeq
  <2>2. EventTexts(summaryEvents)[i] = summaryEvents[i].action + summaryEvents[i].batch
    BY <1>1, LenProperties DEF EventTexts
  <2>3. summaryEvents[i].action \in Nat /\ summaryEvents[i].batch \in Nat
    BY <2>1
  <2>4. QED
    BY <2>2, <2>3
<1>6. EventTexts(summaryEvents) \in [1..Len(summaryEvents) -> Nat]
  <2>1. DOMAIN EventTexts(summaryEvents) = 1..Len(summaryEvents)
    BY <1>1, LenProperties DEF EventTexts
  <2>2. EventTexts(summaryEvents) = [i \in DOMAIN EventTexts(summaryEvents) |-> EventTexts(summaryEvents)[i]]
    BY DEF EventTexts
  <2>3. QED
    BY <1>5, <2>1, <2>2
<1>7. \A i \in 1..Len(summaryItem.steps) : StepTexts(summaryItem)[i] = NoteFrame + summaryItem.steps[i]
  BY <1>1 DEF StepTexts
<1>8. Len(summaryItem.steps) \in Nat /\ Len(summaryEvents) \in Nat
  BY <1>1
<1>9. QED
  BY <1>3, <1>4, <1>5, <1>6, <1>7, <1>8
LEMMA NoteSumStep ==
    ASSUME NEW f, NEW n \in Nat, f \in [1..n -> Nat], NEW i \in 1..n
    PROVE  /\ Sum(f, 1..((i + 1) - 1)) = Sum(f, 1..(i - 1)) + f[i]
           /\ Sum(f, 1..(i - 1)) \in Nat /\ f[i] \in Nat
<1>1. i \in Nat /\ i # 0 /\ \A k \in 1..i : f[k] \in Nat
  OBVIOUS
<1>2. Sum(f, 1..i) = Sum(f, 1..(i - 1)) + f[i] /\ Sum(f, 1..(i - 1)) \in Nat
  BY <1>1, SumFirst
<1>3. (i + 1) - 1 = i /\ f[i] \in Nat
  OBVIOUS
<1>4. QED
  BY <1>2, <1>3

\* What a note takes is a number.
LEMMA HeadingType ==
    NoteTypes => /\ Heading(summaryItem, base) \in Nat
                 /\ summaryItem.actual \in Nat /\ summaryItem.expected \in Nat /\ summaryItem.key \in Nat
BY DEF NoteTypes, Heading

\* Nothing is written at first.
LEMMA InitNote == Summary!Init => NoteInv
<1> SUFFICES ASSUME Summary!Init PROVE NoteInv
  OBVIOUS
<1>1. NoteLengths \subseteq Nat /\ NoteReferences \subseteq Nat
  BY NoteAssumption
<1>2. PICK n \in 0..NoteEvents : summaryEvents \in [1..n -> [action : NoteLengths, batch : NoteLengths]]
  BY DEF Summary!Init
<1>3. n \in Nat
  BY NoteAssumption
<1>4. summaryEvents \in Seq([action : Nat, batch : Nat])
  <2>1. summaryEvents \in [1..n -> [action : Nat, batch : Nat]]
    BY <1>1, <1>2
  <2>2. QED
    BY <1>3, <2>1, SeqDef
<1>5. /\ summaryItem = [actual |-> summaryItem.actual, expected |-> summaryItem.expected,
                       key |-> summaryItem.key, steps |-> summaryItem.steps]
      /\ summaryItem.actual \in Nat /\ summaryItem.expected \in Nat /\ summaryItem.key \in Nat
      /\ \E m \in 0..NoteSteps : summaryItem.steps \in [1..m -> NoteLengths]
  BY <1>1 DEF Summary!Init
<1>6. PICK m \in 0..NoteSteps : summaryItem.steps \in [1..m -> NoteLengths]
  BY <1>5
<1>7. summaryItem.steps \in Seq(Nat)
  <2>1. summaryItem.steps \in [1..m -> Nat]
    BY <1>1, <1>6
  <2>2. m \in Nat
    BY NoteAssumption
  <2>3. QED
    BY <2>1, <2>2, SeqDef
<1>8. NoteTypes
  BY <1>1, <1>4, <1>5, <1>7 DEF Summary!Init, NoteTypes
<1>9. QED
  BY <1>8 DEF Summary!Init, NoteInv, NoteWhole

\* What is counted does not change while it is written.
LEMMA SameNote ==
    ASSUME NoteTypes, UNCHANGED <<summaryItem, summaryEvents, base>>
    PROVE  /\ Heading(summaryItem, base)' = Heading(summaryItem, base)
           /\ AfterSteps(summaryItem, base)' = AfterSteps(summaryItem, base)
           /\ AfterEvents(summaryItem, summaryEvents, base)' = AfterEvents(summaryItem, summaryEvents, base)
           /\ StepTexts(summaryItem)' = StepTexts(summaryItem)
           /\ EventTexts(summaryEvents)' = EventTexts(summaryEvents)
BY DEF Heading, AfterSteps, AfterEvents, StepTexts, EventTexts

\* What was seen and what was expected is written, or cut and marked.
LEMMA ActualKept == ASSUME NoteInv, Summary!Actual PROVE NoteInv'
<1>1. /\ NoteTypes /\ UNCHANGED <<summaryItem, summaryEvents, base, summaryOutcome, index>>
      /\ summaryPhase = "actual" /\ summaryPhase' = "expected" /\ Summary!addText(summaryItem.actual, 3)
  BY DEF NoteInv, Summary!Actual, Summary!Keep
<1>2. summaryItem.actual \in Nat
  BY <1>1, HeadingType
<1>3. /\ bytes' \in Nat /\ truncated' \in BOOLEAN
      /\ (truncated' \/ (~truncated /\ bytes' = bytes + summaryItem.actual))
      /\ base <= NoteBytes => bytes' <= NoteBytes
  BY <1>1, <1>2, TextFits
<1>4. NoteTypes'
  BY <1>1, <1>3 DEF NoteTypes
<1>5. NoteWhole'
  BY <1>1, <1>3 DEF NoteInv, NoteWhole
<1>6. QED
  BY <1>1, <1>3, <1>4, <1>5 DEF NoteInv

LEMMA ExpectedKept == ASSUME NoteInv, Summary!Expected PROVE NoteInv'
<1>1. /\ NoteTypes /\ UNCHANGED <<summaryItem, summaryEvents, base, summaryOutcome>> /\ index' = 1
      /\ summaryPhase = "expected" /\ summaryPhase' = "steps" /\ Summary!addText(summaryItem.expected, 2)
  BY DEF NoteInv, Summary!Expected, Summary!Keep
<1>2. summaryItem.expected \in Nat
  BY <1>1, HeadingType
<1>3. /\ bytes' \in Nat /\ truncated' \in BOOLEAN
      /\ (truncated' \/ (~truncated /\ bytes' = bytes + summaryItem.expected))
      /\ base <= NoteBytes => bytes' <= NoteBytes
  BY <1>1, <1>2, TextFits
<1>4. NoteTypes'
  BY <1>1, <1>3 DEF NoteTypes
<1>5. /\ Sum(StepTexts(summaryItem), 1..(1 - 1)) = 0 /\ 1 \in 1..(Len(summaryItem.steps) + 1)
  <2>1. 1..(1 - 1) = 1..0
    OBVIOUS
  <2>2. QED
    BY <1>1, <2>1, NoteSums
<1>6. truncated' \/ bytes' = Heading(summaryItem, base)
  BY <1>1, <1>3 DEF NoteInv, NoteWhole, Heading
<1>7. truncated' \/ bytes' = Heading(summaryItem, base) + Sum(StepTexts(summaryItem), 1..(1 - 1))
  BY <1>1, <1>5, <1>6, HeadingType
<1>8. NoteWhole'
  BY <1>1, <1>5, <1>7, SameNote DEF NoteWhole
<1>9. QED
  BY <1>1, <1>3, <1>4, <1>8 DEF NoteInv

\* The keys of the artifacts come last.
LEMMA KeysKept == ASSUME NoteInv, Summary!ArtifactKeys PROVE NoteInv'
<1>1. /\ NoteTypes /\ UNCHANGED <<summaryItem, summaryEvents, base, summaryOutcome, index>>
      /\ summaryPhase = "keys" /\ summaryPhase' = "end" /\ Summary!addText(summaryItem.key, 2)
  BY DEF NoteInv, Summary!ArtifactKeys, Summary!Keep
<1>2. summaryItem.key \in Nat
  BY <1>1, HeadingType
<1>3. /\ bytes' \in Nat /\ truncated' \in BOOLEAN
      /\ (truncated' \/ (~truncated /\ bytes' = bytes + summaryItem.key))
      /\ base <= NoteBytes => bytes' <= NoteBytes
  BY <1>1, <1>2, TextFits
<1>4. NoteTypes'
  BY <1>1, <1>3 DEF NoteTypes
<1>5. NoteWhole'
  BY <1>1, <1>3, SameNote DEF NoteInv, NoteWhole
<1>6. QED
  BY <1>1, <1>3, <1>4, <1>5 DEF NoteInv

\* A step of the reproduction, or the end of them.
LEMMA StepKept == ASSUME NoteInv, Summary!ReproStep PROVE NoteInv'
<1> DEFINE count == Len(summaryItem.steps)
           rendered == StepTexts(summaryItem)
           heading == Heading(summaryItem, base)
<1>1. /\ NoteTypes /\ UNCHANGED <<summaryItem, summaryEvents, base, summaryOutcome>>
      /\ summaryPhase = "steps" /\ count \in Nat /\ index \in 1..(count + 1) /\ index \in Nat
      /\ rendered \in [1..count -> Nat] /\ heading \in Nat
      /\ \A i \in 1..count : rendered[i] = NoteFrame + summaryItem.steps[i]
      /\ truncated \/ bytes = heading + Sum(rendered, 1..(index - 1))
  BY NoteSums, HeadingType DEF NoteInv, NoteWhole, Summary!ReproStep, Summary!Keep
<1>2. /\ bytes \in Nat /\ base \in Nat /\ NoteBytes \in Nat /\ NoteFrame \in Nat /\ truncated \in BOOLEAN
      /\ base <= NoteBytes => bytes <= NoteBytes
  BY <1>1, NoteAssumption DEF NoteTypes, NoteInv
<1>3. 1 \in 1..(Len(summaryEvents) + 1) /\ Sum(EventTexts(summaryEvents), 1..(1 - 1)) = 0
  <2>1. 1..(1 - 1) = 1..0
    OBVIOUS
  <2>2. QED
    BY <1>1, <2>1, NoteSums
<1>4. AfterSteps(summaryItem, base) = heading + Sum(rendered, 1..count) /\ Sum(rendered, 1..count) \in Nat
  <2> HIDE DEF count, rendered
  <2>1. IsFiniteSet(1..count)
    BY <1>1, NumbersFinite
  <2>2. Sum(rendered, 1..count) \in Nat
    BY <1>1, <2>1, SumOf
  <2>3. QED
    BY <2>2 DEF AfterSteps, count, rendered
<1> HIDE DEF rendered, heading
<1>5. CASE /\ index > count /\ summaryPhase' = "events" /\ index' = 1 /\ UNCHANGED <<bytes, truncated>>
  <2>1. NoteTypes'
    BY <1>1, <1>5 DEF NoteTypes
  <2>2. index - 1 = count
    BY <1>1, <1>5
  <2>3. truncated \/ bytes = AfterSteps(summaryItem, base) + Sum(EventTexts(summaryEvents), 1..(1 - 1))
    BY <1>1, <1>3, <1>4, <2>2
  <2>4. NoteWhole'
    BY <1>1, <1>3, <1>5, <2>3, SameNote DEF NoteWhole
  <2>5. QED
    BY <1>1, <1>2, <1>5, <2>1, <2>4 DEF NoteInv
<1>6. CASE /\ summaryPhase' = "events" /\ index' = 1 /\ truncated' = TRUE /\ UNCHANGED bytes
  <2>1. NoteTypes'
    BY <1>1, <1>6 DEF NoteTypes
  <2>2. NoteWhole'
    BY <1>1, <1>3, <1>6 DEF NoteWhole
  <2>3. QED
    BY <1>1, <1>2, <1>6, <2>1, <2>2 DEF NoteInv
<1>7. CASE /\ index <= count /\ Summary!Left >= NoteFrame
           /\ bytes' = bytes + NoteFrame
                 + Summary!Least({summaryItem.steps[index], 2, Summary!Left - NoteFrame})
           /\ truncated' = (truncated \/ Summary!Least({summaryItem.steps[index], 2, Summary!Left - NoteFrame})
                                             < summaryItem.steps[index])
           /\ index' = index + 1 /\ UNCHANGED summaryPhase
  <2> DEFINE text == summaryItem.steps[index]
             left == Summary!Left
             fits == Summary!Least({text, 2, left - NoteFrame})
  <2>1. index \in 1..count /\ text \in Nat
    <3>1. index \in 1..count
      BY <1>1, <1>7
    <3>2. summaryItem.steps \in Seq(Nat)
      BY <1>1 DEF NoteTypes
    <3>3. QED
      BY <3>1, <3>2, ElementOfSeq
  <2>2. left = IF bytes > NoteBytes THEN 0 ELSE NoteBytes - bytes
    BY DEF Summary!Left
  <2>3. left \in Nat /\ (bytes <= NoteBytes => bytes + left <= NoteBytes) /\ left >= NoteFrame
    <3>1. left >= NoteFrame
      BY <1>7
    <3> HIDE DEF left
    <3>2. QED
      BY <1>2, <2>2, <3>1
  <2> HIDE DEF left, text
  <2>4. left - NoteFrame \in Nat
    BY <1>2, <2>3
  <2>5. fits \in Nat /\ fits <= text /\ fits <= left - NoteFrame
    BY <2>1, <2>4, LeastOfThree
  <2>6. bytes' = bytes + NoteFrame + fits /\ truncated' = (truncated \/ fits < text)
    BY <1>7 DEF left, text
  <2> HIDE DEF fits
  <2>7. bytes' \in Nat /\ truncated' \in BOOLEAN /\ (base <= NoteBytes => bytes' <= NoteBytes)
    <3>1. bytes' \in Nat /\ (base <= NoteBytes => bytes' <= NoteBytes)
      BY <1>2, <2>3, <2>5, <2>6
    <3>2. QED
      BY <2>6, <3>1
  <2>8. /\ Sum(rendered, 1..((index + 1) - 1)) = Sum(rendered, 1..(index - 1)) + rendered[index]
        /\ Sum(rendered, 1..(index - 1)) \in Nat
    BY <1>1, <2>1, NoteSumStep
  <2>9. rendered[index] = NoteFrame + text
    BY <1>1, <2>1 DEF text
  <2>10. truncated' \/ bytes' = heading + Sum(rendered, 1..((index + 1) - 1))
    <3>1. CASE truncated \/ fits < text
      BY <2>6, <3>1
    <3>2. CASE ~(truncated \/ fits < text)
      <4>1. fits = text /\ bytes = heading + Sum(rendered, 1..(index - 1))
        BY <1>1, <2>1, <2>5, <3>2
      <4>2. bytes' = bytes + NoteFrame + text
        BY <2>6, <4>1
      <4>3. QED
        BY <1>1, <1>2, <2>1, <2>8, <2>9, <4>1, <4>2
    <3>3. QED
      BY <3>1, <3>2
  <2>11. NoteTypes'
    BY <1>1, <1>7, <2>7 DEF NoteTypes
  <2>12. index + 1 \in 1..(count + 1)
    BY <1>1, <2>1
  <2>13. NoteWhole'
    BY <1>1, <1>7, <2>10, <2>12, SameNote DEF NoteWhole, rendered, heading
  <2>14. QED
    BY <1>1, <1>2, <2>7, <2>11, <2>13 DEF NoteInv
<1>8. QED
  BY <1>5, <1>6, <1>7 DEF Summary!ReproStep

\* An observation, or the end of them.
LEMMA ObservationKept == ASSUME NoteInv, Summary!Observation PROVE NoteInv'
<1> DEFINE count == Len(summaryEvents)
           rendered == EventTexts(summaryEvents)
           heading == AfterSteps(summaryItem, base)
<1>1. /\ NoteTypes /\ UNCHANGED <<summaryItem, summaryEvents, base, summaryOutcome, index>>
      /\ summaryPhase = "events" /\ count \in Nat /\ index \in 1..(count + 1) /\ index \in Nat
      /\ truncated \/ bytes = heading + Sum(rendered, 1..(index - 1))
  BY NoteSums DEF NoteInv, NoteWhole, Summary!Observation, Summary!Keep
<1>2. /\ bytes \in Nat /\ base \in Nat /\ NoteBytes \in Nat /\ truncated \in BOOLEAN
      /\ base <= NoteBytes => bytes <= NoteBytes
  BY <1>1, NoteAssumption DEF NoteTypes, NoteInv
<1>3. CASE index > count /\ summaryPhase' = "keys" /\ UNCHANGED <<bytes, truncated>>
  <2>1. NoteTypes'
    BY <1>1, <1>3 DEF NoteTypes
  <2>2. index - 1 = count
    BY <1>1, <1>3
  <2>3. truncated \/ bytes = AfterEvents(summaryItem, summaryEvents, base)
    BY <1>1, <2>2 DEF AfterEvents
  <2>4. NoteWhole'
    BY <1>1, <1>3, <2>3, SameNote DEF NoteWhole
  <2>5. QED
    BY <1>1, <1>2, <1>3, <2>1, <2>4 DEF NoteInv
<1>4. CASE summaryPhase' = "keys" /\ truncated' = TRUE /\ UNCHANGED bytes
  <2>1. NoteTypes'
    BY <1>1, <1>4 DEF NoteTypes
  <2>2. NoteWhole'
    BY <1>1, <1>4 DEF NoteWhole
  <2>3. QED
    BY <1>1, <1>2, <1>4, <2>1, <2>2 DEF NoteInv
<1>5. CASE /\ index <= count /\ summaryPhase' = "batch"
           /\ Summary!addText(summaryEvents[index].action, 2)
  <2>1. index \in 1..count
    BY <1>1, <1>5
  <2>2. summaryEvents[index].action \in Nat
    BY <1>1, <2>1, NoteSums
  <2>3. /\ bytes' \in Nat /\ truncated' \in BOOLEAN
        /\ (truncated' \/ (~truncated /\ bytes' = bytes + summaryEvents[index].action))
        /\ base <= NoteBytes => bytes' <= NoteBytes
    BY <1>1, <1>5, <2>2, TextFits
  <2>4. NoteTypes'
    BY <1>1, <1>5, <2>3 DEF NoteTypes
  <2>5. NoteWhole'
    BY <1>1, <1>5, <2>1, <2>3, SameNote DEF NoteWhole
  <2>6. QED
    BY <1>1, <1>5, <2>3, <2>4, <2>5 DEF NoteInv
<1>6. QED
  BY <1>3, <1>4, <1>5 DEF Summary!Observation

\* An observation's batch is written whole or marked.
LEMMA BatchKept == ASSUME NoteInv, Summary!addValue PROVE NoteInv'
<1> DEFINE count == Len(summaryEvents)
           rendered == EventTexts(summaryEvents)
           heading == AfterSteps(summaryItem, base)
           act == summaryEvents[index].action
           observed == summaryEvents[index].batch
<1>1. /\ NoteTypes /\ UNCHANGED <<summaryItem, summaryEvents, base, summaryOutcome>>
      /\ summaryPhase = "batch" /\ summaryPhase' = "events" /\ index' = index + 1
      /\ count \in Nat /\ index \in 1..count /\ index \in Nat
      /\ truncated \/ bytes = heading + Sum(rendered, 1..(index - 1)) + act
  BY NoteSums DEF NoteInv, NoteWhole, Summary!addValue, Summary!Keep
<1>2. /\ bytes \in Nat /\ base \in Nat /\ NoteBytes \in Nat /\ truncated \in BOOLEAN
      /\ base <= NoteBytes => bytes <= NoteBytes
  BY <1>1, NoteAssumption DEF NoteTypes, NoteInv
<1>3. act \in Nat /\ observed \in Nat /\ rendered[index] = act + observed
  BY <1>1, NoteSums
<1>4. rendered \in [1..count -> Nat]
  BY <1>1, NoteSums
<1>5. /\ Sum(rendered, 1..((index + 1) - 1)) = Sum(rendered, 1..(index - 1)) + rendered[index]
      /\ Sum(rendered, 1..(index - 1)) \in Nat
  <2> HIDE DEF count, rendered
  <2> QED
    BY <1>1, <1>4, NoteSumStep
<1>6. heading \in Nat
  <2>1. IsFiniteSet(1..Len(summaryItem.steps))
    BY <1>1, NoteSums, NumbersFinite
  <2>2. \A i \in 1..Len(summaryItem.steps) : StepTexts(summaryItem)[i] \in Nat
    BY <1>1, NoteSums
  <2>3. Sum(StepTexts(summaryItem), 1..Len(summaryItem.steps)) \in Nat
    BY <2>1, <2>2, SumOf
  <2>4. QED
    BY <1>1, <2>3, HeadingType DEF AfterSteps
<1>7. index + 1 \in 1..(count + 1) /\ index + 1 \in Nat
  BY <1>1
<1>8. Summary!Left = IF bytes > NoteBytes THEN 0 ELSE NoteBytes - bytes
  BY DEF Summary!Left
<1>9. \/ observed <= Summary!Left /\ bytes' = bytes + observed /\ UNCHANGED truncated
      \/ truncated' = TRUE /\ UNCHANGED bytes
  BY DEF Summary!addValue
<1> HIDE DEF rendered, heading, act, observed
<1>10. /\ bytes' \in Nat /\ truncated' \in BOOLEAN /\ (base <= NoteBytes => bytes' <= NoteBytes)
       /\ truncated' \/ bytes' = heading + Sum(rendered, 1..((index + 1) - 1))
  <2>1. CASE truncated' = TRUE /\ UNCHANGED bytes
    BY <1>2, <2>1
  <2>2. CASE observed <= Summary!Left /\ bytes' = bytes + observed /\ UNCHANGED truncated
    <3>1. bytes' \in Nat /\ (base <= NoteBytes => bytes' <= NoteBytes)
      BY <1>2, <1>3, <1>8, <2>2
    <3>2. truncated \/ bytes' = heading + Sum(rendered, 1..((index + 1) - 1))
      <4>1. CASE truncated
        BY <4>1
      <4>2. CASE ~truncated
        <5>1. bytes = heading + Sum(rendered, 1..(index - 1)) + act
          BY <1>1, <4>2 DEF heading, rendered, act
        <5>2. QED
          BY <1>2, <1>3, <1>5, <1>6, <2>2, <5>1
      <4>3. QED
        BY <4>1, <4>2
    <3>3. QED
      BY <1>2, <2>2, <3>1, <3>2
  <2>3. QED
    BY <1>9, <2>1, <2>2
<1>11. NoteTypes'
  BY <1>1, <1>7, <1>10 DEF NoteTypes
<1>12. NoteWhole'
  BY <1>1, <1>7, <1>10, SameNote DEF NoteWhole, heading, rendered
<1>13. QED
  BY <1>1, <1>10, <1>11, <1>12 DEF NoteInv

\* A note that became too long is refused.
LEMMA ReturnKept == ASSUME NoteInv, Summary!Return PROVE NoteInv'
<1>1. /\ NoteTypes /\ UNCHANGED <<summaryItem, summaryEvents, base, summaryPhase, index, bytes, truncated>>
      /\ summaryPhase = "end"
      /\ \/ bytes > NoteBytes /\ summaryOutcome' = "refused"
         \/ ~(bytes > NoteBytes) /\ summaryOutcome' = "written"
  BY DEF NoteInv, Summary!Return, Summary!Keep
<1>2. NoteTypes'
  BY <1>1 DEF NoteTypes
<1>3. NoteWhole'
  BY <1>1, SameNote DEF NoteInv, NoteWhole
<1>4. QED
  BY <1>1, <1>2, <1>3 DEF NoteInv

\* Every step keeps the invariant, and the property follows from it.
LEMMA NextNote == NoteInv /\ Summary!Next => NoteInv'
BY ActualKept, ExpectedKept, StepKept, ObservationKept, BatchKept, KeysKept, ReturnKept
   DEF Summary!Next

LEMMA NoteProperty == NoteInv => Summary!SummaryIsMarked /\ Summary!SummaryTypeOK
<1> SUFFICES ASSUME NoteInv PROVE Summary!SummaryIsMarked /\ Summary!SummaryTypeOK
  OBVIOUS
<1> DEFINE stepSum == Sum(StepTexts(summaryItem), 1..Len(summaryItem.steps))
           eventSum == Sum(EventTexts(summaryEvents), 1..Len(summaryEvents))
<1>1. NoteTypes
  BY DEF NoteInv
<1>2. /\ Summary!FoldFunction(Summary!Plus, 0, StepTexts(summaryItem)) = stepSum
      /\ stepSum \in Nat
  <2>1. IsFiniteSet(1..Len(summaryItem.steps))
    BY <1>1, NoteSums, NumbersFinite
  <2>2. /\ \A i \in 1..Len(summaryItem.steps) : StepTexts(summaryItem)[i] \in Nat
        /\ DOMAIN StepTexts(summaryItem) = 1..Len(summaryItem.steps)
    BY <1>1, NoteSums
  <2>3. QED
    BY <2>1, <2>2, SummarySum, SumOf
<1>3. /\ Summary!FoldFunction(Summary!Plus, 0, EventTexts(summaryEvents)) = eventSum
      /\ eventSum \in Nat
  <2>1. IsFiniteSet(1..Len(summaryEvents))
    BY <1>1, NoteSums, NumbersFinite
  <2>2. /\ \A i \in 1..Len(summaryEvents) : EventTexts(summaryEvents)[i] \in Nat
        /\ DOMAIN EventTexts(summaryEvents) = 1..Len(summaryEvents)
    BY <1>1, NoteSums
  <2>3. QED
    BY <2>1, <2>2, SummarySum, SumOf
<1>4. Summary!Whole = base + summaryItem.actual + summaryItem.expected + summaryItem.key
         + Summary!FoldFunction(Summary!Plus, 0, StepTexts(summaryItem))
         + Summary!FoldFunction(Summary!Plus, 0, EventTexts(summaryEvents))
  BY DEF Summary!Whole, StepTexts, EventTexts
<1>5. Summary!Whole = base + summaryItem.actual + summaryItem.expected + summaryItem.key + stepSum + eventSum
  BY <1>2, <1>3, <1>4
<1>6. AfterEvents(summaryItem, summaryEvents, base)
         = base + summaryItem.actual + summaryItem.expected + stepSum + eventSum
  BY DEF AfterEvents, AfterSteps, Heading
<1> HIDE DEF stepSum, eventSum
<1>7. AfterEvents(summaryItem, summaryEvents, base) + summaryItem.key = Summary!Whole
  <2>1. base \in Nat
    BY <1>1 DEF NoteTypes
  <2>2. QED
    BY <1>1, <1>2, <1>3, <1>5, <1>6, <2>1, HeadingType
<1>8. /\ summaryOutcome = "refused" => base > NoteBytes
      /\ summaryOutcome = "written" => bytes <= NoteBytes
  BY NoteAssumption DEF NoteInv, NoteTypes
<1>9. summaryOutcome = "written" => bytes = Summary!Whole \/ truncated
  BY <1>7 DEF NoteInv, NoteWhole
<1>10. QED
  BY <1>8, <1>9 DEF NoteInv, NoteTypes, Summary!SummaryIsMarked, Summary!SummaryTypeOK
=============================================================================
