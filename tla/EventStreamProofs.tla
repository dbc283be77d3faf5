------------------------- MODULE EventStreamProofs -------------------------
(***************************************************************************)
(* Proofs about EventStream, for any writers, any number of ids and faults,*)
(* and any size of the buffer and of a page.                               *)
(***************************************************************************)
EXTENDS EventStream, FiniteSetTheorems, TLAPS

Replaying == {"head", "loop", "yield", "yielded", "wait"}

\* The last event written to the connection.
Sent == IF hand # 0 THEN hand ELSE cursor

\* The ids of a run commit in their order.
SerialIds ==
    /\ \A w \in Writers : tx[w] # 0 => tx[w] <= nextId /\ \A id \in log : id < tx[w]
    /\ \A v, w \in Writers : tx[v] # 0 /\ tx[w] # 0 => v = w
    /\ \A id \in log : id <= nextId
    /\ fin = 0 \/ fin \in log

\* What the generator holds are committed rows, and a page leaves no row out.
PageKept ==
    /\ cursor \in log \cup {0} /\ hand \in log \cup {0} /\ seen \in log \cup {0}
    /\ page \subseteq log
    /\ \A x \in page : Sent < x
    /\ \A x \in page, id \in log : Sent < id /\ id <= x => id \in page
    /\ pc \notin {"yield", "yielded"} => page = {}
    /\ pc \in {"opening", "head", "loop", "yield", "wait"} => hand = 0
    /\ pc = "yielded" => hand # 0 /\ cursor < hand

\* What is between the client's cursor and the last event written is on the wire,
\* in order.
WireKept ==
    /\ pc # "closed" => conn = "open"
    /\ conn # "open" => wire = <<>>
    /\ \A i \in 1..Len(wire) : wire[i] \in log /\ seen < wire[i] /\ wire[i] <= Sent
    /\ \A i, j \in 1..Len(wire) : i < j => wire[i] < wire[j]
    /\ conn = "open" => /\ seen <= Sent
                        /\ \A id \in log : seen < id /\ id <= Sent =>
                              \E i \in 1..Len(wire) : wire[i] = id

\* What the stream does not read yet will be announced to it.
HintsCover ==
    /\ pc \in Replaying => \A id \in log : id > target /\ id > cursor =>
                              id \in hints \cup silent \cup pending
    /\ pc = "wait" => pending = {} /\ target <= cursor

\* A stream knows of the end of its run when that is within what it reads.
EndCovered ==
    /\ pc \in Replaying /\ terminal => fin # 0 /\ (fin <= target \/ fin <= cursor)
    /\ outcome = "finished" => /\ pc = "closed" /\ fin # 0
                               /\ IF conn = "open" THEN fin <= Sent ELSE fin <= seen

StreamInv == /\ TypeOK /\ SerialIds /\ PageKept /\ WireKept
             /\ HintsCover /\ EndCovered /\ NoEventSkipped

-----------------------------------------------------------------------------
(* Types.                                                                    *)

\* An empty buffer is within its limit, and so is what is left of one.
LEMMA BufferShrinks ==
    ASSUME NEW S \in SUBSET pending, BufferType, pending' = S PROVE BufferType'
<1>1. IsFiniteSet(Ids)
  BY SizesAssumption, FS_Interval DEF Ids
<1>2. IsFiniteSet(pending)
  BY <1>1, FS_Subset DEF BufferType
<1>3. Cardinality(S) <= Cardinality(pending)
  BY <1>2, FS_Subset
<1>4. Cardinality(pending) \in Nat /\ Cardinality(S) \in Nat
  BY <1>2, FS_Subset, FS_CardinalityType
<1> QED BY <1>3, <1>4, SizesAssumption DEF BufferType

\* A hint is only added to a buffer that is not full.
LEMMA BufferGrows ==
    ASSUME BufferType, NEW n \in Ids, Cardinality(pending) < MaxBuffered,
           pending' = pending \cup {n}
    PROVE  BufferType'
<1>1. IsFiniteSet(Ids)
  BY SizesAssumption, FS_Interval DEF Ids
<1>2. IsFiniteSet(pending)
  BY <1>1, FS_Subset DEF BufferType
<1>3. /\ Cardinality(pending) \in Nat
      /\ Cardinality(pending') \in {Cardinality(pending), Cardinality(pending) + 1}
  BY <1>2, FS_AddElement, FS_CardinalityType
<1> QED BY <1>3, SizesAssumption DEF BufferType

\* A stream that is closed keeps its locals.
LEMMA CloseType ==
    ASSUME LoopType, BufferType, NEW o \in Outcomes, Close(o)
    PROVE  LoopType' /\ BufferType' /\ outcome' \in Outcomes
<1>1. BufferType'
  BY BufferShrinks DEF Close
<1>2. LoopType'
  BY DEF LoopType, Close, Places
<1> QED BY <1>1, <1>2 DEF Close

\* A commit moves an id that the column gave out to the rows, and to the hints
\* unless its answer is lost.
LEMMA CommitType == ASSUME TypeOK, NEW w \in Writers, Commit(w) PROVE TypeOK'
<1>1. tx[w] \in Ids /\ 0 \in 0..MaxId
  BY SizesAssumption DEF TypeOK, Commit, TableType, Ids
<1>2. TableType'
  BY <1>1 DEF TypeOK, Commit, TableType, Ids
<1>3. HintType'
  BY <1>1 DEF TypeOK, Commit, HintType
<1>4. LoopType' /\ BufferType'
  BY DEF TypeOK, Commit, LoopType, BufferType, streamVars, loopVars
<1>5. faults' \in 0..MaxFaults
  BY SizesAssumption DEF TypeOK, Commit, Spend, ClientType
<1> QED BY <1>2, <1>3, <1>4, <1>5 DEF TypeOK, ClientType, Commit, clientVars

\* The head of the rows is an id, or zero.
LEMMA ReadHeadType == ASSUME TypeOK, ReadHead PROVE TypeOK'
<1>1. PICK newest \in log \cup {0} :
          IF cursor > newest THEN Close("broken")
          ELSE /\ pc' = "head" /\ target' = newest
               /\ terminal' \in BOOLEAN /\ (terminal' <=> fin # 0)
               /\ UNCHANGED <<cursor, page, hand, pending, outcome>>
  BY DEF ReadHead
<1>2. LoopType' /\ BufferType' /\ outcome' \in Outcomes
  <2>1. CASE cursor > newest
    BY <1>1, <2>1, CloseType DEF TypeOK, Outcomes
  <2>2. CASE ~(cursor > newest)
    <3>1. newest \in 0..MaxId
      BY SizesAssumption DEF TypeOK, TableType, Ids
    <3> QED BY <1>1, <2>2, <3>1 DEF TypeOK, LoopType, BufferType, ClientType, Places
  <2> QED BY <2>1, <2>2
<1> QED BY <1>2 DEF TypeOK, ReadHead, TableType, HintType, ClientType,
               tableVars, hintVars, clientVars

\* A replay ends with a smaller buffer and a target that is the cursor or in it.
LEMMA EndReplayType == ASSUME TypeOK, EndReplay PROVE TypeOK'
<1>1. CASE terminal
  <2>1. LoopType' /\ BufferType' /\ outcome' \in Outcomes
    BY <1>1, CloseType DEF TypeOK, EndReplay, Outcomes
  <2> QED BY <2>1 DEF TypeOK, EndReplay, TableType, HintType, ClientType,
                     tableVars, hintVars, clientVars
<1>2. CASE ~terminal
  <2>1. PICK t \in pending' \cup {cursor} :
           target' = t /\ pc' = IF t > cursor THEN "loop" ELSE "wait"
    BY <1>2 DEF EndReplay
  <2>2. pending' \in SUBSET pending /\ UNCHANGED <<cursor, terminal, page, hand, outcome>>
    BY <1>2 DEF EndReplay
  <2>3. t \in 0..MaxId
    BY <2>1, <2>2, SizesAssumption DEF TypeOK, LoopType, BufferType, Ids
  <2>4. LoopType'
    BY <2>1, <2>2, <2>3 DEF TypeOK, LoopType, Places
  <2>5. BufferType'
    BY <2>2, BufferShrinks DEF TypeOK
  <2> QED BY <2>2, <2>4, <2>5 DEF TypeOK, EndReplay, TableType, HintType, ClientType,
                                 tableVars, hintVars, clientVars
<1> QED BY <1>1, <1>2

\* The client applies ids.
LEMMA ReceiveType == ASSUME TypeOK, Receive PROVE TypeOK'
<1>1. wire \in Seq(Ids) /\ wire # <<>>
  BY DEF TypeOK, ClientType, Receive
<1>2. Head(wire) \in Ids /\ Tail(wire) \in Seq(Ids)
  BY <1>1
<1>3. Head(wire) \in 0..MaxId
  BY <1>2, SizesAssumption DEF Ids
<1>4. ClientType'
  <2>1. CASE Head(wire) <= seen
    BY <1>2, <2>1 DEF TypeOK, ClientType, Receive
  <2>2. CASE ~(Head(wire) <= seen)
    BY <1>2, <1>3, <2>2 DEF TypeOK, ClientType, Receive
  <2> QED BY <2>1, <2>2
<1> QED BY <1>4 DEF TypeOK, Receive, TableType, HintType, LoopType, BufferType,
                   tableVars, hintVars, streamVars, loopVars

\* A crash may add one row, the end of the run.
LEMMA CrashType == ASSUME TypeOK, Crash PROVE TypeOK'
<1>1. TableType' /\ HintType'
  <2>1. CASE UNCHANGED <<log, nextId, fin, silent>>
    BY <2>1, SizesAssumption DEF TypeOK, Crash, TableType, HintType
  <2>2. CASE /\ nextId < MaxId /\ nextId' = nextId + 1 /\ fin' = nextId + 1
             /\ log' = log \cup {nextId + 1} /\ silent' = silent \cup {nextId + 1}
    <3>1. nextId + 1 \in Ids /\ nextId + 1 \in 0..MaxId
      BY <2>2, SizesAssumption DEF TypeOK, TableType, Ids
    <3> QED BY <2>2, <3>1, SizesAssumption DEF TypeOK, Crash, TableType, HintType
  <2> QED BY <2>1, <2>2 DEF Crash
<1>2. LoopType' /\ BufferType' /\ outcome' \in Outcomes
  BY CloseType DEF TypeOK, Crash, Outcomes
<1>3. faults' \in 0..MaxFaults
  BY SizesAssumption DEF TypeOK, Crash, Spend, ClientType
<1> QED BY <1>1, <1>2, <1>3 DEF TypeOK, ClientType, Crash, clientVars

\* A notification is buffered while there is room, or closes the stream.
LEMMA NotifyType == ASSUME TypeOK, NEW n \in Ids, Notify(n) PROVE TypeOK'
<1>1. LoopType' /\ BufferType' /\ outcome' \in Outcomes
  <2>1. CASE UNCHANGED <<streamVars, outcome>>
    BY <2>1 DEF TypeOK, streamVars, loopVars, LoopType, BufferType, ClientType
  <2>2. CASE /\ Cardinality(pending) < MaxBuffered
             /\ pending' = pending \cup {n}
             /\ pc' = IF pc = "wait" THEN "loop" ELSE pc
             /\ UNCHANGED <<loopVars, outcome>>
    BY <2>2, BufferGrows DEF TypeOK, loopVars, LoopType, ClientType, Places
  <2>3. CASE Close("broken")
    BY <2>3, CloseType DEF TypeOK, Outcomes
  <2> QED BY <2>1, <2>2, <2>3 DEF Notify
<1> QED BY <1>1 DEF TypeOK, Notify, TableType, HintType, ClientType, tableVars, clientVars

LEMMA TypeStep == ASSUME TypeOK, [Next]_vars PROVE TypeOK'
<1> USE DEF TypeOK, tableVars, hintVars, streamVars, loopVars, clientVars
<1>1. ASSUME NEW w \in Writers, Insert(w) PROVE TypeOK'
  BY <1>1, SizesAssumption DEF Insert, TableType, HintType, LoopType, BufferType,
       ClientType
<1>2. ASSUME NEW w \in Writers, Rollback(w) PROVE TypeOK'
  BY <1>2, SizesAssumption DEF Rollback, TableType, HintType, LoopType, BufferType,
       ClientType
<1>3. CASE StartReplay
  BY <1>3 DEF StartReplay, TableType, HintType, LoopType, BufferType, ClientType,
       Places
<1>4. CASE ListEvents
  <2>1. PICK p \in SUBSET log :
           IF p = {} THEN Close("broken")
           ELSE /\ page' = p /\ pc' = "yield"
                /\ UNCHANGED <<cursor, target, terminal, hand, pending, outcome>>
    BY <1>4 DEF ListEvents
  <2>2. LoopType' /\ BufferType' /\ outcome' \in Outcomes
    <3>1. CASE p = {}
      BY <2>1, <3>1, CloseType DEF Outcomes
    <3>2. CASE p # {}
      BY <2>1, <3>2 DEF TableType, LoopType, BufferType, ClientType, Places
    <3> QED BY <3>1, <3>2
  <2> QED BY <1>4, <2>2 DEF ListEvents, TableType, HintType, ClientType
<1>5. CASE Yield
  BY <1>5, SizesAssumption
     DEF Yield, TableType, HintType, LoopType, BufferType, ClientType, Places, Ids
<1>6. CASE Resume
  BY <1>6, SizesAssumption
     DEF Resume, TableType, HintType, LoopType, BufferType, ClientType, Places
<1>7. CASE Expire
  <2>1. LoopType' /\ BufferType' /\ outcome' \in Outcomes
    BY <1>7, CloseType DEF Expire, Outcomes
  <2> QED BY <1>7, <2>1 DEF Expire, TableType, HintType, ClientType
<1>8. CASE BreakConnection
  <2>1. LoopType' /\ BufferType' /\ outcome' \in Outcomes
    BY <1>8, CloseType DEF BreakConnection, Outcomes
  <2> QED BY <1>8, <2>1, SizesAssumption
             DEF BreakConnection, Spend, TableType, HintType, ClientType
<1>9. CASE Connect
  <2>1. terminal' \in BOOLEAN /\ outcome' \in Outcomes /\ pc' \in Places
    BY <1>9, Zenon DEF Connect, Outcomes, Places
  <2>2. cursor' \in 0..MaxId /\ target' \in 0..MaxId /\ hand' \in 0..MaxId /\ page' = page
    BY <1>9, SizesAssumption DEF Connect, ClientType
  <2>3. LoopType'
    BY <2>1, <2>2, Zenon DEF LoopType
  <2> QED BY <1>9, <2>1, <2>3 DEF Connect, TableType, HintType, BufferType, ClientType
<1>10. CASE EndOfResponse
  BY <1>10 DEF EndOfResponse, TableType, HintType, LoopType, BufferType, ClientType
<1>11. CASE Leave
  <2>1. LoopType' /\ BufferType' /\ outcome' \in Outcomes
    BY <1>11, CloseType DEF Leave, Outcomes
  <2>2. wire' \in Seq(Ids)
    BY <1>11 DEF Leave
  <2> QED BY <1>11, <2>1, <2>2 DEF Leave, TableType, HintType, ClientType
<1>12. CASE UNCHANGED vars
  BY <1>12 DEF vars, TableType, HintType, LoopType, BufferType, ClientType
<1> QED
  BY <1>1, <1>2, <1>3, <1>4, <1>5, <1>6, <1>7, <1>8, <1>9, <1>10, <1>11, <1>12,
     CommitType, NotifyType, ReadHeadType, EndReplayType, ReceiveType, CrashType DEF Next

-----------------------------------------------------------------------------
(* The invariant, action by action.                                          *)

\* An id is taken under the lock of the run's row, above every earlier one.
LEMMA InsertKept ==
    ASSUME StreamInv, TypeOK', NEW w \in Writers, Insert(w)
    PROVE  StreamInv'
<1> USE DEF StreamInv, Insert, tableVars, hintVars, loopVars, streamVars, clientVars
<1>1. PageKept' /\ WireKept' /\ HintsCover' /\ EndCovered' /\ NoEventSkipped'
  BY DEF PageKept, WireKept, HintsCover, EndCovered, NoEventSkipped, Sent
<1>2. SerialIds'
  BY DEF SerialIds, TypeOK, TableType, Ids
<1> QED BY <1>1, <1>2

\* A new row is beyond everything read or sent, and is announced or silent.
LEMMA CommitKept ==
    ASSUME StreamInv, TypeOK', NEW w \in Writers, Commit(w)
    PROVE  StreamInv'
<1> USE DEF StreamInv, Commit, Spend, tableVars, hintVars, loopVars, streamVars,
     clientVars
<1>1. HintsCover' /\ EndCovered'
  BY DEF HintsCover, EndCovered, Sent
<1>2. SerialIds'
  BY DEF SerialIds, TypeOK, TableType
<1>3. PageKept'
  BY DEF PageKept, SerialIds, Sent, TypeOK, ClientType
<1>4. WireKept'
  BY DEF WireKept, PageKept, SerialIds, Sent, TypeOK, ClientType
<1>5. NoEventSkipped'
  BY DEF NoEventSkipped, PageKept, SerialIds, TypeOK, TableType, Ids
<1> QED BY <1>1, <1>2, <1>3, <1>4, <1>5

\* A rolled back id leaves the rows alone.
LEMMA RollbackKept ==
    ASSUME StreamInv, TypeOK', NEW w \in Writers, Rollback(w)
    PROVE  StreamInv'
<1> USE DEF StreamInv, Rollback, tableVars, hintVars, loopVars, streamVars,
     clientVars
<1>1. SerialIds' /\ PageKept' /\ WireKept' /\ HintsCover' /\ EndCovered' /\ NoEventSkipped'
  BY DEF SerialIds, PageKept, WireKept, HintsCover, EndCovered, NoEventSkipped, Sent
<1> QED BY <1>1

\* A hint that is delivered is in the buffer, or not needed any more.
LEMMA NotifyKept ==
    ASSUME StreamInv, TypeOK', NEW n \in Ids, Notify(n)
    PROVE  StreamInv'
<1> USE DEF StreamInv, Notify, Close, tableVars, hintVars, loopVars, streamVars,
     clientVars
<1>1. SerialIds' /\ PageKept' /\ WireKept' /\ EndCovered'
  BY DEF SerialIds, PageKept, WireKept, EndCovered, Sent, Replaying
<1>2. HintsCover'
  <2>1. CASE UNCHANGED <<streamVars, outcome>>
    <3>1. pc \in Replaying /\ n > cursor => n \in pending
      BY <2>1 DEF Replaying, TypeOK, LoopType, Ids
    <3> QED BY <2>1, <3>1 DEF HintsCover, Replaying
  <2>2. CASE /\ pending' = pending \cup {n}
             /\ pc' = IF pc = "wait" THEN "loop" ELSE pc
             /\ UNCHANGED <<loopVars, outcome>>
    <3>1. pc' # "wait" /\ (pc' \in Replaying => pc \in Replaying)
      BY <2>2 DEF Replaying
    <3> QED BY <2>2, <3>1 DEF HintsCover
  <2>3. CASE Close("broken")
    BY <2>3 DEF HintsCover, Replaying
  <2> QED BY <2>1, <2>2, <2>3
<1>3. NoEventSkipped'
  BY SizesAssumption DEF NoEventSkipped, WireKept, PageKept, SerialIds, Sent,
       TypeOK, TableType, LoopType, ClientType, Ids
<1> QED BY <1>1, <1>2, <1>3

\* The head covers every row there is, and the end if the run is terminal.
LEMMA ReadHeadKept ==
    ASSUME StreamInv, TypeOK', ReadHead
    PROVE  StreamInv'
<1> USE DEF StreamInv, ReadHead, Close, tableVars, hintVars, loopVars, streamVars,
     clientVars
<1>1. SerialIds' /\ PageKept' /\ WireKept' /\ NoEventSkipped'
  BY DEF SerialIds, PageKept, WireKept, NoEventSkipped, Sent
<1>2. HintsCover'
  BY DEF HintsCover, TypeOK, TableType, LoopType, Ids
<1>3. EndCovered'
  <2>1. PICK newest \in log \cup {0} :
           /\ \A x \in log : x <= newest
           /\ \/ Close("broken")
              \/ /\ pc' = "head" /\ target' = newest /\ (terminal' <=> fin # 0)
                 /\ UNCHANGED <<cursor, hand, outcome>>
    BY Zenon
  <2>2. fin' = fin /\ conn' = conn /\ seen' = seen /\ outcome # "finished"
    BY DEF EndCovered
  <2>3. CASE Close("broken")
    BY <2>2, <2>3 DEF EndCovered, Replaying
  <2>4. CASE /\ pc' = "head" /\ target' = newest /\ (terminal' <=> fin # 0)
             /\ UNCHANGED <<cursor, hand, outcome>>
    <3>1. terminal' => fin # 0 /\ fin <= newest
      BY <2>1, <2>4 DEF SerialIds
    <3> QED BY <2>2, <2>4, <3>1 DEF EndCovered
  <2> QED BY <2>1, <2>3, <2>4
<1> QED BY <1>1, <1>2, <1>3

\* The answer of readEventHead changes nothing but the place.
LEMMA StartReplayKept ==
    ASSUME StreamInv, TypeOK', StartReplay
    PROVE  StreamInv'
<1> USE DEF StreamInv, StartReplay, tableVars, hintVars, loopVars, streamVars,
     clientVars
<1>1. SerialIds' /\ PageKept' /\ WireKept' /\ HintsCover' /\ EndCovered' /\ NoEventSkipped'
  BY DEF SerialIds, PageKept, WireKept, HintsCover, EndCovered, NoEventSkipped,
     Sent, Replaying
<1> QED BY <1>1

\* A page is the next rows, with none left out.
LEMMA ListEventsKept ==
    ASSUME StreamInv, TypeOK', ListEvents
    PROVE  StreamInv'
<1> USE DEF StreamInv, ListEvents, IsPage, Close, tableVars, hintVars, loopVars,
     streamVars, clientVars
<1>1. SerialIds' /\ WireKept' /\ HintsCover' /\ EndCovered' /\ NoEventSkipped'
  BY DEF SerialIds, WireKept, HintsCover, EndCovered, NoEventSkipped, Sent,
     Replaying
<1>2. PageKept'
  <2>1. PICK p \in SUBSET log :
           /\ IsPage(p)
           /\ \/ Close("broken")
              \/ /\ page' = p /\ pc' = "yield"
                 /\ UNCHANGED <<cursor, target, terminal, hand, pending, outcome>>
    BY Zenon
  <2>2. hand = 0 /\ Sent = cursor
    BY DEF PageKept, Sent
  <2>3. CASE Close("broken")
    BY <2>3 DEF PageKept, Sent
  <2>4. CASE /\ page' = p /\ pc' = "yield"
             /\ UNCHANGED <<cursor, target, terminal, hand, pending, outcome>>
    <3>1. Sent' = cursor /\ log' = log /\ seen' = seen
      BY <2>2, <2>4 DEF Sent
    <3>2. \A x \in p : cursor < x /\ x <= target
      BY <2>1
    <3>3. ASSUME NEW x \in p, NEW id \in log, cursor < id, id <= x PROVE id \in p
      <4>1. id <= target /\ x \in Int /\ id \in Int
        BY <3>2, <3>3 DEF TypeOK, TableType, LoopType, Ids
      <4>2. id \notin p => x < id
        BY <2>1, <3>3, <4>1
      <4> QED BY <3>3, <4>1, <4>2
    <3> QED BY <2>2, <2>4, <3>1, <3>2, <3>3 DEF PageKept
  <2> QED BY <2>1, <2>3, <2>4
<1> QED BY <1>1, <1>2

\* The least row of the page goes to the end of the wire.
LEMMA YieldKept ==
    ASSUME StreamInv, TypeOK', Yield
    PROVE  StreamInv'
<1> USE DEF StreamInv, Yield, tableVars, hintVars, loopVars, streamVars, clientVars
<1>1. SerialIds' /\ HintsCover' /\ EndCovered' /\ NoEventSkipped'
  BY DEF SerialIds, HintsCover, EndCovered, NoEventSkipped, Replaying
<1>2. PageKept'
  BY DEF PageKept, Sent, TypeOK, ClientType, Ids
<1>3. WireKept'
  <2>1. PICK e \in page : hand' = e /\ wire' = Append(wire, e)
    OBVIOUS
  <2>2. e \in log /\ e \in Ids /\ e # 0 /\ e \in Int /\ hand = 0 /\ Sent < e /\ Sent \in Int
    BY SizesAssumption DEF PageKept, Sent, TypeOK, TableType, LoopType, Ids
  <2>3. Sent' = e /\ conn' = conn /\ seen' = seen /\ log' = log /\ conn = "open"
    BY <2>1, <2>2 DEF Sent, WireKept
  <2>4. /\ wire \in Seq(Ids) /\ Len(wire) \in Nat /\ Len(wire') = Len(wire) + 1
        /\ \A i \in 1..Len(wire) : wire'[i] = wire[i] /\ wire[i] \in Int
        /\ wire'[Len(wire) + 1] = e
    BY <2>1, <2>2, SizesAssumption DEF TypeOK, ClientType, Ids
  <2>5. seen \in Int /\ seen <= Sent /\ \A id \in log : id \in Int
    BY <2>3 DEF WireKept, TypeOK, TableType, ClientType, Ids
  <2>6. \A i \in 1..Len(wire') : wire'[i] \in log /\ seen < wire'[i] /\ wire'[i] <= e
    <3>1. ASSUME NEW i \in 1..Len(wire)
          PROVE  wire'[i] \in log /\ seen < wire'[i] /\ wire'[i] <= e
      BY <2>2, <2>4, <2>5 DEF WireKept
    <3>2. e \in log /\ seen < e
      BY <2>2, <2>5
    <3> QED BY <2>2, <2>4, <3>1, <3>2
  <2>7. \A i, j \in 1..Len(wire') : i < j => wire'[i] < wire'[j]
    <3>1. \A i \in 1..Len(wire) : wire'[i] < e
      BY <2>2, <2>4 DEF WireKept
    <3>2. \A i, j \in 1..Len(wire) : i < j => wire'[i] < wire'[j]
      BY <2>4 DEF WireKept
    <3> QED BY <2>4, <3>1, <3>2
  <2>8. ASSUME NEW id \in log, seen < id, id <= e
        PROVE  \E i \in 1..Len(wire') : wire'[i] = id
    <3>1. CASE id = e
      BY <2>4, <3>1
    <3>2. CASE id <= Sent
      <4>1. PICK i \in 1..Len(wire) : wire[i] = id
        BY <2>3, <2>8, <3>2 DEF WireKept
      <4> QED BY <2>4, <4>1
    <3>3. CASE Sent < id /\ id # e
      BY <2>1, <2>2, <2>5, <2>8, <3>3 DEF PageKept, TypeOK, LoopType, Ids
    <3> QED BY <2>2, <2>5, <3>1, <3>2, <3>3
  <2> HIDE DEF Yield
  <2> QED BY <2>2, <2>3, <2>5, <2>6, <2>7, <2>8 DEF WireKept
<1> QED BY <1>1, <1>2, <1>3

\* The event in hand becomes the cursor.
LEMMA ResumeKept ==
    ASSUME StreamInv, TypeOK', Resume
    PROVE  StreamInv'
<1> USE DEF StreamInv, Resume, tableVars, hintVars, loopVars, streamVars, clientVars
<1>1. SerialIds' /\ PageKept' /\ NoEventSkipped'
  BY DEF SerialIds, PageKept, NoEventSkipped, Sent
<1>2. WireKept'
  BY DEF WireKept, PageKept, Sent
<1>3. HintsCover'
  BY DEF HintsCover, Replaying, PageKept, TypeOK, ClientType
<1>4. EndCovered'
  BY DEF EndCovered, Replaying, PageKept, TypeOK, TableType, Ids
<1> QED BY <1>1, <1>2, <1>3, <1>4

\* Caught up: the buffer holds what lies beyond the cursor.
LEMMA EndReplayKept ==
    ASSUME StreamInv, TypeOK', EndReplay
    PROVE  StreamInv'
<1> USE DEF StreamInv, EndReplay, CaughtUp, Close, tableVars, hintVars, loopVars,
     streamVars, clientVars
<1>1. SerialIds' /\ PageKept' /\ WireKept' /\ NoEventSkipped'
  BY DEF SerialIds, PageKept, WireKept, NoEventSkipped, Sent
<1>2. HintsCover'
  <2>1. CASE terminal
    BY <2>1 DEF HintsCover, Replaying
  <2>2. CASE ~terminal
    <3>1. PICK t \in pending' \cup {cursor} :
             /\ \A x \in pending' : x <= t
             /\ target' = t
             /\ pc' = IF t > cursor THEN "loop" ELSE "wait"
      BY <2>2
    <3>2. /\ pending' = {id \in pending : id > cursor} /\ cursor' = cursor
          /\ log' = log /\ hints' = hints /\ silent' = silent
      BY <2>2
    <3>3. t \in Int /\ cursor \in Int /\ target \in Int /\ cursor >= target /\ cursor <= t
      BY <3>1, <3>2 DEF TypeOK, LoopType, BufferType, Ids
    <3>4. \A id \in log : id \in Int
      BY DEF TypeOK, TableType, Ids
    <3>5. \A id \in log : id > cursor => id \in hints \cup silent \cup pending
      BY <3>3, <3>4 DEF HintsCover, Replaying
    <3>6. CASE t > cursor
      BY <3>1, <3>2, <3>5, <3>6 DEF HintsCover
    <3>7. CASE t = cursor
      <4>1. pending' = {}
        <5>1. \A x \in pending' : x \in Int /\ x > cursor /\ x <= t
          BY <3>1, <3>2 DEF TypeOK, BufferType, Ids
        <5> QED BY <3>3, <3>7, <5>1
      <4>2. pc' = "wait" /\ target' = cursor
        BY <3>1, <3>3, <3>7
      <4>3. \A id \in log : id > cursor => id \in hints \cup silent
        BY <3>2, <3>5, <4>1
      <4> HIDE DEF EndReplay
      <4> QED BY <3>2, <3>3, <4>1, <4>2, <4>3 DEF HintsCover
    <3> QED BY <3>3, <3>6, <3>7
  <2> QED BY <2>1, <2>2
<1>3. EndCovered'
  BY DEF EndCovered, Replaying, WireKept, PageKept, Sent, TypeOK, TableType,
       LoopType
<1> QED BY <1>1, <1>2, <1>3

\* An expired stream keeps what it has written.
LEMMA ExpireKept ==
    ASSUME StreamInv, TypeOK', Expire
    PROVE  StreamInv'
<1> USE DEF StreamInv, Expire, Close, tableVars, hintVars, loopVars, streamVars,
     clientVars
<1>1. SerialIds' /\ PageKept' /\ WireKept' /\ HintsCover' /\ EndCovered' /\ NoEventSkipped'
  BY DEF SerialIds, PageKept, WireKept, HintsCover, EndCovered, NoEventSkipped,
     Sent, Replaying
<1> QED BY <1>1

\* So does a broken one.
LEMMA BreakConnectionKept ==
    ASSUME StreamInv, TypeOK', BreakConnection
    PROVE  StreamInv'
<1> USE DEF StreamInv, BreakConnection, Close, Spend, tableVars, hintVars, loopVars,
     streamVars, clientVars
<1>1. SerialIds' /\ PageKept' /\ WireKept' /\ HintsCover' /\ EndCovered' /\ NoEventSkipped'
  BY DEF SerialIds, PageKept, WireKept, HintsCover, EndCovered, NoEventSkipped,
     Sent, Replaying
<1> QED BY <1>1

\* A new connection starts at the client's cursor.
LEMMA ConnectKept ==
    ASSUME StreamInv, TypeOK', Connect
    PROVE  StreamInv'
<1> USE DEF StreamInv, Connect, tableVars, hintVars, loopVars, streamVars,
     clientVars
<1>1. SerialIds' /\ HintsCover' /\ EndCovered' /\ NoEventSkipped'
  BY DEF SerialIds, HintsCover, EndCovered, NoEventSkipped, Replaying
<1>2. PageKept'
  <2>1. page = {} /\ seen \in log \cup {0}
    BY DEF PageKept, WireKept
  <2>2. page' = {} /\ hand' = 0 /\ cursor' = seen /\ seen' = seen /\ log' = log /\ pc' = "opening"
    BY <2>1
  <2> QED BY <2>1, <2>2 DEF PageKept
<1>3. WireKept'
  BY DEF WireKept, Sent, TypeOK, TableType, ClientType, Ids
<1> QED BY <1>1, <1>2, <1>3

\* The event at the head of the wire is the next one the client lacks.
LEMMA ReceiveKept ==
    ASSUME StreamInv, TypeOK', Receive
    PROVE  StreamInv'
<1> USE DEF StreamInv, Receive, tableVars, hintVars, loopVars, streamVars,
     clientVars
<1> DEFINE e == Head(wire)
<1>1. /\ wire \in Seq(Ids) /\ wire # <<>> /\ Len(wire) \in Nat \ {0}
      /\ e = wire[1] /\ Tail(wire) \in Seq(Ids) /\ Len(Tail(wire)) = Len(wire) - 1
      /\ \A i \in 1..(Len(wire) - 1) : Tail(wire)[i] = wire[i + 1]
  BY DEF TypeOK, ClientType
<1>2. e \in log /\ seen < e /\ e <= Sent
  BY <1>1 DEF WireKept
<1>3. /\ e \in Int /\ seen \in Int /\ Sent \in Int
      /\ \A id \in log : id \in Int
  <2>1. /\ seen \in Int /\ hand \in Int /\ cursor \in Int
        /\ \A id \in log : id \in Int
    BY DEF TypeOK, TableType, LoopType, ClientType, Ids
  <2> QED BY <1>2, <2>1 DEF Sent
<1>4. seen' = e /\ received' = received \cup {e} /\ wire' = Tail(wire)
  <2>1. ~(Head(wire) <= seen)
    BY <1>2, <1>3
  <2> QED BY <2>1
<1>5. UNCHANGED <<log, nextId, tx, fin, hints, silent, pc, cursor, target, terminal, page,
                  hand, pending, outcome, conn>> /\ Sent' = Sent
  BY DEF Sent
<1> HIDE DEF e, Receive
<1>6. SerialIds'
  BY <1>5 DEF SerialIds
<1>7. PageKept'
  BY <1>2, <1>4, <1>5 DEF PageKept
<1>8. WireKept'
  <2>1. \A i \in 1..Len(wire') : i + 1 \in 1..Len(wire) /\ wire'[i] = wire[i + 1]
    BY <1>1, <1>4
  <2>2. \A i \in 1..Len(wire') : e < wire'[i]
    BY <1>1, <2>1 DEF WireKept
  <2>3. \A i \in 1..Len(wire') : wire'[i] \in log /\ wire'[i] <= Sent
    BY <2>1 DEF WireKept
  <2>4. \A i, j \in 1..Len(wire') : i < j => wire'[i] < wire'[j]
    BY <2>1, <1>1, <1>4 DEF WireKept
  <2>5. ASSUME conn = "open", NEW id \in log, e < id, id <= Sent
        PROVE  \E i \in 1..Len(wire') : wire'[i] = id
    <3>1. seen < id
      BY <1>2, <2>5 DEF TypeOK, TableType, ClientType, Ids
    <3>2. PICK i \in 1..Len(wire) : wire[i] = id
      BY <2>5, <3>1 DEF WireKept
    <3>3. i # 1
      BY <1>1, <2>5, <3>2 DEF TypeOK, TableType, Ids
    <3>4. i - 1 \in 1..Len(wire') /\ wire'[i - 1] = id
      BY <1>1, <1>4, <3>2, <3>3
    <3> QED BY <3>4
  <2>6. conn = "open"
    BY DEF Receive
  <2> QED BY <1>2, <1>4, <1>5, <2>2, <2>3, <2>4, <2>5, <2>6 DEF WireKept
<1>9. HintsCover'
  BY <1>5 DEF HintsCover
<1>10. EndCovered'
  <2>1. conn = "open"
    BY DEF Receive
  <2> QED BY <1>5, <2>1 DEF EndCovered
<1>11. NoEventSkipped'
  <2>1. conn = "open"
    BY DEF Receive
  <2>2. ASSUME NEW id \in log, seen < id, id <= e PROVE id = e
    <3>1. id <= Sent
      BY <1>2, <2>2 DEF Sent, TypeOK, TableType, LoopType, Ids
    <3>2. PICK i \in 1..Len(wire) : wire[i] = id
      BY <2>1, <2>2, <3>1 DEF WireKept
    <3>3. i = 1
      BY <1>1, <1>3, <2>2, <3>2 DEF WireKept
    <3> QED BY <1>1, <3>2, <3>3
  <2>3. \A id \in log : id <= e <=> id <= seen \/ id = e
    BY <1>2, <2>2 DEF TypeOK, TableType, ClientType, Ids
  <2> QED BY <1>2, <1>4, <1>5, <2>3 DEF NoEventSkipped
<1> QED BY <1>6, <1>7, <1>8, <1>9, <1>10, <1>11

\* Only a destroyed response loses what it carried.
LEMMA EndOfResponseKept ==
    ASSUME StreamInv, TypeOK', EndOfResponse
    PROVE  StreamInv'
<1> USE DEF StreamInv, EndOfResponse, tableVars, hintVars, loopVars, streamVars,
     clientVars
<1>1. SerialIds' /\ PageKept' /\ WireKept' /\ HintsCover' /\ NoEventSkipped'
  BY DEF SerialIds, PageKept, WireKept, HintsCover, NoEventSkipped
<1>2. EndCovered'
  BY DEF EndCovered, WireKept, SerialIds, TypeOK, TableType, ClientType
<1> QED BY <1>1, <1>2

\* A client that leaves closes its stream.
LEMMA LeaveKept ==
    ASSUME StreamInv, TypeOK', Leave
    PROVE  StreamInv'
<1> USE DEF StreamInv, Leave, Close, tableVars, hintVars, loopVars, streamVars,
     clientVars
<1>1. SerialIds' /\ PageKept' /\ WireKept' /\ HintsCover' /\ EndCovered' /\ NoEventSkipped'
  BY DEF SerialIds, PageKept, WireKept, HintsCover, EndCovered, NoEventSkipped,
     Replaying
<1> QED BY <1>1

\* After a crash nothing is open, and at most the end of the run is new.
LEMMA CrashKept ==
    ASSUME StreamInv, TypeOK', Crash
    PROVE  StreamInv'
<1> USE DEF StreamInv, Crash, Close, Spend, tableVars, hintVars, loopVars,
     streamVars, clientVars
<1>1. PageKept' /\ HintsCover' /\ EndCovered'
  BY DEF PageKept, HintsCover, EndCovered, Replaying
<1>2. SerialIds'
  <2>1. \A w \in Writers : tx'[w] = 0
    OBVIOUS
  <2>2. CASE UNCHANGED <<log, nextId, fin, silent>>
    BY <2>1, <2>2 DEF SerialIds
  <2>3. CASE nextId' = nextId + 1 /\ fin' = nextId + 1 /\ log' = log \cup {nextId + 1}
    <3>1. \A id \in log' : id <= nextId'
      BY <2>3, SizesAssumption DEF SerialIds, TypeOK, TableType, Ids
    <3> QED BY <2>1, <2>3, <3>1 DEF SerialIds
  <2> QED BY <2>2, <2>3
<1>3. WireKept'
  <2>1. Sent' = Sent /\ pc' = "closed" /\ UNCHANGED <<wire, conn, seen>>
    BY DEF Sent
  <2>2. log \subseteq log' /\ \A id \in log' \ log : id = nextId + 1
    OBVIOUS
  <2>3. Sent \in log \cup {0}
    BY DEF PageKept, Sent
  <2>4. \A id \in log' : id <= Sent => id \in log
    BY <2>2, <2>3, SizesAssumption DEF SerialIds, TypeOK, TableType, LoopType, Ids
  <2> QED BY <2>1, <2>2, <2>4 DEF WireKept
<1>4. NoEventSkipped'
  BY DEF NoEventSkipped, PageKept, SerialIds, TypeOK, TableType, Ids
<1> QED BY <1>1, <1>2, <1>3, <1>4

-----------------------------------------------------------------------------
(* Theorems.                                                                 *)

LEMMA InitInv == ASSUME Init PROVE StreamInv
<1>1. Cardinality(pending) = 0
  BY FS_EmptySet DEF Init
<1>2. TypeOK
  <2>1. TableType /\ HintType
    BY SizesAssumption DEF Init, TableType, HintType
  <2>2. terminal \in BOOLEAN /\ pc \in Places /\ outcome \in Outcomes
    BY Zenon DEF Init, Places, Outcomes
  <2>3. LoopType
    BY <2>2, SizesAssumption DEF Init, LoopType
  <2>4. BufferType
    BY <1>1, SizesAssumption DEF Init, BufferType
  <2>5. ClientType
    BY <2>2, SizesAssumption DEF Init, ClientType
  <2> QED BY <2>1, <2>3, <2>4, <2>5 DEF TypeOK
<1>3. SerialIds /\ PageKept /\ HintsCover /\ EndCovered /\ NoEventSkipped
  BY SizesAssumption DEF Init, SerialIds, PageKept, HintsCover, EndCovered,
       NoEventSkipped,
     Replaying, Sent
<1>4. WireKept
  BY DEF Init, WireKept
<1> QED BY <1>2, <1>3, <1>4 DEF StreamInv

LEMMA StreamStep == ASSUME StreamInv, [Next]_vars PROVE StreamInv'
<1>1. TypeOK'
  BY TypeStep DEF StreamInv
<1>2. CASE UNCHANGED vars
  BY <1>1, <1>2 DEF StreamInv, vars, tableVars, hintVars, streamVars, loopVars,
       clientVars,
     SerialIds, PageKept, WireKept, HintsCover, EndCovered, NoEventSkipped, Replaying, Sent
<1>3. CASE Next
  BY <1>1, <1>3, InsertKept, CommitKept, RollbackKept, NotifyKept, ReadHeadKept,
     StartReplayKept, ListEventsKept, YieldKept, ResumeKept, EndReplayKept, ExpireKept,
     BreakConnectionKept, ConnectKept, ReceiveKept, EndOfResponseKept, LeaveKept, CrashKept
     DEF Next
<1> QED BY <1>2, <1>3

LEMMA StreamInvariant == Spec => []StreamInv
<1> QED BY InitInv, StreamStep, PTL DEF Spec

\* The rows, the generator, the buffer and the client keep to their types, the
\* buffer to its limit.
THEOREM StreamTypeCorrect == Spec => []TypeOK
<1>1. StreamInv => TypeOK
  BY DEF StreamInv
<1> QED BY <1>1, StreamInvariant, PTL

\* The client has every event up to its cursor, whatever is lost or late.
THEOREM EventsInOrder == Spec => []NoEventSkipped
<1>1. StreamInv => NoEventSkipped
  BY DEF StreamInv
<1> QED BY <1>1, StreamInvariant, PTL

\* A stream only waits when all it has not sent is still to be announced.
THEOREM NoWindow == Spec => []WaitsOnlyForHints
<1>1. ASSUME StreamInv, pc = "wait", NEW id \in log, id > cursor
      PROVE  id \in hints \cup silent
  <2>1. id > target /\ pending = {}
    BY <1>1 DEF StreamInv, HintsCover, TypeOK, TableType, LoopType, Ids
  <2> QED BY <1>1, <2>1 DEF StreamInv, HintsCover, Replaying
<1>2. StreamInv => WaitsOnlyForHints
  BY <1>1 DEF WaitsOnlyForHints
<1> QED BY <1>2, StreamInvariant, PTL

\* A stream that ends by itself has sent the whole run.
THEOREM EndIsComplete == Spec => []EndsComplete
<1>1. ASSUME StreamInv, outcome = "finished" PROVE EndsComplete
  <2>1. fin # 0 /\ fin \in log
    BY <1>1 DEF StreamInv, EndCovered, SerialIds
  <2>2. ASSUME NEW id \in log, id <= fin
        PROVE  id \in received \/ \E i \in 1..Len(wire) : wire[i] = id
    <3>1. CASE id <= seen
      BY <1>1, <3>1 DEF StreamInv, NoEventSkipped
    <3>2. CASE seen < id
      <4>1. conn = "open" /\ id <= Sent
        BY <1>1, <2>1, <2>2, <3>2
           DEF StreamInv, EndCovered, Sent, TypeOK, TableType, LoopType, ClientType, Ids
      <4> QED BY <1>1, <3>2, <4>1 DEF StreamInv, WireKept
    <3> QED BY <1>1, <3>1, <3>2 DEF StreamInv, TypeOK, TableType, ClientType, Ids
  <2> QED BY <2>1, <2>2 DEF EndsComplete
<1>2. StreamInv => EndsComplete
  BY <1>1 DEF EndsComplete
<1> QED BY <1>2, StreamInvariant, PTL

\* The detailed stream implements the feed: rows appear above the earlier ones,
\* and the client applies the least one it lacks.
THEOREM ImplementsEventFeed == Spec => FeedKept
<1>1. Init => Feed!Init
  BY DEF Init, Feed!Init
<1>2. ASSUME StreamInv, [Next]_vars PROVE [Feed!Next]_<<log, received>>
  <2> USE DEF StreamInv, tableVars, hintVars, streamVars, loopVars, clientVars
  <2>1. ASSUME NEW w \in Writers, Commit(w) PROVE Feed!Commit
    <3>1. tx[w] \in Ids /\ \A x \in log : x < tx[w]
      BY <1>2, <2>1, SizesAssumption DEF Commit, SerialIds, TypeOK, TableType, Ids
    <3> QED BY <2>1, <3>1 DEF Commit, Feed!Commit
  <2>2. CASE Crash
    <3>1. CASE /\ nextId < MaxId /\ log' = log \cup {nextId + 1}
      <4>1. nextId + 1 \in Ids /\ \A x \in log : x < nextId + 1
        BY <1>2, <3>1, SizesAssumption DEF SerialIds, TypeOK, TableType, Ids
      <4> QED BY <2>2, <3>1, <4>1 DEF Crash, Feed!Commit, Feed!Next
    <3> QED BY <2>2, <3>1 DEF Crash
  <2>3. CASE Receive
    <3>1. CASE UNCHANGED received
      BY <2>3, <3>1 DEF Receive
    <3>2. CASE ~(Head(wire) <= seen)
      <4>1. wire \in Seq(Ids) /\ wire # <<>> /\ Head(wire) = wire[1] /\ 1 \in 1..Len(wire)
        BY <1>2, <2>3 DEF Receive, TypeOK, ClientType
      <4>2. Head(wire) \in log \ received
        BY <1>2, <3>2, <4>1 DEF WireKept, NoEventSkipped, TypeOK, TableType,
             ClientType, Ids
      <4>3. received' = received \cup {Head(wire)} /\ log' = log
        BY <2>3, <3>2 DEF Receive
      <4>4. NoEventSkipped' /\ seen' = Head(wire)
        BY <1>2, <2>3, <3>2, StreamStep DEF Receive
      <4>5. \A x \in log \ received : Head(wire) <= x
        <5>1. \A x \in log' : x <= seen' => x \in received'
          BY <4>4 DEF NoEventSkipped
        <5>2. \A x \in log : x \in Int
          BY <1>2 DEF TypeOK, TableType, Ids
        <5> QED BY <4>2, <4>3, <4>4, <5>1, <5>2
      <4> QED BY <4>2, <4>3, <4>5 DEF Feed!Receive, Feed!Next
    <3> QED BY <2>3, <3>1, <3>2 DEF Receive
  <2> QED
    BY <1>2, <2>1, <2>2, <2>3
       DEF Next, vars, Insert, Rollback, Notify, Close, ReadHead, StartReplay, ListEvents,
           Yield, Resume, EndReplay, Expire, BreakConnection, Connect, EndOfResponse, Leave,
           Feed!Next
<1> QED BY <1>1, <1>2, StreamInvariant, PTL DEF Spec, FeedKept, Feed!Spec
=============================================================================
