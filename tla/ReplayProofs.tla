---------------------------- MODULE ReplayProofs ----------------------------
(***************************************************************************)
(* Proofs about Indexer: what its crashes, stops and failures repeat.      *)
(***************************************************************************)
EXTENDS IndexerProofs

\* processTxs is at a block that it can write to, and has not failed to write its cursor.
Walking == pc \in {"tx", "msg", "cursor", "row"} /\ ~Closed /\ db # "nil"

\* The messages of the current block that Handle was called for, and those whose row was
\* inserted, in this walk, if at all.
PastHandle(id) ==
    /\ id[1] = cursor.Height
    /\ \/ id[2] < txi
       \/ id[2] = txi /\ pc # "tx" /\ (id[3] < msgi \/ (id[3] = msgi /\ pc # "msg"))

PastRow(id) ==
    /\ id[1] = cursor.Height
    /\ id[2] < txi \/ (id[2] = txi /\ pc # "tx" /\ id[3] < msgi)

\* What is not going to be written again, unless the process ends uncleanly.
TxDone(id)     == id[1] < stateDB.Height \/ (Walking /\ Past(id))
HandleDone(id) == id[1] < stateDB.Height \/ (Walking /\ PastHandle(id))
RowDone(id)    == id[1] < stateDB.Height \/ (Walking /\ PastRow(id))

Allowed(done) == IF done THEN 1 + unclean ELSE unclean

ReplayInv ==
    /\ \A id \in TxIds : txes[id] <= Allowed(TxDone(id))
    /\ \A id \in MsgIds : handled[id] <= Allowed(HandleDone(id)) /\ Rows(id) <= Allowed(RowDone(id))
    /\ pc = "rowFatal" => Rows(MsgId) + 1 <= unclean

-----------------------------------------------------------------------------
LEMMA TxIdShape ==
    ASSUME NEW id \in TxIds
    PROVE  /\ id = <<id[1], id[2]>> /\ id[1] \in Nat /\ id[1] >= 1
           /\ id[2] \in Nat /\ id[2] < NumTxs(id[1]) /\ NumTxs(id[1]) \in Nat
<1>1. id = <<id[1], id[2]>> /\ id[1] \in Heights /\ id[2] \in 0 .. NumTxs(id[1]) - 1
  BY DEF TxIds
<1>2. id[1] \in Nat /\ id[1] >= 1 /\ NumTxs(id[1]) \in Nat
  BY <1>1, ChainShape
<1>. QED  BY <1>1, <1>2

\* How far a walk has come, whatever is counted: no step takes back any of it, unless it
\* ends the process uncleanly.
LEMMA WalkGoesOn ==
    ASSUME TypeOK, HeightInv, CursorInv, StopInv, [Next]_vars, unclean' = unclean, Walking
    PROVE  \/ /\ Walking' /\ cursor'.Height = cursor.Height /\ stateDB'.Height = stateDB.Height
              /\ \/ txi' = txi /\ msgi' = msgi /\ (pc # "tx" => pc' # "tx") /\ (pc # "msg" => pc' # "msg")
                 \/ txi' = txi /\ pc # "tx" /\ pc' = "msg" /\ msgi' = msgi + 1
                 \/ txi' = txi + 1 /\ pc' = "tx"
                 \/ txi' = txi /\ pc = "tx" /\ pc' = "msg" /\ msgi' = 0
           \/ AtEndOfBlock /\ stateDB'.Height = stateDB.Height + 1
<1>. USE DEF Walking, Closed, position, TypeOK, ControlOK
<1>1. CASE UNCHANGED <<cursor, stateDB, pc, txi, msgi, stopper, db>>
  BY <1>1
<1>2. CASE Signal
  BY <1>2 DEF Signal
<1>3. CASE LookupTxFails \/ StoreTxFails \/ StoreTx
  <2>1. CASE LookupTxFails
    BY <2>1 DEF LookupTxFails, NextTx, AtTx
  <2>2. CASE StoreTxFails
    BY <2>2 DEF StoreTxFails, NextTx, AtTx
  <2>3. CASE StoreTx
    BY <2>3 DEF StoreTx, NextTx, AtTx
  <2>. QED  BY <1>3, <2>1, <2>2, <2>3
<1>4. CASE EndTx
  BY <1>4 DEF EndTx
<1>5. CASE EndBlock
  BY <1>5 DEF EndBlock, AtEndOfBlock, UpdateCursor, NextBlock, CursorAt, CursorInv
<1>6. CASE SkipMsg \/ RejectRoute \/ HandleFails \/ Handle
  BY <1>6 DEF SkipMsg, RejectRoute, HandleFails, Handle, AtMsg
<1>7. CASE UpdateCursorMsg
  BY <1>7 DEF UpdateCursorMsg, UpdateCursor, CursorAtMsg, CursorAt, CursorInv
<1>8. CASE StoreRow \/ StoreRowFails
  BY <1>8 DEF StoreRow, StoreRowFails, LeaveMsg
<1>9. ~UpdateCursorMsgFails /\ ~EndBlockFails /\ ~Crash
  <2>1. unclean \in Nat
    BY DEF CountersOK
  <2>. QED  BY <2>1 DEF UpdateCursorMsgFails, EndBlockFails, UpdateCursorFails, Crash
<1>10. /\ ~NewIndexer /\ ~Setup /\ ~SetupTablesFails /\ ~SetupHandlerFails /\ ~Exit /\ ~Panic
       /\ ~StartFailed /\ ~Stop /\ ~RetrieveBlock /\ ~NoBlock /\ ~ContextDone /\ ~LockMu
  BY DEF NewIndexer, Setup, SetupTablesFails, SetupHandlerFails, Exit, Panic, StartFailed, Stop, MuHeld,
         RetrieveBlock, NoBlock, ContextDone, LockMu
<1>. QED
  <2>1. CASE NewBlock \/ UNCHANGED vars
    BY <1>1, <2>1 DEF NewBlock, vars
  <2>. QED
    BY <2>1, <1>2, <1>3, <1>4, <1>5, <1>6, <1>7, <1>8, <1>9, <1>10
    DEF Next, Process, Start, ProcessTxs, ProcessMsg

\* The stored cursor never goes back to an earlier block.
LEMMA HeightGrows ==
    ASSUME TypeOK, HeightInv, CursorInv, [Next]_vars
    PROVE  stateDB'.Height >= stateDB.Height
<1>. USE DEF TypeOK, ControlOK, Cursor
<1>1. CASE stateDB' = stateDB
  BY <1>1
<1>2. CASE NewIndexer
  BY <1>2 DEF NewIndexer, CursorAt, NoCursor
<1>3. CASE EndBlock \/ EndBlockFails
  BY <1>3 DEF EndBlock, EndBlockFails, AtEndOfBlock, UpdateCursor, UpdateCursorFails, NextBlock, CursorAt, CursorInv
<1>4. CASE UpdateCursorMsg \/ UpdateCursorMsgFails
  BY <1>4 DEF UpdateCursorMsg, UpdateCursorMsgFails, UpdateCursor, UpdateCursorFails, CursorAtMsg, CursorAt, CursorInv
<1>. QED
  BY <1>1, <1>2, <1>3, <1>4
  DEF Next, vars, Process, Start, ProcessTxs, ProcessMsg, NewBlock, Setup, SetupTablesFails, SetupHandlerFails,
      Exit, Crash, Panic, Signal, StartFailed, Stop, RetrieveBlock, NoBlock, ContextDone, LockMu, LookupTxFails,
      StoreTxFails, StoreTx, EndTx, SkipMsg, RejectRoute, HandleFails, Handle, StoreRow, StoreRowFails

\* What is done stays done, unless the process ends uncleanly.
LEMMA DoneKept ==
    ASSUME TypeOK, HeightInv, CursorInv, StopInv, [Next]_vars, unclean' = unclean
    PROVE  /\ \A id \in TxIds : TxDone(id) => TxDone(id)'
           /\ \A id \in MsgIds : (HandleDone(id) => HandleDone(id)') /\ (RowDone(id) => RowDone(id)')
<1>1. stateDB'.Height \in Nat /\ stateDB.Height \in Nat /\ txi \in Nat /\ msgi \in Nat /\ txi' \in Nat
  BY TypeStep DEF TypeOK, ControlOK, Cursor
<1>2. stateDB'.Height >= stateDB.Height
  BY HeightGrows
<1>3. Walking => cursor.Height = stateDB.Height
  BY DEF Walking, CursorInv
<1>4. \A id \in MsgIds : id[1] \in Nat /\ id[2] \in Nat /\ id[3] \in Nat
  BY MsgIdShape, ChainShape
<1>5. \A id \in TxIds : id[1] \in Nat /\ id[2] \in Nat
  BY TxIdShape
<1>6. CASE Walking /\ ~(AtEndOfBlock /\ stateDB'.Height = stateDB.Height + 1)
  <2>1. /\ Walking' /\ cursor'.Height = cursor.Height /\ stateDB'.Height = stateDB.Height
        /\ \/ txi' = txi /\ msgi' = msgi /\ (pc # "tx" => pc' # "tx") /\ (pc # "msg" => pc' # "msg")
           \/ txi' = txi /\ pc # "tx" /\ pc' = "msg" /\ msgi' = msgi + 1
           \/ txi' = txi + 1 /\ pc' = "tx"
           \/ txi' = txi /\ pc = "tx" /\ pc' = "msg" /\ msgi' = 0
    BY <1>6, WalkGoesOn
  <2>2. \A id \in TxIds : Past(id) => Past(id)'
    BY <1>1, <1>5, <2>1 DEF Past
  <2>3. \A id \in MsgIds : PastHandle(id) => PastHandle(id)'
    BY <1>1, <1>4, <2>1 DEF PastHandle
  <2>4. \A id \in MsgIds : PastRow(id) => PastRow(id)'
    BY <1>1, <1>4, <2>1 DEF PastRow
  <2>. QED  BY <1>6, <2>1, <2>2, <2>3, <2>4 DEF TxDone, HandleDone, RowDone
<1>7. CASE Walking /\ stateDB'.Height = stateDB.Height + 1
  BY <1>1, <1>3, <1>4, <1>5, <1>7 DEF TxDone, HandleDone, RowDone, Past, PastHandle, PastRow
<1>8. CASE ~Walking
  BY <1>1, <1>2, <1>4, <1>5, <1>8 DEF TxDone, HandleDone, RowDone
<1>. QED  BY <1>6, <1>7, <1>8

-----------------------------------------------------------------------------
(* The bound is kept by every step.                                        *)

\* An unclean end writes nothing: all that was written is within the bound it raises.
LEMMA UncleanFrame ==
    ASSUME TypeOK, [Next]_vars, unclean' # unclean
    PROVE  /\ unclean' = unclean + 1 /\ UNCHANGED store
           /\ pc' = "rowFatal" => UpdateCursorMsgFails
<1>1. Crash \/ EndBlockFails \/ UpdateCursorMsgFails
  BY DEF Next, vars, counters, Process, Start, ProcessTxs, ProcessMsg, NewBlock, NewIndexer, Setup,
         SetupTablesFails, SetupHandlerFails, Exit, Panic, Signal, StartFailed, Stop, RetrieveBlock, NoBlock,
         ContextDone, LockMu, LookupTxFails, StoreTxFails, StoreTx, EndTx, EndBlock, SkipMsg, RejectRoute,
         HandleFails, Handle, UpdateCursorMsg, UpdateCursor, StoreRow, StoreRowFails, Fault
<1>. QED
  BY <1>1 DEF Crash, LoseMemory, EndBlockFails, UpdateCursorMsgFails, UpdateCursorFails, counters

LEMMA ReplayUnclean ==
    ASSUME TypeOK, CursorInv, ReplayInv, [Next]_vars, unclean' # unclean
    PROVE  ReplayInv'
<1>1. unclean' = unclean + 1 /\ UNCHANGED <<txes, messages, handled>> /\ unclean \in Nat
  BY UncleanFrame DEF store, TypeOK, CountersOK
<1>2. ASSUME NEW id \in TxIds  PROVE txes'[id] <= Allowed(TxDone(id))'
  <2>1. txes[id] \in Nat /\ txes[id] <= Allowed(TxDone(id))
    BY DEF ReplayInv, TypeOK, StoreOK
  <2>. QED  BY <1>1, <2>1 DEF Allowed
<1>3. ASSUME NEW id \in MsgIds
      PROVE  handled'[id] <= Allowed(HandleDone(id))' /\ Rows(id)' <= Allowed(RowDone(id))'
  <2>1. /\ handled[id] \in Nat /\ handled[id] <= Allowed(HandleDone(id))
        /\ Rows(id) \in Nat /\ Rows(id) <= Allowed(RowDone(id)) /\ Rows(id)' = Rows(id)
    BY <1>1, RowsAreNat DEF ReplayInv, TypeOK, Rows
  <2>. QED  BY <1>1, <2>1 DEF Allowed
<1>4. ASSUME pc' = "rowFatal"  PROVE (Rows(MsgId) + 1 <= unclean)'
  <2>1. /\ pc = "cursor" /\ cursor'.Height = cursor.Height /\ txi' = txi /\ msgi' = msgi
        /\ cursor.Height = stateDB.Height
    BY <1>4, UncleanFrame
    DEF UpdateCursorMsgFails, UpdateCursorFails, CursorAtMsg, CursorAt, position, CursorInv
  <2>2. MsgId \in MsgIds /\ Rows(MsgId) \in Nat /\ Rows(MsgId) <= Allowed(RowDone(MsgId))
    BY <2>1, CurrentIds, RowsAreNat DEF ReplayInv, TypeOK
  <2>3. ~RowDone(MsgId)
    BY <2>1 DEF RowDone, PastRow, MsgId, TypeOK, ControlOK, Cursor
  <2>4. MsgId' = MsgId
    BY <2>1 DEF MsgId
  <2>. QED  BY <1>1, <2>2, <2>3, <2>4 DEF Allowed, Rows
<1>. QED  BY <1>2, <1>3, <1>4 DEF ReplayInv

\* What is written once more was not done yet in this run of the process.
LEMMA ReplayTx ==
    ASSUME TypeOK, CursorInv, ReplayInv, StoreTx \/ StoreTxFails, unclean' = unclean,
           \A id \in TxIds : TxDone(id) => TxDone(id)'
    PROVE  \A id \in TxIds : txes'[id] <= Allowed(TxDone(id))'
<1>. TAKE id \in TxIds
<1>1. txes[id] \in Nat /\ txes[id] <= Allowed(TxDone(id)) /\ unclean \in Nat
  BY DEF ReplayInv, TypeOK, StoreOK, CountersOK
<1>2. CASE txes'[id] = txes[id]
  BY <1>1, <1>2 DEF Allowed
<1>3. CASE txes'[id] # txes[id]
  <2>1. /\ AtTx /\ ~Closed /\ db = "ok" /\ txes' = TxInserted
        /\ cursor' = cursor /\ stateDB' = stateDB /\ stopper' = stopper /\ db' # "nil"
        /\ (pc' = "tx" /\ txi' = txi + 1) \/ (pc' = "msg" /\ txi' = txi)
    <3>1. CASE StoreTx
      BY <1>3, <3>1 DEF StoreTx, NextTx, AtTx
    <3>2. CASE StoreTxFails
      BY <1>3, <3>2 DEF StoreTxFails, NextTx, AtTx
    <3>. QED  BY <3>1, <3>2
  <2>2. id = TxId /\ txes'[id] = txes[id] + 1
    BY <1>3, <2>1 DEF TxInserted, TypeOK, StoreOK
  <2>3. id[1] = cursor.Height /\ id[2] = txi /\ txi \in Nat /\ cursor.Height = stateDB.Height
        /\ stateDB.Height \in Nat /\ pc = "tx"
    BY <2>1, <2>2 DEF TxId, TypeOK, ControlOK, Cursor, CursorInv, AtTx
  <2>4. ~TxDone(id)
    BY <2>3 DEF TxDone, Past
  <2>5. TxDone(id)'
    BY <2>1, <2>3 DEF TxDone, Past, Walking, Closed
  <2>. QED  BY <1>1, <2>2, <2>4, <2>5 DEF Allowed
<1>. QED  BY <1>2, <1>3

LEMMA ReplayHandle ==
    ASSUME TypeOK, CursorInv, StopInv, ReplayInv, Handle, unclean' = unclean,
           \A id \in MsgIds : HandleDone(id) => HandleDone(id)'
    PROVE  \A id \in MsgIds : handled'[id] <= Allowed(HandleDone(id))'
<1>. TAKE id \in MsgIds
<1>1. handled[id] \in Nat /\ handled[id] <= Allowed(HandleDone(id)) /\ unclean \in Nat
  BY DEF ReplayInv, TypeOK, StoreOK, CountersOK
<1>2. CASE handled'[id] = handled[id]
  BY <1>1, <1>2 DEF Allowed
<1>3. CASE handled'[id] # handled[id]
  <2>1. /\ pc = "msg" /\ db = "ok" /\ ~Closed /\ pc' = "cursor"
        /\ handled' = [handled EXCEPT ![MsgId] = @ + 1]
        /\ UNCHANGED <<cursor, stateDB, txi, msgi, stopper, db>>
    BY DEF Handle, AtMsg, StopInv
  <2>2. id = MsgId /\ handled'[id] = handled[id] + 1
    BY <1>3, <2>1 DEF TypeOK, StoreOK
  <2>3. /\ id[1] = cursor.Height /\ id[2] = txi /\ id[3] = msgi /\ cursor.Height = stateDB.Height
        /\ txi \in Nat /\ msgi \in Nat /\ stateDB.Height \in Nat
    BY <2>1, <2>2 DEF MsgId, TypeOK, ControlOK, Cursor, CursorInv
  <2>4. ~HandleDone(id)
    BY <2>1, <2>3 DEF HandleDone, PastHandle
  <2>5. HandleDone(id)'
    BY <2>1, <2>3 DEF HandleDone, PastHandle, Walking, Closed
  <2>. QED  BY <1>1, <2>2, <2>4, <2>5 DEF Allowed
<1>. QED  BY <1>2, <1>3

LEMMA ReplayRow ==
    ASSUME TypeOK, CursorInv, StopInv, ReplayInv, StoreRow \/ StoreRowFails, unclean' = unclean,
           \A id \in MsgIds : RowDone(id) => RowDone(id)'
    PROVE  \A id \in MsgIds : Rows(id)' <= Allowed(RowDone(id))'
<1>. TAKE id \in MsgIds
<1>1. Rows(id) \in Nat /\ Rows(id) <= Allowed(RowDone(id)) /\ unclean \in Nat
  BY RowsAreNat DEF ReplayInv, TypeOK, CountersOK
<1>2. CASE Rows(id)' = Rows(id)
  BY <1>1, <1>2 DEF Allowed
<1>3. CASE Rows(id)' # Rows(id)
  <2>1. pc \in {"row", "rowFatal"} /\ messages' = RowInserted /\ UNCHANGED <<cursor, txi>>
    BY <1>3, RowFrame DEF Rows
  <2>2. id = MsgId /\ Rows(id)' = Rows(id) + 1
    BY <1>3, <2>1, InsertedRow
  <2>3. CASE pc = "rowFatal"
    <3>1. Rows(id) + 1 <= unclean
      BY <2>2, <2>3 DEF ReplayInv
    <3>. QED  BY <1>1, <2>2, <3>1 DEF Allowed
  <2>4. CASE pc = "row"
    <3>1. /\ ~Closed /\ db \in {"ok", "error"} /\ db' \in {"ok", "error"}
          /\ UNCHANGED <<stateDB, stopper>> /\ pc' = "msg" /\ msgi' = msgi + 1
      <4>1. CASE StoreRow
        BY <2>4, <4>1 DEF StopInv, StoreRow, LeaveMsg
      <4>2. CASE StoreRowFails
        BY <2>4, <4>2 DEF StopInv, StoreRowFails, LeaveMsg
      <4>. QED  BY <4>1, <4>2
    <3>2. /\ id[1] = cursor.Height /\ id[2] = txi /\ id[3] = msgi /\ cursor.Height = stateDB.Height
          /\ txi \in Nat /\ msgi \in Nat /\ stateDB.Height \in Nat
      BY <2>2, <2>4 DEF MsgId, TypeOK, ControlOK, Cursor, CursorInv
    <3>3. ~RowDone(id)
      BY <2>4, <3>2 DEF RowDone, PastRow
    <3>4. RowDone(id)'
      BY <2>1, <3>1, <3>2 DEF RowDone, PastRow, Walking, Closed
    <3>. QED  BY <1>1, <2>2, <3>3, <3>4 DEF Allowed
  <2>. QED  BY <2>1, <2>3, <2>4
<1>. QED  BY <1>2, <1>3

LEMMA ReplayStep ==
    ASSUME TypeOK, HeightInv, CursorInv, StopInv, ReplayInv, [Next]_vars, unclean' = unclean
    PROVE  ReplayInv'
<1>1. /\ \A id \in TxIds : TxDone(id) => TxDone(id)'
      /\ \A id \in MsgIds : (HandleDone(id) => HandleDone(id)') /\ (RowDone(id) => RowDone(id)')
  BY DoneKept
<1>2. unclean \in Nat
  BY DEF TypeOK, CountersOK
<1>3. txes' = txes => \A id \in TxIds : txes'[id] <= Allowed(TxDone(id))'
  <2>1. \A id \in TxIds : txes[id] \in Nat /\ txes[id] <= Allowed(TxDone(id))
    BY DEF ReplayInv, TypeOK, StoreOK
  <2>. QED  BY <1>1, <1>2, <2>1 DEF Allowed
<1>4. handled' = handled => \A id \in MsgIds : handled'[id] <= Allowed(HandleDone(id))'
  <2>1. \A id \in MsgIds : handled[id] \in Nat /\ handled[id] <= Allowed(HandleDone(id))
    BY DEF ReplayInv, TypeOK, StoreOK
  <2>. QED  BY <1>1, <1>2, <2>1 DEF Allowed
<1>5. messages' = messages => \A id \in MsgIds : Rows(id)' <= Allowed(RowDone(id))'
  <2>1. \A id \in MsgIds : Rows(id) \in Nat /\ Rows(id) <= Allowed(RowDone(id))
    BY RowsAreNat DEF ReplayInv, TypeOK
  <2>2. messages' = messages => \A id \in MsgIds : Rows(id)' = Rows(id)
    BY DEF Rows
  <2>. QED  BY <1>1, <1>2, <2>1, <2>2 DEF Allowed
<1>6. /\ txes' = NoTxes => \A id \in TxIds : txes'[id] <= Allowed(TxDone(id))'
      /\ handled' = NoHandled => \A id \in MsgIds : handled'[id] <= Allowed(HandleDone(id))'
      /\ messages' = NoMessages => \A id \in MsgIds : Rows(id)' <= Allowed(RowDone(id))'
  BY <1>2 DEF NoTxes, NoHandled, NoMessages, Rows, Allowed
<1>7. \A id \in TxIds : txes'[id] <= Allowed(TxDone(id))'
  BY <1>1, <1>3, <1>6, StoreFrame, ReplayTx
  DEF Setup, SetupTablesFails, SetupHandlerFails, store, Handle, StoreRow, StoreRowFails
<1>8. \A id \in MsgIds : handled'[id] <= Allowed(HandleDone(id))'
  BY <1>1, <1>4, <1>6, StoreFrame, ReplayHandle
  DEF Setup, SetupTablesFails, SetupHandlerFails, store, StoreTx, StoreTxFails, StoreRow, StoreRowFails
<1>9. \A id \in MsgIds : Rows(id)' <= Allowed(RowDone(id))'
  BY <1>1, <1>5, <1>6, StoreFrame, ReplayRow
  DEF Setup, SetupTablesFails, SetupHandlerFails, store, StoreTx, StoreTxFails, Handle
<1>10. ASSUME pc' = "rowFatal"  PROVE (Rows(MsgId) + 1 <= unclean)'
  <2>1. pc = "rowFatal" /\ UNCHANGED <<cursor, position, messages>>
    <3>1. ~UpdateCursorMsgFails
      BY <1>2 DEF UpdateCursorMsgFails, UpdateCursorFails
    <3>. QED
      BY <1>10, <3>1
      DEF Next, vars, store, position, Process, Start, ProcessTxs, ProcessMsg, NewBlock, NewIndexer, Setup,
          SetupTablesFails, SetupHandlerFails, LoseMemory, Exit, Crash, Panic, Signal, StartFailed, Stop,
          RetrieveBlock, NoBlock, ContextDone, LockMu, LookupTxFails, StoreTxFails, StoreTx, NextTx, AtTx,
          EndTx, EndBlock, EndBlockFails, SkipMsg, RejectRoute, HandleFails, Handle, AtMsg, UpdateCursorMsg,
          StoreRow, StoreRowFails, LeaveMsg
  <2>. QED  BY <2>1 DEF ReplayInv, Rows, MsgId, position
<1>. QED  BY <1>7, <1>8, <1>9, <1>10 DEF ReplayInv

\* However the process is stopped and killed, and whatever fails: an effect, a row of a
\* message and a row of a transaction appear once, plus once per crash and per failed write
\* of the cursor.
THEOREM RepeatsBounded == Spec => []ReplayBound
<1>1. Init => ReplayInv
  <2>. SUFFICES ASSUME Init  PROVE ReplayInv
    OBVIOUS
  <2>1. unclean = 0 /\ pc = "down"
    BY DEF Init
  <2>2. \A id \in TxIds : txes[id] = 0
    BY DEF Init, NoTxes
  <2>3. \A id \in MsgIds : handled[id] = 0 /\ Rows(id) = 0
    BY DEF Init, NoMessages, NoHandled, Rows
  <2>. QED  BY <2>1, <2>2, <2>3 DEF ReplayInv, Allowed
<1>2. TypeOK /\ HeightInv /\ CursorInv /\ StopInv /\ ReplayInv /\ [Next]_vars => ReplayInv'
  BY ReplayStep, ReplayUnclean
<1>3. TypeOK /\ ReplayInv => ReplayBound
  <2>. SUFFICES ASSUME TypeOK, ReplayInv  PROVE ReplayBound
    OBVIOUS
  <2>1. unclean \in Nat
    BY DEF TypeOK, CountersOK
  <2>2. ASSUME NEW id \in MsgIds  PROVE handled[id] <= 1 + unclean /\ Rows(id) <= 1 + unclean
    BY <2>1, RowsAreNat DEF ReplayInv, Allowed, TypeOK
  <2>3. ASSUME NEW id \in TxIds  PROVE txes[id] <= 1 + unclean
    BY <2>1 DEF ReplayInv, Allowed, TypeOK, StoreOK
  <2>. QED  BY <2>2, <2>3 DEF ReplayBound
<1>. QED  BY <1>1, <1>2, <1>3, TypeCorrect, CursorInvariant, StopInvariant, PTL DEF Spec
=============================================================================
