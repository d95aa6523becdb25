----------------------------- MODULE FeedProofs -----------------------------
(***************************************************************************)
(* Proof that Indexer implements MessageFeed, whatever the crashes, stops  *)
(* and failed writes of the cursor, when the node and Postgres do not fail *)
(* and only the last transaction of a block has several messages.          *)
(***************************************************************************)
EXTENDS ReplayProofs

\* Only the last transaction of a block that promises messages promises several: the cursor
\* of a message would be taken for one in the transactions after it.
SeveralOnlyLast ==
    \A a, b \in Promised : a[1] = b[1] /\ a[2] < b[2] => a[3] = 0

BeforeStored(id) ==
    Before(id[1], id[2], id[3], stateDB.Height, stateDB.TxIndex, stateDB.MsgID)

\* Every promised message before the stored cursor has its row, and so has every one that an
\* open process has gone past in its block.
PastStored ==
    /\ \A id \in Promised : BeforeStored(id) => Rows(id) > 0
    /\ MuHeld /\ ~Closed => \A id \in Promised : PastRow(id) => Rows(id) > 0

\* The cursor lies on a promised message or before all messages; the block at hand exists,
\* and the transaction at hand was not left out.
WellPlaced ==
    /\ stateDB.MsgID > 0 => <<stateDB.Height, stateDB.TxIndex, stateDB.MsgID>> \in Promised
    /\ pc \in {"fetched", "tx", "msg", "cursor", "row", "rowFatal"} => cursor.Height <= chainHeight
    /\ pc \in {"msg", "cursor", "row", "rowFatal"} => ~Rejected(CurrentTx) /\ CurrentTx.decodes
    /\ pc = "rowFatal" => cursor.Height = stateDB.Height

FeedInv == PastStored /\ WellPlaced

-----------------------------------------------------------------------------
LEMMA PromisedShape ==
    ASSUME NEW id \in Promised
    PROVE  /\ id \in MsgIds /\ id = <<id[1], id[2], id[3]>>
           /\ id[1] \in Nat /\ id[1] >= 1 /\ id[2] \in Nat /\ id[3] \in Nat
           /\ id[2] < NumTxs(id[1]) /\ id[3] < NumMsgs(id[1], id[2])
           /\ NumTxs(id[1]) \in Nat /\ NumMsgs(id[1], id[2]) \in Nat
           /\ ~Rejected(TxAt(id[1], id[2])) /\ TxAt(id[1], id[2]).decodes
<1>1. id \in MsgIds /\ ~Rejected(TxAt(id[1], id[2])) /\ TxAt(id[1], id[2]).decodes
  BY DEF Promised
<1>. QED  BY <1>1, MsgIdShape, ChainShape

LEMMA CurrentPromised ==
    ASSUME TypeOK, WellPlaced, AtMsg \/ pc \in {"cursor", "row", "rowFatal"}
    PROVE  MsgId \in Promised
<1>1. MsgId \in MsgIds /\ ~Rejected(CurrentTx) /\ CurrentTx.decodes
  BY CurrentIds DEF WellPlaced, AtMsg
<1>. QED  BY <1>1 DEF Promised, MsgId, CurrentTx

\* The numbers in the state.
LEMMA Numbers ==
    ASSUME TypeOK
    PROVE  /\ cursor.Height \in Nat /\ cursor.TxIndex \in Nat /\ cursor.MsgID \in Nat
           /\ stateDB.Height \in Nat /\ stateDB.TxIndex \in Nat /\ stateDB.MsgID \in Nat
           /\ txi \in Nat /\ msgi \in Nat /\ chainHeight \in Nat
BY ChainAssumption DEF TypeOK, ControlOK, Cursor

\* Only the insert of a message row changes `messages`, and none fails.
LEMMA OnlyStoreRow ==
    ASSUME Reliable, TypeOK, StopInv, TxInv, [Next]_vars
    PROVE  /\ ~StoreRowFails
           /\ messages' = messages \/ (StoreRow /\ messages' = RowInserted)
<1>1. ~StoreRowFails /\ ~SetupTablesFails /\ ~SetupHandlerFails
  BY DEF StoreRowFails, SetupTablesFails, SetupHandlerFails, Fault, Reliable, StopInv, TxInv
<1>2. messages' = messages \/ StoreRow
  BY <1>1, StoreFrame DEF Setup, store, StoreTxFails, StoreTx, Handle, Reliable
<1>. QED  BY <1>1, <1>2 DEF StoreRow

LEMMA RowsKept ==
    ASSUME Reliable, TypeOK, StopInv, TxInv, [Next]_vars, NEW id \in Promised, Rows(id) > 0
    PROVE  Rows(id)' > 0
<1>1. id \in MsgIds /\ Rows(id) \in Nat
  BY PromisedShape, RowsAreNat DEF TypeOK
<1>2. CASE messages' = messages
  BY <1>2 DEF Rows
<1>3. CASE StoreRow /\ messages' = RowInserted
  <2>1. Rows(id)' = Rows(id) \/ Rows(id)' = Rows(id) + 1
    BY <1>1, <1>3, InsertedRow DEF StoreRow
  <2>. QED  BY <1>1, <2>1
<1>. QED  BY <1>2, <1>3, OnlyStoreRow

\* A message that SkipMsg leaves out lies before the cursor: the message number of the
\* cursor counts in its own transaction only.
LEMMA SkippedBefore ==
    ASSUME SeveralOnlyLast, TypeOK, CursorInv, WellPlaced, AtMsg, IsOldMsg
    PROVE  BeforeStored(MsgId)
<1>1. /\ MsgId \in Promised /\ MsgId[1] = cursor.Height /\ MsgId[2] = txi /\ MsgId[3] = msgi
      /\ cursor = stateDB /\ txi >= cursor.TxIndex
  BY CurrentPromised DEF MsgId, CursorInv, AtMsg
<1>2. <<stateDB.Height, stateDB.TxIndex, stateDB.MsgID>> \in Promised
  BY <1>1, Numbers DEF IsOldMsg, WellPlaced
<1>3. stateDB.MsgID > 0
  BY <1>1, Numbers DEF IsOldMsg
<1>4. ~(stateDB.TxIndex < txi)
  <2>. DEFINE a == <<stateDB.Height, stateDB.TxIndex, stateDB.MsgID>>
  <2>1. a \in Promised /\ a[1] = stateDB.Height /\ a[2] = stateDB.TxIndex /\ a[3] = stateDB.MsgID
    BY <1>2
  <2>. HIDE DEF a
  <2>2. a[1] = MsgId[1] /\ a[2] < MsgId[2] => a[3] = 0
    BY <1>1, <2>1 DEF SeveralOnlyLast
  <2>. QED  BY <1>1, <1>3, <2>1, <2>2, Numbers
<1>. QED  BY <1>1, <1>4, Numbers DEF BeforeStored, Before, IsOldMsg

-----------------------------------------------------------------------------
(* The invariant.                                                          *)

LEMMA PastStep ==
    ASSUME Reliable, SeveralOnlyLast, TypeOK, CursorInv, StopInv, TxInv, PastStored, WellPlaced,
           [Next]_vars
    PROVE  PastStored'
<1>. SUFFICES ASSUME NEW id \in Promised,
                     BeforeStored(id)' \/ (MuHeld' /\ ~Closed' /\ PastRow(id)')
              PROVE  Rows(id)' > 0
  BY DEF PastStored
<1>a. /\ id[1] \in Nat /\ id[1] >= 1 /\ id[2] \in Nat /\ id[3] \in Nat
      /\ id[2] < NumTxs(id[1]) /\ id[3] < NumMsgs(id[1], id[2])
      /\ NumTxs(id[1]) \in Nat /\ NumMsgs(id[1], id[2]) \in Nat
      /\ ~Rejected(TxAt(id[1], id[2])) /\ TxAt(id[1], id[2]).decodes
      /\ id = <<id[1], id[2], id[3]>>
  BY PromisedShape
<1>b. /\ cursor.Height \in Nat /\ cursor.TxIndex \in Nat /\ cursor.MsgID \in Nat
      /\ stateDB.Height \in Nat /\ stateDB.TxIndex \in Nat /\ stateDB.MsgID \in Nat
      /\ txi \in Nat /\ msgi \in Nat
  BY Numbers
<1>c. BeforeStored(id) \/ (MuHeld /\ ~Closed /\ PastRow(id)) => Rows(id)' > 0
  BY RowsKept DEF PastStored
<1>. SUFFICES ASSUME ~BeforeStored(id), ~(MuHeld /\ ~Closed /\ PastRow(id))
              PROVE  Rows(id)' > 0
  BY <1>c
<1>1. CASE UNCHANGED <<cursor, stateDB, pc, txi, msgi, stopper>>
  BY <1>1 DEF BeforeStored, MuHeld, Closed, PastRow
<1>2. CASE stateDB' = stateDB /\ ~MuHeld'
  BY <1>2 DEF BeforeStored
<1>3. CASE NewIndexer
  <2>1. stateDB' = stateDB \/ stateDB' = CursorAt(1, 0, 0)
    BY <1>3 DEF NewIndexer
  <2>2. ~BeforeStored(id)'
    BY <1>a, <2>1 DEF BeforeStored, Before, CursorAt
  <2>. QED  BY <1>3, <2>2 DEF NewIndexer, MuHeld
<1>4. CASE Signal \/ StartFailed \/ Stop
  BY <1>4 DEF Signal, StartFailed, Stop, BeforeStored, MuHeld, Closed, PastRow, position
<1>5. CASE LockMu
  <2>1. ~PastRow(id)'
    BY <1>a, <1>5 DEF LockMu, PastRow
  <2>. QED  BY <1>5, <2>1 DEF LockMu, BeforeStored
<1>6. CASE StoreTxFails
  <2>1. Closed /\ UNCHANGED <<stopper, stateDB>>
    BY <1>6 DEF StoreTxFails, Fault, Reliable, TxInv
  <2>. QED  BY <2>1 DEF BeforeStored, Closed
<1>7. CASE StoreTx
  <2>1. /\ pc = "tx" /\ ~Closed /\ UNCHANGED <<cursor, stateDB, stopper>> /\ cursor = stateDB
        /\ \/ txi' = txi + 1 /\ pc' = "tx" /\ (Rejected(CurrentTx) \/ IsOldTx \/ ~CurrentTx.decodes)
           \/ txi' = txi /\ pc' = "msg" /\ msgi' = 0
    BY <1>7 DEF StoreTx, NextTx, AtTx, CursorInv
  <2>2. PastRow(id)' /\ ~PastRow(id)
    BY <2>1 DEF BeforeStored, MuHeld
  <2>3. id[1] = cursor.Height /\ id[2] = txi /\ txi' = txi + 1
    BY <1>a, <1>b, <2>1, <2>2 DEF PastRow
  <2>4. IsOldTx
    BY <1>a, <1>b, <2>1, <2>3 DEF CurrentTx
  <2>. QED  BY <1>b, <2>1, <2>3, <2>4 DEF IsOldTx, BeforeStored, Before
<1>8. CASE EndTx
  <2>1. /\ pc = "msg" /\ pc' = "tx" /\ txi' = txi + 1 /\ UNCHANGED <<cursor, stateDB, stopper>>
        /\ ~(msgi < NumMsgs(cursor.Height, txi))
    BY <1>8 DEF EndTx, AtMsg
  <2>2. PastRow(id)' /\ ~PastRow(id)
    BY <2>1 DEF BeforeStored, MuHeld, Closed
  <2>. QED  BY <1>a, <1>b, <2>1, <2>2 DEF PastRow
<1>9. CASE EndBlock \/ EndBlockFails
  <2>1. /\ pc = "tx" /\ txi = NumTxs(cursor.Height) /\ pc' \in {"poll", "returned"} /\ cursor = stateDB
        /\ stateDB' = stateDB \/ (~Closed /\ stateDB' = NextBlock)
    BY <1>9 DEF EndBlock, EndBlockFails, AtEndOfBlock, UpdateCursor, UpdateCursorFails, CursorInv
  <2>2. BeforeStored(id)'
    BY <2>1 DEF MuHeld
  <2>3. ~Closed /\ stateDB' = NextBlock
    BY <2>1, <2>2 DEF BeforeStored
  <2>4. id[1] < cursor.Height + 1
    BY <1>a, <2>2, <2>3 DEF BeforeStored, Before, NextBlock, CursorAt
  <2>5. id[1] < cursor.Height \/ (id[1] = cursor.Height /\ id[2] < txi)
    BY <1>a, <1>b, <2>1, <2>4
  <2>. QED  BY <2>1, <2>3, <2>5 DEF BeforeStored, Before, PastRow, MuHeld
<1>10. CASE SkipMsg
  <2>1. /\ pc = "msg" /\ pc' = "msg" /\ msgi' = msgi + 1 /\ txi' = txi /\ UNCHANGED <<cursor, stateDB, stopper>>
        /\ AtMsg /\ IsOldMsg
    BY <1>10 DEF SkipMsg, AtMsg
  <2>2. PastRow(id)' /\ ~PastRow(id)
    BY <2>1 DEF BeforeStored, MuHeld, Closed
  <2>3. id = MsgId
    BY <1>a, <1>b, <2>1, <2>2 DEF PastRow, MsgId
  <2>. QED  BY <2>1, <2>3, SkippedBefore
<1>11. CASE RejectRoute \/ HandleFails \/ Handle
  <2>1. pc = "msg" /\ pc' \in {"row", "cursor"} /\ UNCHANGED <<cursor, stateDB, txi, msgi, stopper>>
    BY <1>11 DEF RejectRoute, HandleFails, Handle, AtMsg
  <2>. QED  BY <2>1 DEF BeforeStored, MuHeld, Closed, PastRow
<1>12. CASE UpdateCursorMsg \/ UpdateCursorMsgFails
  <2>1. /\ pc = "cursor" /\ pc' \in {"row", "rowFatal"} /\ UNCHANGED <<txi, msgi, stopper>>
        /\ cursor = stateDB /\ cursor'.Height = cursor.Height /\ ~Closed
        /\ stateDB' = stateDB \/ stateDB' = CursorAt(cursor.Height, txi, msgi)
    BY <1>12 DEF UpdateCursorMsg, UpdateCursorMsgFails, UpdateCursor, UpdateCursorFails, CursorAtMsg,
                 CursorAt, CursorInv, StopInv, position
  <2>2. ~PastRow(id)
    BY <2>1 DEF MuHeld
  <2>3. ~PastRow(id)'
    BY <2>1, <2>2 DEF PastRow
  <2>4. ~BeforeStored(id)'
    BY <2>1, <2>2 DEF BeforeStored, Before, CursorAt, PastRow
  <2>. QED  BY <2>3, <2>4
<1>13. CASE StoreRow
  <2>1. /\ pc \in {"row", "rowFatal"} /\ messages' = RowInserted /\ UNCHANGED <<cursor, stateDB, stopper>>
        /\ pc' = "returned" \/ (pc' = "msg" /\ txi' = txi /\ msgi' = msgi + 1)
    BY <1>13 DEF StoreRow, LeaveMsg
  <2>2. ~BeforeStored(id)' /\ pc' # "returned"
    BY <2>1 DEF BeforeStored, MuHeld
  <2>3. PastRow(id)' /\ ~PastRow(id)
    BY <2>1, <2>2 DEF MuHeld, Closed
  <2>4. id = MsgId
    BY <1>a, <1>b, <2>1, <2>2, <2>3 DEF PastRow, MsgId
  <2>5. Rows(id) \in Nat /\ Rows(id)' = Rows(id) + 1
    BY <2>1, <2>4, PromisedShape, RowsAreNat, InsertedRow DEF TypeOK
  <2>. QED  BY <2>5
<1>. QED
  <2>1. ~LookupTxFails /\ ~SetupTablesFails /\ ~SetupHandlerFails /\ ~StoreRowFails
    BY OnlyStoreRow DEF LookupTxFails, SetupTablesFails, SetupHandlerFails, Fault, Reliable
  <2>2. \/ UNCHANGED <<cursor, stateDB, pc, txi, msgi, stopper>>
        \/ stateDB' = stateDB /\ ~MuHeld'
        \/ NewIndexer \/ Signal \/ StartFailed \/ Stop \/ ProcessTxs \/ ProcessMsg
    BY <2>1 DEF Next, vars, Process, Start, NewBlock, Setup, Exit, Crash, Panic, LoseMemory, RetrieveBlock,
                NoBlock, ContextDone, MuHeld, position
  <2>. QED
    BY <2>1, <2>2, <1>1, <1>2, <1>3, <1>4, <1>5, <1>6, <1>7, <1>8, <1>9, <1>10, <1>11, <1>12, <1>13
    DEF ProcessTxs, ProcessMsg

LEMMA WellPlacedStep ==
    ASSUME Reliable, TypeOK, CursorInv, StopInv, TxInv, WellPlaced, [Next]_vars
    PROVE  WellPlaced'
<1>a. /\ cursor.Height \in Nat /\ stateDB.MsgID \in Nat /\ chainHeight \in Nat /\ msgi \in Nat
  BY Numbers
<1>1. CASE /\ UNCHANGED <<cursor, stateDB, pc, txi, msgi>>
           /\ chainHeight' = chainHeight \/ chainHeight' = chainHeight + 1
  BY <1>a, <1>1 DEF WellPlaced, CurrentTx, TxAt, Rejected
<1>2. CASE /\ stateDB' = stateDB
           /\ pc' \notin {"fetched", "tx", "msg", "cursor", "row", "rowFatal"}
  BY <1>2 DEF WellPlaced
<1>3. CASE NewIndexer
  BY <1>3 DEF NewIndexer, WellPlaced, CursorAt
<1>4. CASE RetrieveBlock
  BY <1>4 DEF RetrieveBlock, WellPlaced
<1>5. CASE LockMu
  BY <1>5 DEF LockMu, WellPlaced
<1>6. CASE StoreTxFails
  BY <1>6 DEF StoreTxFails, NextTx, AtTx, WellPlaced
<1>7. CASE StoreTx
  <2>1. /\ pc = "tx" /\ UNCHANGED <<chainHeight, cursor, stateDB>>
        /\ pc' = "tx" \/ (pc' = "msg" /\ txi' = txi /\ ~Rejected(CurrentTx) /\ CurrentTx.decodes)
    BY <1>7 DEF StoreTx, NextTx, AtTx, Rejected
  <2>. QED  BY <2>1 DEF WellPlaced, CurrentTx, TxAt, Rejected
<1>8. CASE EndTx
  BY <1>8 DEF EndTx, WellPlaced
<1>9. CASE EndBlock \/ EndBlockFails
  <2>1. /\ pc' \in {"poll", "returned"}
        /\ stateDB' = stateDB \/ stateDB' = NextBlock
    BY <1>9 DEF EndBlock, EndBlockFails, UpdateCursor, UpdateCursorFails
  <2>. QED  BY <2>1 DEF WellPlaced, NextBlock, CursorAt
<1>10. CASE SkipMsg \/ RejectRoute \/ HandleFails \/ Handle
  <2>1. /\ pc = "msg" /\ pc' \in {"msg", "row", "cursor"} /\ txi' = txi
        /\ UNCHANGED <<chainHeight, cursor, stateDB>>
    BY <1>10 DEF SkipMsg, RejectRoute, HandleFails, Handle, AtMsg
  <2>. QED  BY <2>1 DEF WellPlaced, CurrentTx, TxAt, Rejected
<1>11. CASE UpdateCursorMsg \/ UpdateCursorMsgFails
  <2>1. /\ pc = "cursor" /\ pc' \in {"row", "rowFatal"} /\ txi' = txi /\ chainHeight' = chainHeight
        /\ cursor = stateDB /\ cursor' = CursorAt(cursor.Height, txi, msgi)
        /\ stateDB' = stateDB \/ stateDB' = CursorAt(cursor.Height, txi, msgi)
    BY <1>11 DEF UpdateCursorMsg, UpdateCursorMsgFails, UpdateCursor, UpdateCursorFails, CursorAtMsg,
                 CursorInv, position
  <2>2. <<cursor.Height, txi, msgi>> \in Promised
    BY <2>1, CurrentPromised DEF MsgId
  <2>. QED  BY <2>1, <2>2 DEF WellPlaced, CurrentTx, TxAt, Rejected, CursorAt
<1>12. CASE StoreRow
  <2>1. /\ pc \in {"row", "rowFatal"} /\ pc' \in {"msg", "returned"} /\ txi' = txi
        /\ UNCHANGED <<chainHeight, cursor, stateDB>>
    BY <1>12 DEF StoreRow, LeaveMsg, position
  <2>. QED  BY <2>1 DEF WellPlaced, CurrentTx, TxAt, Rejected
<1>. QED
  <2>1. ~LookupTxFails /\ ~SetupTablesFails /\ ~SetupHandlerFails /\ ~StoreRowFails
    BY OnlyStoreRow DEF LookupTxFails, SetupTablesFails, SetupHandlerFails, Fault, Reliable
  <2>2. \/ /\ UNCHANGED <<cursor, stateDB, pc, txi, msgi>>
           /\ chainHeight' = chainHeight \/ chainHeight' = chainHeight + 1
        \/ /\ stateDB' = stateDB
           /\ pc' \notin {"fetched", "tx", "msg", "cursor", "row", "rowFatal"}
        \/ NewIndexer \/ RetrieveBlock \/ ProcessTxs \/ ProcessMsg
    BY <2>1 DEF Next, vars, Process, Start, NewBlock, Setup, Exit, Crash, Panic, LoseMemory, Signal,
                StartFailed, Stop, NoBlock, ContextDone, position
  <2>. QED
    BY <2>1, <2>2, <1>1, <1>2, <1>3, <1>4, <1>5, <1>6, <1>7, <1>8, <1>9, <1>10, <1>11, <1>12
    DEF ProcessTxs, ProcessMsg

\* No promised message before the stored cursor, or before the place of a process at work, is
\* without a row.
THEOREM FeedInvariant ==
    ASSUME Reliable, SeveralOnlyLast
    PROVE  Spec => []FeedInv
<1>1. Init => FeedInv
  <2>. SUFFICES ASSUME Init  PROVE FeedInv
    OBVIOUS
  <2>1. pc = "down" /\ stateDB.Height = 0 /\ stateDB.TxIndex = 0 /\ stateDB.MsgID = 0
    BY DEF Init, NoCursor
  <2>2. \A id \in Promised : ~BeforeStored(id)
    BY <2>1, PromisedShape DEF BeforeStored, Before
  <2>. QED  BY <2>1, <2>2 DEF FeedInv, PastStored, WellPlaced, MuHeld
<1>2. /\ TypeOK /\ CursorInv /\ StopInv /\ TxInv /\ FeedInv /\ [Next]_vars
      => FeedInv'
  BY PastStep, WellPlacedStep DEF FeedInv
<1>. QED  BY <1>1, <1>2, TypeCorrect, CursorInvariant, StopInvariant, TxInvariant, PTL DEF Spec

-----------------------------------------------------------------------------
(* The refinement.                                                         *)

Recorded    == {id \in Promised : Rows(id) > 0}
FirstHeight == IF stateDB.Height = 0 THEN 1 ELSE stateDB.Height

\* A row that is new is that of the message at hand, and everything before it is there.
LEMMA RecordStep ==
    ASSUME Reliable, TypeOK, HeightInv, CursorInv, StopInv, TxInv, FeedInv, StoreRow,
           messages' = RowInserted
    PROVE  \/ Recorded' = Recorded
           \/ \E id \in Promised : Feed!Record(id)
<1>. DEFINE me == MsgId
<1>1. /\ pc \in {"row", "rowFatal"} /\ ~Closed /\ MuHeld
      /\ UNCHANGED <<chainHeight, stateDB>>
  BY DEF StoreRow, StopInv, MuHeld
<1>2. me \in Promised /\ me[1] = cursor.Height /\ me[2] = txi /\ me[3] = msgi
  BY <1>1, CurrentPromised DEF FeedInv, MsgId
<1>3. cursor.Height = stateDB.Height /\ cursor.Height >= 1 /\ cursor.Height <= chainHeight
  BY <1>1 DEF FeedInv, WellPlaced, CursorInv, HeightInv
<1>4. \A id \in Promised : Rows(id) \in Nat /\ Rows(id)' = IF id = me THEN Rows(id) + 1 ELSE Rows(id)
  BY <1>1, PromisedShape, RowsAreNat, InsertedRow DEF TypeOK
<1>5. Recorded' = Recorded \cup {me}
  BY <1>2, <1>4 DEF Recorded
<1>6. ASSUME NEW other \in Promised, Feed!Earlier(other, me)  PROVE other \in Recorded
  <2>1. BeforeStored(other) \/ PastRow(other)
    BY <1>1, <1>2, <1>3, <1>6, PromisedShape, Numbers
    DEF Feed!Earlier, BeforeStored, Before, PastRow
  <2>. QED  BY <1>1, <2>1 DEF FeedInv, PastStored, Recorded
<1>7. FirstHeight = cursor.Height /\ FirstHeight' = FirstHeight
  BY <1>1, <1>3, Numbers DEF FirstHeight
<1>8. CASE me \in Recorded
  BY <1>5, <1>8
<1>9. CASE me \notin Recorded
  <2>. HIDE DEF me
  <2>1. Feed!Record(me)
    BY <1>1, <1>2, <1>3, <1>5, <1>6, <1>7, <1>9 DEF Feed!Record, Recorded, FirstHeight
  <2>. QED  BY <1>2, <2>1
<1>. QED  BY <1>8, <1>9

\* A block is passed when all that it promises has rows.
LEMMA PassStep ==
    ASSUME Reliable, TypeOK, HeightInv, CursorInv, TxInv, FeedInv, EndBlock \/ EndBlockFails
    PROVE  /\ Recorded' = Recorded /\ chainHeight' = chainHeight
           /\ FirstHeight' = FirstHeight \/ Feed!PassBlock
<1>1. /\ AtEndOfBlock /\ cursor = stateDB /\ messages' = messages /\ chainHeight' = chainHeight
      /\ stateDB' = stateDB \/ (~Closed /\ stateDB' = NextBlock)
  BY DEF EndBlock, EndBlockFails, AtEndOfBlock, UpdateCursor, UpdateCursorFails, CursorInv, store
<1>2. Recorded' = Recorded
  BY <1>1 DEF Recorded, Rows
<1>3. CASE stateDB' = stateDB
  BY <1>1, <1>2, <1>3 DEF FirstHeight
<1>4. CASE ~Closed /\ stateDB' = NextBlock
  <2>1. cursor.Height >= 1 /\ cursor.Height <= chainHeight /\ cursor.Height \in Nat
    BY <1>1, Numbers DEF AtEndOfBlock, HeightInv, FeedInv, WellPlaced
  <2>2. FirstHeight = cursor.Height /\ FirstHeight' = cursor.Height + 1
    BY <1>1, <1>4, <2>1 DEF FirstHeight, NextBlock, CursorAt
  <2>3. ASSUME NEW id \in Promised, id[1] = cursor.Height  PROVE id \in Recorded
    <3>1. PastRow(id)
      BY <1>1, <2>3, PromisedShape DEF AtEndOfBlock, PastRow
    <3>. QED  BY <1>1, <1>4, <3>1 DEF AtEndOfBlock, MuHeld, FeedInv, PastStored, Recorded
  <2>. QED  BY <1>1, <1>2, <2>1, <2>2, <2>3 DEF Feed!PassBlock, Recorded, FirstHeight
<1>. QED  BY <1>1, <1>2, <1>3, <1>4

LEMMA FeedStep ==
    ASSUME Reliable, TypeOK, HeightInv, CursorInv, StopInv, TxInv, FeedInv, [Next]_vars
    PROVE  Feed!Next \/ (Recorded' = Recorded /\ FirstHeight' = FirstHeight /\ chainHeight' = chainHeight)
<1>1. CASE NewBlock
  <2>1. Recorded' = Recorded /\ FirstHeight' = FirstHeight
    BY <1>1 DEF NewBlock, Recorded, Rows, FirstHeight, store
  <2>2. Feed!Produce
    BY <1>1, <2>1 DEF NewBlock, Feed!Produce, Recorded, FirstHeight
  <2>. QED  BY <2>2 DEF Feed!Next
<1>2. CASE NewIndexer
  <2>1. FirstHeight' = FirstHeight
    BY <1>2, Numbers DEF NewIndexer, FirstHeight, CursorAt, NoCursor
  <2>. QED  BY <1>2, <2>1 DEF NewIndexer, Recorded, Rows, store
<1>3. CASE EndBlock \/ EndBlockFails
  BY <1>3, PassStep DEF Feed!Next
<1>4. CASE StoreRow
  <2>1. FirstHeight' = FirstHeight /\ chainHeight' = chainHeight /\ messages' = RowInserted
    BY <1>4 DEF StoreRow, FirstHeight
  <2>. QED  BY <1>4, <2>1, RecordStep DEF Feed!Next
<1>5. CASE UpdateCursorMsg \/ UpdateCursorMsgFails
  BY <1>5 DEF UpdateCursorMsg, UpdateCursorMsgFails, UpdateCursor, UpdateCursorFails, CursorAtMsg, CursorAt,
              CursorInv, Recorded, Rows, FirstHeight, store
<1>6. CASE UNCHANGED <<chainHeight, stateDB, messages>>
  BY <1>6 DEF Recorded, Rows, FirstHeight
<1>. QED
  <2>1. ~StoreRowFails /\ ~SetupTablesFails /\ ~SetupHandlerFails
    BY OnlyStoreRow DEF SetupTablesFails, SetupHandlerFails, Fault, Reliable
  <2>2. \/ NewBlock \/ NewIndexer \/ EndBlock \/ EndBlockFails \/ StoreRow
        \/ UpdateCursorMsg \/ UpdateCursorMsgFails
        \/ UNCHANGED <<chainHeight, stateDB, messages>>
    BY <2>1 DEF Next, vars, store, Process, Start, ProcessTxs, ProcessMsg, Setup, Exit, Crash, Panic, Signal,
                StartFailed, Stop, RetrieveBlock, NoBlock, ContextDone, LockMu, LookupTxFails, StoreTxFails,
                StoreTx, EndTx, SkipMsg, RejectRoute, HandleFails, Handle, Reliable
  <2>. QED  BY <2>2, <1>1, <1>2, <1>3, <1>4, <1>5, <1>6

\* The rows of the promised messages appear in chain order with no gap, and the stored cursor
\* leaves a block only behind all of them, whatever the crashes, stops and failed writes of
\* the cursor.
THEOREM ImplementsFeed ==
    ASSUME Reliable, SeveralOnlyLast
    PROVE  Spec => FeedSpec
<1>1. Init => Feed!Init
  <2>. SUFFICES ASSUME Init  PROVE Feed!Init
    OBVIOUS
  <2>1. chainHeight = 0 /\ stateDB.Height = 0
    BY DEF Init, NoCursor
  <2>2. \A id \in Promised : Rows(id) = 0
    BY PromisedShape DEF Init, NoMessages, Rows
  <2>. QED  BY <2>1, <2>2 DEF Feed!Init
<1>2. /\ TypeOK /\ HeightInv /\ CursorInv /\ StopInv /\ TxInv /\ FeedInv /\ [Next]_vars
      => [Feed!Next]_(Feed!vars)
  BY FeedStep DEF Feed!vars, Recorded, FirstHeight
<1>. QED
  BY <1>1, <1>2, TypeCorrect, CursorInvariant, StopInvariant, TxInvariant, FeedInvariant, PTL
  DEF Spec, FeedSpec, Feed!Spec
=============================================================================
