--------------------------- MODULE IndexerProofs ---------------------------
(***************************************************************************)
(* Proofs about Indexer, for every chain, every set of faults and every    *)
(* value of the bounds.                                                    *)
(***************************************************************************)
EXTENDS Indexer, TLAPS

-----------------------------------------------------------------------------
(* The chain and the identifiers of its transactions and messages.         *)

\* What the indices of the loops over txs and tx.GetMsgs() range over.
LEMMA ChainShape ==
    ASSUME NEW h \in Heights
    PROVE  /\ h \in Nat /\ h >= 1 /\ h <= Len(Chain)
           /\ NumTxs(h) \in Nat
           /\ \A t \in Nat : t < NumTxs(h) =>
                 /\ TxAt(h, t) \in Tx
                 /\ NumMsgs(h, t) \in Nat
                 /\ \A m \in Nat : m < NumMsgs(h, t) => TxAt(h, t).msgs[m + 1] \in Route
<1>1. Chain[h] \in Seq(Tx) /\ h \in 1 .. Len(Chain)
  BY ChainAssumption DEF Heights
<1>2. NumTxs(h) \in Nat
  BY <1>1 DEF NumTxs
<1>3. ASSUME NEW t \in Nat, t < NumTxs(h)
      PROVE  /\ TxAt(h, t) \in Tx
             /\ NumMsgs(h, t) \in Nat
             /\ \A m \in Nat : m < NumMsgs(h, t) => TxAt(h, t).msgs[m + 1] \in Route
  <2>1. TxAt(h, t) \in Tx
    BY <1>1, <1>3 DEF NumTxs, TxAt
  <2>2. TxAt(h, t).msgs \in Seq(Route)
    BY <2>1 DEF Tx
  <2>. QED  BY <2>1, <2>2 DEF NumMsgs
<1>. QED  BY <1>1, <1>2, <1>3, ChainAssumption

\* The keys of the tables `txes` and `messages`, index by index.
LEMMA TxIdsMember ==
    ASSUME NEW h, NEW t
    PROVE  <<h, t>> \in TxIds <=> h \in Heights /\ t \in 0 .. NumTxs(h) - 1
BY DEF TxIds

LEMMA MsgIdsMember ==
    ASSUME NEW h, NEW t, NEW m
    PROVE  <<h, t, m>> \in MsgIds <=>
              <<h, t>> \in TxIds /\ m \in 0 .. NumMsgs(h, t) - 1
<1>1. ASSUME <<h, t>> \in TxIds, m \in 0 .. NumMsgs(h, t) - 1
      PROVE  <<h, t, m>> \in MsgIds
  <2>. DEFINE id == <<h, t>>
  <2>1. <<id[1], id[2], m>> = <<h, t, m>> /\ m \in 0 .. NumMsgs(id[1], id[2]) - 1
    BY <1>1
  <2>. QED  BY <1>1, <2>1 DEF MsgIds
<1>2. ASSUME <<h, t, m>> \in MsgIds
      PROVE  <<h, t>> \in TxIds /\ m \in 0 .. NumMsgs(h, t) - 1
  <2>1. PICK id \in TxIds : \E n \in 0 .. NumMsgs(id[1], id[2]) - 1 :
           <<h, t, m>> = <<id[1], id[2], n>>
    BY <1>2 DEF MsgIds
  <2>2. id = <<id[1], id[2]>>
    BY <2>1 DEF TxIds
  <2>. QED  BY <2>1, <2>2
<1>. QED  BY <1>1, <1>2

\* Every key of `messages` has the shape <<height, tx, msg>> and a key of `txes` before it.
LEMMA MsgIdShape ==
    ASSUME NEW id \in MsgIds
    PROVE  /\ id = <<id[1], id[2], id[3]>>
           /\ TxOf(id) \in TxIds
           /\ id[1] \in Heights
           /\ id[2] \in Nat /\ id[2] < NumTxs(id[1])
           /\ id[3] \in Nat /\ id[3] < NumMsgs(id[1], id[2])
<1>1. id = <<id[1], id[2], id[3]>>
  BY DEF MsgIds
<1>2. <<id[1], id[2]>> \in TxIds /\ id[3] \in 0 .. NumMsgs(id[1], id[2]) - 1
  BY <1>1, MsgIdsMember
<1>3. id[1] \in Heights /\ id[2] \in 0 .. NumTxs(id[1]) - 1
  BY <1>2, TxIdsMember
<1>4. NumTxs(id[1]) \in Nat
  BY <1>3, ChainShape
<1>5. id[2] \in Nat /\ id[2] < NumTxs(id[1])
  BY <1>3, <1>4
<1>6. NumMsgs(id[1], id[2]) \in Nat
  BY <1>3, <1>5, ChainShape
<1>. QED  BY <1>1, <1>2, <1>3, <1>5, <1>6 DEF TxOf

-----------------------------------------------------------------------------
(* Type correctness.                                                       *)

\* Height 0 stands for "no cursor stored": a running process is past it.
HeightInv ==
    /\ stateDB = NoCursor \/ stateDB.Height >= 1
    /\ pc # "down" => cursor.Height >= 1

\* The message under processMsg is a message of the chain, and so is its transaction.
LEMMA CurrentIds ==
    ASSUME TypeOK
    PROVE  /\ AtTx => TxId \in TxIds /\ CurrentTx \in Tx
           /\ AtMsg \/ pc \in {"cursor", "row", "rowFatal"} => MsgId \in MsgIds
           /\ pc \in {"msg", "cursor", "row"} => NumMsgs(cursor.Height, txi) \in Nat
<1>. USE DEF TypeOK, ControlOK, PositionOK
<1>1. ASSUME AtTx  PROVE TxId \in TxIds /\ CurrentTx \in Tx
  <2>1. cursor.Height \in Heights /\ txi \in Nat /\ txi < NumTxs(cursor.Height)
    BY <1>1 DEF AtTx
  <2>2. NumTxs(cursor.Height) \in Nat /\ TxAt(cursor.Height, txi) \in Tx
    BY <2>1, ChainShape
  <2>. QED  BY <2>1, <2>2, TxIdsMember DEF TxId, CurrentTx
<1>2. ASSUME pc \in {"msg", "cursor", "row"}
      PROVE  /\ NumMsgs(cursor.Height, txi) \in Nat
             /\ AtMsg \/ pc \in {"cursor", "row"} => MsgId \in MsgIds
  <2>1. cursor.Height \in Heights /\ txi \in Nat /\ txi < NumTxs(cursor.Height) /\ msgi \in Nat
    BY <1>2
  <2>2. NumTxs(cursor.Height) \in Nat /\ NumMsgs(cursor.Height, txi) \in Nat
    BY <2>1, ChainShape
  <2>3. <<cursor.Height, txi>> \in TxIds
    BY <2>1, <2>2, TxIdsMember
  <2>4. AtMsg \/ pc \in {"cursor", "row"} => msgi < NumMsgs(cursor.Height, txi)
    BY <1>2 DEF AtMsg
  <2>5. MsgId \in MsgIds <=> msgi \in 0 .. NumMsgs(cursor.Height, txi) - 1
    BY <2>3, MsgIdsMember DEF MsgId
  <2>. QED  BY <2>1, <2>2, <2>4, <2>5
<1>. QED  BY <1>1, <1>2 DEF AtMsg

\* The tables as Setup creates them, and as one insert or one Handle call leaves them.
LEMMA StoreTypes ==
    /\ NoTxes \in [TxIds -> Nat]
    /\ NoMessages \in [MsgIds -> [ok : Nat, failed : Nat]]
    /\ NoHandled \in [MsgIds -> Nat]
    /\ TypeOK => /\ AtTx => TxInserted \in [TxIds -> Nat]
                 /\ pc \in {"row", "rowFatal"} => RowInserted \in [MsgIds -> [ok : Nat, failed : Nat]]
                 /\ AtMsg => [handled EXCEPT ![MsgId] = @ + 1] \in [MsgIds -> Nat]
<1>2. NoMessages \in [MsgIds -> [ok : Nat, failed : Nat]]
  BY DEF NoMessages
<1>3. ASSUME TypeOK, AtTx  PROVE TxInserted \in [TxIds -> Nat]
  BY <1>3, CurrentIds DEF TypeOK, StoreOK, TxInserted
<1>4. ASSUME TypeOK, pc \in {"row", "rowFatal"}
      PROVE  RowInserted \in [MsgIds -> [ok : Nat, failed : Nat]]
  <2>1. messages \in [MsgIds -> [ok : Nat, failed : Nat]] /\ MsgId \in MsgIds /\ failed \in BOOLEAN
    BY <1>4, CurrentIds DEF TypeOK, StoreOK, ControlOK
  <2>2. messages[MsgId] \in [ok : Nat, failed : Nat]
    BY <2>1
  <2>. QED  BY <2>1, <2>2 DEF RowInserted
<1>5. ASSUME TypeOK, AtMsg  PROVE [handled EXCEPT ![MsgId] = @ + 1] \in [MsgIds -> Nat]
  BY <1>5, CurrentIds DEF TypeOK, StoreOK
<1>. QED  BY <1>2, <1>3, <1>4, <1>5 DEF NoTxes, NoHandled

LEMMA ControlStep ==
    ASSUME TypeOK, HeightInv, [Next]_vars
    PROVE  ControlOK' /\ PositionOK' /\ HeightInv'
<1>. USE DEF TypeOK, ControlOK, PositionOK, HeightInv, Cursor, NoCursor, position
<1>1. CASE UNCHANGED vars
  BY <1>1 DEF vars, MsgId, NumTxs, NumMsgs, TxAt, Heights
<1>2. CASE NewBlock
  BY <1>2, ChainAssumption DEF NewBlock, MsgId, NumTxs, NumMsgs, TxAt, Heights
<1>3. CASE NewIndexer
  BY <1>3 DEF NewIndexer, CursorAt
<1>4. CASE Setup \/ SetupHandlerFails
  <2>1. CASE LoseMemory
    <3>1. UNCHANGED <<chainHeight, stateDB>>
      BY <1>4 DEF Setup, SetupHandlerFails
    <3>. QED  BY <2>1, <3>1 DEF LoseMemory
  <2>2. CASE ~LoseMemory
    BY <1>4, <2>2 DEF Setup, SetupHandlerFails
  <2>. QED  BY <2>1, <2>2
<1>5. CASE Exit \/ SetupTablesFails \/ Panic
  <2>1. LoseMemory /\ UNCHANGED <<chainHeight, stateDB>>
    BY <1>5 DEF Exit, SetupTablesFails, Panic
  <2>. QED  BY <2>1 DEF LoseMemory
<1>6. CASE Crash
  BY <1>6 DEF Crash, LoseMemory
<1>7. CASE Signal
  BY <1>7 DEF Signal, MsgId
<1>8. CASE StartFailed
  BY <1>8 DEF StartFailed
<1>9. CASE Stop
  BY <1>9 DEF Stop, MuHeld
<1>10. CASE RetrieveBlock
  BY <1>10, ChainAssumption DEF RetrieveBlock, Heights
<1>11. CASE NoBlock
  BY <1>1, <1>11 DEF NoBlock
<1>12. CASE ContextDone
  BY <1>12 DEF ContextDone
<1>13. CASE ProcessTxs
  <2>. USE CurrentIds, ChainShape DEF AtTx, AtEndOfBlock
  <2>1. CASE LockMu
    BY <2>1 DEF LockMu
  <2>2. CASE LookupTxFails
    BY <2>2 DEF LookupTxFails, NextTx
  <2>3. CASE StoreTxFails
    BY <2>3 DEF StoreTxFails, NextTx
  <2>4. CASE StoreTx
    BY <2>4 DEF StoreTx, NextTx
  <2>5. CASE EndTx
    BY <2>5 DEF EndTx
  <2>6. CASE EndBlock
    BY <2>6 DEF EndBlock, UpdateCursor, NextBlock, CursorAt
  <2>7. CASE EndBlockFails
    BY <2>7 DEF EndBlockFails, UpdateCursorFails, NextBlock, CursorAt
  <2>. QED  BY <1>13, <2>1, <2>2, <2>3, <2>4, <2>5, <2>6, <2>7 DEF ProcessTxs
<1>14. CASE ProcessMsg
  <2>. USE CurrentIds DEF AtMsg
  <2>1. CASE SkipMsg
    BY <2>1 DEF SkipMsg
  <2>2. CASE RejectRoute
    BY <2>2 DEF RejectRoute
  <2>3. CASE HandleFails
    BY <2>3 DEF HandleFails
  <2>4. CASE Handle
    BY <2>4 DEF Handle
  <2>5. CASE UpdateCursorMsg
    BY <2>5 DEF UpdateCursorMsg, UpdateCursor, CursorAtMsg, CursorAt
  <2>6. CASE UpdateCursorMsgFails
    BY <2>6 DEF UpdateCursorMsgFails, UpdateCursorFails, CursorAtMsg, CursorAt, MsgId
  <2>7. CASE StoreRow
    BY <2>7 DEF StoreRow, LeaveMsg
  <2>8. CASE StoreRowFails
    BY <2>8 DEF StoreRowFails, LeaveMsg
  <2>. QED  BY <1>14, <2>1, <2>2, <2>3, <2>4, <2>5, <2>6, <2>7, <2>8 DEF ProcessMsg
<1>. QED
  BY <1>1, <1>2, <1>3, <1>4, <1>5, <1>6, <1>7, <1>8, <1>9, <1>10, <1>11, <1>12, <1>13, <1>14
  DEF Next, Process, Start

\* The actions that write to Postgres; every other action leaves the tables alone.
LEMMA StoreFrame ==
    ASSUME [Next]_vars
    PROVE  \/ UNCHANGED <<txes, messages, handled>>
           \/ Setup \/ SetupTablesFails \/ SetupHandlerFails
           \/ StoreTxFails \/ StoreTx \/ Handle \/ StoreRow \/ StoreRowFails
BY DEF Next, vars, store, Process, Start, ProcessTxs, ProcessMsg, NewBlock, NewIndexer, Exit, Crash,
       Panic, Signal, StartFailed, Stop, RetrieveBlock, NoBlock, ContextDone, LockMu, LookupTxFails, EndTx,
       EndBlock, EndBlockFails, SkipMsg, RejectRoute, HandleFails, UpdateCursorMsg, UpdateCursorMsgFails

LEMMA StoreStep ==
    ASSUME TypeOK, [Next]_vars
    PROVE  StoreOK'
<1>. USE StoreTypes DEF TypeOK, StoreOK
<1>1. CASE UNCHANGED <<txes, messages, handled>>
  BY <1>1
<1>2. CASE Setup \/ SetupTablesFails \/ SetupHandlerFails
  BY <1>2 DEF Setup, SetupTablesFails, SetupHandlerFails, store
<1>3. CASE StoreTxFails
  BY <1>3 DEF StoreTxFails
<1>4. CASE StoreTx
  BY <1>4 DEF StoreTx
<1>5. CASE Handle
  BY <1>5 DEF Handle
<1>6. CASE StoreRow
  BY <1>6 DEF StoreRow
<1>7. CASE StoreRowFails
  BY <1>7 DEF StoreRowFails
<1>. QED  BY StoreFrame, <1>1, <1>2, <1>3, <1>4, <1>5, <1>6, <1>7

\* What each step does to the counters of crashes, signals and failures.
LEMMA CountersFrame ==
    ASSUME [Next]_vars
    PROVE  \/ UNCHANGED <<unclean, stops, faults>>
           \/ unclean < MaxUnclean /\ unclean' = unclean + 1 /\ UNCHANGED <<stops, faults>>
           \/ stops < MaxStops /\ stops' = stops + 1 /\ UNCHANGED <<unclean, faults>>
           \/ faults < MaxFaults /\ faults' = faults + 1 /\ UNCHANGED <<unclean, stops>>
BY DEF Next, vars, counters, Process, Start, ProcessTxs, ProcessMsg, NewBlock, NewIndexer, Setup,
       SetupTablesFails, SetupHandlerFails, Exit, Crash, Panic, Signal, StartFailed, Stop, RetrieveBlock, NoBlock, ContextDone, LockMu, LookupTxFails,
       StoreTxFails, StoreTx, EndTx, EndBlock, EndBlockFails, SkipMsg, RejectRoute, HandleFails, Handle,
       UpdateCursorMsg, UpdateCursorMsgFails, UpdateCursor, UpdateCursorFails, StoreRow, StoreRowFails, Fault

LEMMA CountersStep ==
    ASSUME TypeOK, [Next]_vars
    PROVE  CountersOK'
BY CountersFrame, BoundAssumption DEF TypeOK, CountersOK

LEMMA TypeInit ==
    ASSUME Init
    PROVE  TypeOK /\ HeightInv
<1>1. ControlOK
  <2>1. NoCursor \in Cursor
    BY DEF Cursor, NoCursor
  <2>2. chainHeight \in 0 .. Len(Chain)
    BY ChainAssumption DEF Init
  <2>3. txi \in Nat /\ msgi \in Nat
    BY DEF Init
  <2>. QED  BY <2>1, <2>2, <2>3, Zenon DEF Init, ControlOK
<1>2. PositionOK /\ HeightInv
  BY DEF Init, PositionOK, HeightInv
<1>3. StoreOK
  BY StoreTypes DEF Init, StoreOK
<1>4. CountersOK
  BY BoundAssumption DEF Init, CountersOK
<1>. QED  BY <1>1, <1>2, <1>3, <1>4 DEF TypeOK

LEMMA TypeStep ==
    ASSUME TypeOK, HeightInv, [Next]_vars
    PROVE  TypeOK' /\ HeightInv'
BY ControlStep, StoreStep, CountersStep DEF TypeOK

\* The indexer is type correct, and the position of its loops stays inside the
\* block and the transaction they walk.
THEOREM TypeCorrect == Spec => [](TypeOK /\ HeightInv)
<1>1. Init => TypeOK /\ HeightInv
  BY TypeInit
<1>2. (TypeOK /\ HeightInv) /\ [Next]_vars => (TypeOK /\ HeightInv)'
  BY TypeStep
<1>. QED  BY <1>1, <1>2, PTL DEF Spec

-----------------------------------------------------------------------------
(* The cursor only moves forward, and nothing before it is handled again.  *)

\* While the process runs, the cursor in memory is the stored one; the message it
\* is at is not before it.  After a failed Put the two differ, and then nothing
\* is handled or written any more.
CursorInv ==
    /\ pc \notin {"down", "rowFatal", "returned"} => cursor = stateDB
    /\ pc \in {"msg", "cursor", "row"} => txi >= cursor.TxIndex
    /\ pc = "cursor" => msgi >= cursor.MsgID

\* The actions that move the cursor, the goroutine or the position in the block.
LEMMA CursorFrame ==
    ASSUME [Next]_vars
    PROVE  \/ UNCHANGED <<cursor, stateDB, pc, position>>
           \/ NewIndexer \/ Setup \/ SetupTablesFails \/ SetupHandlerFails
           \/ Exit \/ Crash \/ Panic \/ RetrieveBlock \/ ContextDone
           \/ ProcessTxs \/ ProcessMsg
BY DEF Next, vars, Process, Start, NewBlock, Signal, StartFailed, Stop, NoBlock

LEMMA CursorStep ==
    ASSUME TypeOK, CursorInv, [Next]_vars
    PROVE  CursorInv'
<1>. USE DEF TypeOK, ControlOK, Cursor, CursorInv, position
<1>1. CASE UNCHANGED <<cursor, stateDB, pc, position>>
  BY <1>1
<1>2. CASE NewIndexer
  BY <1>2 DEF NewIndexer
<1>3. CASE Setup \/ SetupHandlerFails
  BY <1>3 DEF Setup, SetupHandlerFails, LoseMemory
<1>4. CASE Exit \/ Crash \/ Panic \/ SetupTablesFails
  BY <1>4 DEF Exit, Crash, Panic, SetupTablesFails, LoseMemory
<1>5. CASE RetrieveBlock \/ ContextDone
  BY <1>5 DEF RetrieveBlock, ContextDone
<1>6. CASE ProcessTxs
  <2>1. CASE LockMu \/ LookupTxFails \/ StoreTxFails \/ EndTx
    BY <2>1 DEF LockMu, LookupTxFails, StoreTxFails, EndTx, NextTx, AtTx
  <2>2. CASE StoreTx
    BY <2>2 DEF StoreTx, NextTx, AtTx, IsOldTx
  <2>3. CASE EndBlock
    BY <2>3 DEF EndBlock, UpdateCursor
  <2>4. CASE EndBlockFails
    BY <2>4 DEF EndBlockFails
  <2>. QED  BY <1>6, <2>1, <2>2, <2>3, <2>4 DEF ProcessTxs
<1>7. CASE ProcessMsg
  <2>1. CASE SkipMsg \/ RejectRoute \/ HandleFails
    BY <2>1 DEF SkipMsg, RejectRoute, HandleFails, AtMsg
  <2>2. CASE Handle
    BY <2>2 DEF Handle, AtMsg, IsOldMsg
  <2>3. CASE UpdateCursorMsg
    BY <2>3 DEF UpdateCursorMsg, UpdateCursor, CursorAtMsg, CursorAt
  <2>4. CASE UpdateCursorMsgFails
    BY <2>4 DEF UpdateCursorMsgFails
  <2>5. CASE StoreRow \/ StoreRowFails
    BY <2>5 DEF StoreRow, StoreRowFails, LeaveMsg
  <2>. QED  BY <1>7, <2>1, <2>2, <2>3, <2>4, <2>5 DEF ProcessMsg
<1>. QED  BY CursorFrame, <1>1, <1>2, <1>3, <1>4, <1>5, <1>6, <1>7

THEOREM CursorInvariant == Spec => []CursorInv
<1>1. Init => CursorInv
  BY DEF Init, CursorInv
<1>2. TypeOK /\ CursorInv /\ [Next]_vars => CursorInv'
  BY CursorStep
<1>. QED  BY <1>1, <1>2, TypeCorrect, PTL DEF Spec

\* The actions that write LevelDB.
LEMMA StateDBFrame ==
    ASSUME [Next]_vars
    PROVE  \/ UNCHANGED stateDB
           \/ NewIndexer \/ EndBlock \/ EndBlockFails \/ UpdateCursorMsg \/ UpdateCursorMsgFails
BY DEF Next, vars, Process, Start, ProcessTxs, ProcessMsg, NewBlock, Setup, SetupTablesFails,
       SetupHandlerFails, Exit, Crash, Panic,
       Signal, StartFailed, Stop, RetrieveBlock, NoBlock, ContextDone, LockMu, LookupTxFails,
       StoreTxFails, StoreTx, EndTx, SkipMsg, RejectRoute, HandleFails, Handle, StoreRow, StoreRowFails

NotBack(new, old) ==
    ~Before(new.Height, new.TxIndex, new.MsgID, old.Height, old.TxIndex, old.MsgID)

\* The stored cursor never moves back in chain order: through crashes, restarts,
\* stops and cursor writes that fail, for every chain.
THEOREM CursorNeverBack == Spec => CursorMonotonic
<1>1. ASSUME TypeOK, CursorInv, [Next]_vars
      PROVE  NotBack(stateDB', stateDB)
  <2>. USE <1>1 DEF NotBack, Before, TypeOK, ControlOK, Cursor
  <2>0. NotBack(stateDB, stateDB)
    OBVIOUS
  <2>1. CASE UNCHANGED stateDB
    BY <2>0, <2>1
  <2>2. CASE NewIndexer
    BY <2>2 DEF NewIndexer, NoCursor, CursorAt
  <2>3. CASE EndBlock \/ EndBlockFails
    <3>1. cursor = stateDB
      BY <2>3 DEF CursorInv, EndBlock, EndBlockFails, AtEndOfBlock
    <3>2. NotBack(NextBlock, stateDB)
      BY <3>1 DEF NextBlock, CursorAt
    <3>. QED  BY <2>0, <2>3, <3>2 DEF EndBlock, EndBlockFails, UpdateCursor, UpdateCursorFails
  <2>4. CASE UpdateCursorMsg \/ UpdateCursorMsgFails
    <3>1. cursor = stateDB /\ txi >= cursor.TxIndex /\ msgi >= cursor.MsgID
      BY <2>4 DEF CursorInv, UpdateCursorMsg, UpdateCursorMsgFails
    <3>2. NotBack(CursorAtMsg, stateDB)
      BY <3>1 DEF CursorAtMsg, CursorAt
    <3>. QED  BY <2>0, <2>4, <3>2 DEF UpdateCursorMsg, UpdateCursorMsgFails, UpdateCursor, UpdateCursorFails
  <2>. QED  BY <1>1, StateDBFrame, <2>1, <2>2, <2>3, <2>4
<1>2. TypeOK /\ CursorInv /\ [Next]_vars => [NotBack(stateDB', stateDB)]_vars
  BY <1>1
<1>. QED  BY <1>2, TypeCorrect, CursorInvariant, PTL DEF Spec, CursorMonotonic, NotBack

\* No step handles a message that lies before the stored cursor: a restart redoes
\* the message at the cursor and what follows it, and nothing else.
THEOREM HandledOnlyAtCursor == Spec => NoHandleBelowCursor
<1>. DEFINE A == \A id \in MsgIds :
                    handled'[id] > handled[id] =>
                       ~Before(id[1], id[2], id[3], stateDB.Height, stateDB.TxIndex, stateDB.MsgID)
<1>1. ASSUME TypeOK, CursorInv, [Next]_vars, NEW id \in MsgIds, handled'[id] > handled[id]
      PROVE  ~Before(id[1], id[2], id[3], stateDB.Height, stateDB.TxIndex, stateDB.MsgID)
  <2>0. handled \in [MsgIds -> Nat]
    BY <1>1 DEF TypeOK, StoreOK
  <2>1. CASE Setup \/ SetupTablesFails \/ SetupHandlerFails
    <3>1. handled' = handled \/ handled'[id] = 0
      BY <2>1 DEF Setup, SetupTablesFails, SetupHandlerFails, store, NoHandled
    <3>. QED  BY <1>1, <2>0, <3>1
  <2>2. CASE Handle
    <3>1. id = MsgId
      BY <1>1, <2>0, <2>2 DEF Handle
    <3>2. cursor = stateDB /\ txi >= cursor.TxIndex /\ msgi >= cursor.MsgID
      BY <1>1, <2>2 DEF TypeOK, ControlOK, Cursor, CursorInv, Handle, AtMsg, IsOldMsg
    <3>. QED  BY <1>1, <3>1, <3>2 DEF MsgId, Before, TypeOK, ControlOK, Cursor
  <2>3. CASE handled' = handled
    BY <1>1, <2>0, <2>3
  <2>. QED  BY <1>1, <2>1, <2>2, <2>3, StoreFrame DEF StoreTxFails, StoreTx, StoreRow, StoreRowFails
<1>2. TypeOK /\ CursorInv /\ [Next]_vars => [A]_vars
  BY <1>1
<1>. QED  BY <1>2, TypeCorrect, CursorInvariant, PTL DEF Spec, NoHandleBelowCursor

-----------------------------------------------------------------------------
(* Rows of messages: each has its transaction row, and tells the truth.    *)

\* While processMsg runs, the transaction row of this run is not yet matched by a
\* row of the message it is at or of a later one; and a successful Handle is not
\* yet matched by a row without `failed`.
RowInv ==
    /\ MessageHasTx /\ RowTellsTruth
    /\ pc \in {"msg", "cursor", "row", "rowFatal"} =>
          \A id \in MsgIds : TxOf(id) = TxId /\ id[3] >= msgi => Rows(id) + 1 <= txes[TxOf(id)]
    /\ pc \in {"cursor", "rowFatal"} \/ (pc = "row" /\ ~failed) =>
          messages[MsgId].ok + 1 <= handled[MsgId]

LEMMA RowsAreNat ==
    ASSUME StoreOK, NEW id \in MsgIds
    PROVE  /\ messages[id].failed \in Nat /\ messages[id].ok \in Nat /\ Rows(id) \in Nat
           /\ txes[TxOf(id)] \in Nat /\ handled[id] \in Nat
<1>1. messages[id] \in [ok : Nat, failed : Nat] /\ handled[id] \in Nat
  BY DEF StoreOK
<1>2. txes[TxOf(id)] \in Nat
  BY MsgIdShape DEF StoreOK
<1>. QED  BY <1>1, <1>2 DEF Rows

\* An insert adds one to the rows of one message.
LEMMA InsertedRow ==
    ASSUME TypeOK, pc \in {"row", "rowFatal"}, messages' = RowInserted, NEW id \in MsgIds
    PROVE  /\ id # MsgId => messages'[id] = messages[id] /\ Rows(id)' = Rows(id)
           /\ id = MsgId => Rows(id)' = Rows(id) + 1
           /\ id = MsgId /\ failed => messages'[id].ok = messages[id].ok
           /\ id = MsgId /\ ~failed => messages'[id].ok = messages[id].ok + 1
<1>1. messages \in [MsgIds -> [ok : Nat, failed : Nat]] /\ MsgId \in MsgIds
  BY CurrentIds DEF TypeOK, StoreOK
<1>2. messages[id] \in [ok : Nat, failed : Nat]
  BY <1>1
<1>3. id # MsgId => messages'[id] = messages[id]
  BY <1>1 DEF RowInserted
<1>4. id = MsgId => messages'[id] = IF failed THEN [messages[id] EXCEPT !.failed = @ + 1]
                                              ELSE [messages[id] EXCEPT !.ok = @ + 1]
  BY <1>1 DEF RowInserted
<1>. QED  BY <1>2, <1>3, <1>4 DEF Rows

LEMMA InsertedTx ==
    ASSUME TypeOK, AtTx, txes' = TxInserted, NEW id \in MsgIds
    PROVE  /\ TxOf(id) # TxId => txes'[TxOf(id)] = txes[TxOf(id)]
           /\ TxOf(id) = TxId => txes'[TxOf(id)] = txes[TxOf(id)] + 1
BY MsgIdShape DEF TypeOK, StoreOK, TxInserted

LEMMA NoRowFrame ==
    ASSUME SkipMsg \/ RejectRoute \/ HandleFails
    PROVE  /\ pc = "msg" /\ UNCHANGED <<cursor, txi, txes, messages, handled>>
           /\ msgi' = msgi \/ msgi' = msgi + 1
           /\ pc' = "msg" \/ (pc' = "row" /\ failed' = TRUE)
<1>1. CASE SkipMsg
  BY <1>1 DEF SkipMsg, AtMsg, store
<1>2. CASE RejectRoute
  BY <1>2 DEF RejectRoute, AtMsg, store
<1>3. CASE HandleFails
  BY <1>3 DEF HandleFails, AtMsg, store
<1>. QED  BY <1>1, <1>2, <1>3

LEMMA RowFrame ==
    ASSUME StoreRow \/ StoreRowFails
    PROVE  /\ pc \in {"row", "rowFatal"} /\ UNCHANGED <<cursor, txi, txes, handled>>
           /\ messages' = messages \/ messages' = RowInserted
           /\ pc' = "returned" \/ (pc' = "msg" /\ msgi' = msgi + 1)
<1>1. CASE StoreRow
  BY <1>1 DEF StoreRow, LeaveMsg, position
<1>2. CASE StoreRowFails
  BY <1>2 DEF StoreRowFails, LeaveMsg, position
<1>. QED  BY <1>1, <1>2

LEMMA RowStep ==
    ASSUME TypeOK, RowInv, [Next]_vars
    PROVE  RowInv'
<1>. USE DEF RowInv, MessageHasTx, RowTellsTruth
<1>0. TypeOK' => StoreOK'
  BY DEF TypeOK
<1>1. CASE UNCHANGED <<txes, messages, handled, cursor, pc, position>>
  BY <1>1 DEF position, Rows, MsgId, TxId
<1>2. CASE /\ UNCHANGED <<txes, messages, handled>>
           /\ pc' \notin {"msg", "cursor", "row", "rowFatal"}
  BY <1>2 DEF Rows
<1>3. CASE Setup \/ SetupTablesFails \/ SetupHandlerFails
  <2>1. pc' \in {"poll", "down"}
    BY <1>3 DEF Setup, SetupTablesFails, SetupHandlerFails, LoseMemory
  <2>2. CASE UNCHANGED <<txes, messages, handled>>
    BY <1>2, <2>1, <2>2
  <2>3. CASE messages' = NoMessages /\ txes' \in {txes, NoTxes} /\ handled' \in {handled, NoHandled}
    <3>1. ASSUME NEW id \in MsgIds
          PROVE  /\ Rows(id)' = 0 /\ messages'[id].ok = 0
                 /\ txes'[TxOf(id)] \in Nat /\ handled'[id] \in Nat
      BY <2>3, MsgIdShape, RowsAreNat DEF NoTxes, NoMessages, NoHandled, Rows, TypeOK
    <3>. QED  BY <2>1, <3>1
  <2>. QED  BY <1>3, <2>2, <2>3 DEF Setup, SetupTablesFails, SetupHandlerFails, store
<1>4. CASE StoreTxFails \/ StoreTx
  <2>1. AtTx /\ UNCHANGED <<cursor, messages, handled>>
    BY <1>4 DEF StoreTxFails, StoreTx
  <2>2. ASSUME NEW id \in MsgIds
        PROVE  /\ txes'[TxOf(id)] \in {txes[TxOf(id)], txes[TxOf(id)] + 1}
               /\ pc' = "msg" /\ TxOf(id) = TxId => txes'[TxOf(id)] = txes[TxOf(id)] + 1
    BY <1>4, <2>1, InsertedTx, RowsAreNat DEF StoreTxFails, StoreTx, NextTx, TypeOK, AtTx
  <2>3. pc' \in {"tx", "msg"} /\ (pc' = "msg" => TxId' = TxId)
    BY <1>4 DEF StoreTxFails, StoreTx, NextTx, AtTx, TxId
  <2>4. ASSUME NEW id \in MsgIds
        PROVE  Rows(id)' = Rows(id) /\ messages'[id] = messages[id] /\ handled'[id] = handled[id]
    BY <2>1 DEF Rows
  <2>5. ASSUME NEW id \in MsgIds
        PROVE  /\ Rows(id)' <= txes'[TxOf(id)] /\ messages'[id].ok <= handled'[id]
               /\ pc' = "msg" /\ TxOf(id) = TxId => Rows(id)' + 1 <= txes'[TxOf(id)]
    BY <2>2, <2>4, RowsAreNat DEF TypeOK
  <2>. QED  BY <2>3, <2>5
<1>5. CASE SkipMsg \/ RejectRoute \/ HandleFails
  <2>1. /\ pc = "msg" /\ UNCHANGED <<cursor, txi, txes, messages, handled>>
        /\ msgi' = msgi \/ msgi' = msgi + 1
        /\ pc' = "msg" \/ (pc' = "row" /\ failed' = TRUE)
    BY <1>5, NoRowFrame
  <2>2. MessageHasTx' /\ RowTellsTruth'
    BY <2>1 DEF Rows
  <2>3. ASSUME NEW id \in MsgIds, TxOf(id) = TxId, id[3] >= msgi'
        PROVE  Rows(id)' + 1 <= txes'[TxOf(id)]
    <3>1. id[3] >= msgi
      BY <2>1, <2>3, MsgIdShape DEF TypeOK, ControlOK
    <3>. QED  BY <2>1, <2>3, <3>1 DEF Rows
  <2>. QED  BY <2>1, <2>2, <2>3 DEF TxId
<1>7. CASE Handle
  <2>1. MsgId \in MsgIds /\ AtMsg /\ pc' = "cursor" /\ UNCHANGED <<cursor, txi, msgi, messages, txes>>
    BY <1>7, CurrentIds DEF Handle, AtMsg
  <2>2. \A id \in MsgIds : handled'[id] = IF id = MsgId THEN handled[id] + 1 ELSE handled[id]
    BY <1>7 DEF Handle, TypeOK, StoreOK
  <2>3. \A id \in MsgIds : messages[id].ok <= handled'[id]
    BY <2>2, RowsAreNat DEF TypeOK
  <2>4. messages[MsgId].ok + 1 <= handled'[MsgId]
    BY <2>1, <2>2, RowsAreNat DEF TypeOK
  <2>. QED  BY <2>1, <2>3, <2>4 DEF AtMsg, Rows, TxId, MsgId
<1>8. CASE UpdateCursorMsg \/ UpdateCursorMsgFails
  BY <1>8 DEF UpdateCursorMsg, UpdateCursorMsgFails, UpdateCursor, UpdateCursorFails, CursorAtMsg,
              CursorAt, position, store, Rows, TxId, MsgId
<1>9. CASE StoreRow \/ StoreRowFails
  <2>1. pc \in {"row", "rowFatal"} /\ MsgId \in MsgIds /\ TxOf(MsgId) = TxId
    BY <1>9, CurrentIds DEF StoreRow, StoreRowFails, TxOf, MsgId, TxId
  <2>2. /\ UNCHANGED <<cursor, txi, txes, handled>>
        /\ messages' = messages \/ messages' = RowInserted
        /\ pc' = "returned" \/ (pc' = "msg" /\ msgi' = msgi + 1)
    BY <1>9, RowFrame
  <2>3. ASSUME NEW id \in MsgIds
        PROVE  /\ Rows(id)' <= txes[TxOf(id)]
               /\ messages'[id].ok <= handled[id]
    <3>1. CASE messages' = messages
      BY <3>1 DEF Rows
    <3>2. CASE messages' = RowInserted
      <4>1. id = MsgId => Rows(id) + 1 <= txes[TxOf(id)]
        BY <2>1, RowsAreNat DEF MsgId, TypeOK, ControlOK
      <4>2. id = MsgId /\ ~failed => messages[id].ok + 1 <= handled[id]
        BY <2>1
      <4>. QED  BY <2>1, <3>2, <4>1, <4>2, InsertedRow
    <3>. QED  BY <2>2, <3>1, <3>2
  <2>4. ASSUME pc' = "msg", NEW id \in MsgIds, TxOf(id) = TxId, id[3] >= msgi + 1
        PROVE  Rows(id)' + 1 <= txes[TxOf(id)]
    <3>1. id # MsgId /\ id[3] >= msgi
      BY <2>4, MsgIdShape DEF MsgId, TypeOK, ControlOK
    <3>2. Rows(id)' = Rows(id)
      BY <2>1, <2>2, <3>1, InsertedRow DEF Rows
    <3>. QED  BY <2>1, <2>4, <3>1, <3>2
  <2>. QED  BY <2>2, <2>3, <2>4 DEF TxId
<1>. QED
  <2>1. \/ UNCHANGED <<txes, messages, handled, cursor, pc, position>>
        \/ UNCHANGED <<txes, messages, handled>> /\ pc' \notin {"msg", "cursor", "row", "rowFatal"}
        \/ Setup \/ SetupTablesFails \/ SetupHandlerFails \/ StoreTxFails \/ StoreTx \/ ProcessMsg
    BY DEF Next, vars, store, Process, Start, ProcessTxs, NewBlock, NewIndexer, Exit, Crash, Panic, LoseMemory,
           Signal, StartFailed, Stop, RetrieveBlock, NoBlock, ContextDone, LockMu, LookupTxFails,
           NextTx, AtTx, EndTx, EndBlock, EndBlockFails
  <2>. QED  BY <2>1, <1>1, <1>2, <1>3, <1>4, <1>5, <1>7, <1>8, <1>9 DEF ProcessMsg

THEOREM RowInvariant == Spec => []RowInv
<1>1. Init => RowInv
  BY MsgIdShape DEF Init, NoTxes, NoMessages, NoHandled, RowInv, MessageHasTx, RowTellsTruth, Rows
<1>2. TypeOK /\ RowInv /\ [Next]_vars => RowInv'
  BY RowStep
<1>. QED  BY <1>1, <1>2, TypeCorrect, PTL DEF Spec

\* Under every fault, every message row has a transaction row of its own run.
THEOREM RowsHaveTx == Spec => []MessageHasTx
<1>1. RowInv => MessageHasTx
  BY DEF RowInv
<1>. QED  BY <1>1, RowInvariant, PTL

\* Under every fault, a row that does not say `failed` stands for a completed Handle.
THEOREM RowsTellTruth == Spec => []RowTellsTruth
<1>1. RowInv => RowTellsTruth
  BY DEF RowInv
<1>. QED  BY <1>1, RowInvariant, PTL

-----------------------------------------------------------------------------
(* A stopped process writes nothing.                                       *)

\* Stop waits for the mutex, so no message is being processed when it has run;
\* and a process that has only started is not being stopped.
StopInv ==
    /\ pc \in {"down", "setup"} => stopper = "waiting"
    /\ pc \in {"msg", "cursor", "row", "rowFatal"} => ~Closed

LEMMA StopStep ==
    ASSUME StopInv, [Next]_vars
    PROVE  StopInv'
<1>. USE DEF StopInv, Closed, position
<1>1. CASE UNCHANGED <<pc, stopper>>
  BY <1>1
<1>2. CASE pc' = "down" /\ stopper' = "waiting"
  BY <1>2
<1>3. CASE NewIndexer \/ Setup
  BY <1>3 DEF NewIndexer, Setup
<1>4. CASE SetupTablesFails \/ SetupHandlerFails
  BY <1>4 DEF SetupTablesFails, SetupHandlerFails, LoseMemory
<1>5. CASE Signal \/ StartFailed
  BY <1>5 DEF Signal, StartFailed
<1>6. CASE Stop
  BY <1>6 DEF Stop, MuHeld
<1>7. CASE RetrieveBlock \/ ContextDone
  BY <1>7 DEF RetrieveBlock, ContextDone
<1>8. CASE ProcessTxs
  BY <1>8 DEF ProcessTxs, LockMu, LookupTxFails, StoreTxFails, StoreTx, NextTx, AtTx, EndTx, EndBlock,
              EndBlockFails
<1>9. CASE ProcessMsg
  BY <1>9 DEF ProcessMsg, SkipMsg, RejectRoute, HandleFails, Handle, AtMsg, UpdateCursorMsg,
              UpdateCursorMsgFails, StoreRow, StoreRowFails, LeaveMsg
<1>. QED
  <2>1. CASE NewBlock \/ NoBlock \/ UNCHANGED vars
    BY <1>1, <2>1 DEF NewBlock, NoBlock, vars
  <2>2. CASE Exit \/ Crash \/ Panic
    BY <1>2, <2>2 DEF Exit, Crash, Panic, LoseMemory
  <2>. QED
    BY <2>1, <2>2, <1>3, <1>4, <1>5, <1>6, <1>7, <1>8, <1>9 DEF Next, Process, Start

THEOREM StopInvariant == Spec => []StopInv
<1>1. Init => StopInv
  BY DEF Init, StopInv, Closed
<1>. QED  BY <1>1, StopStep, PTL DEF Spec

\* Once Stop has closed the databases, the walk through a block that was retrieved before
\* applies and stores nothing, up to the end of the process.
THEOREM StoppedWritesNothing == Spec => NothingAfterStop
<1>1. ASSUME StopInv, [Next]_vars, Closed, Closed'
      PROVE  UNCHANGED <<store, stateDB>>
  <2>. USE <1>1 DEF StopInv, Closed
  <2>1. ~NewIndexer /\ ~Setup /\ ~SetupTablesFails /\ ~SetupHandlerFails /\ ~Exit /\ ~Crash /\ ~Panic
    BY DEF NewIndexer, Setup, SetupTablesFails, SetupHandlerFails, Exit, Crash, Panic, LoseMemory
  <2>2. ~ProcessMsg
    BY DEF ProcessMsg, SkipMsg, RejectRoute, HandleFails, Handle, AtMsg, UpdateCursorMsg,
           UpdateCursorMsgFails, StoreRow, StoreRowFails
  <2>3. ProcessTxs => UNCHANGED <<store, stateDB>>
    BY DEF ProcessTxs, LockMu, LookupTxFails, StoreTxFails, StoreTx, EndTx, EndBlock, EndBlockFails, store
  <2>. QED
    BY <2>1, <2>2, <2>3
    DEF Next, vars, Process, Start, NewBlock, Signal, StartFailed, Stop, RetrieveBlock, NoBlock, ContextDone
<1>2. StopInv /\ [Next]_vars => [Closed /\ Closed' => UNCHANGED <<store, stateDB>>]_vars
  BY <1>1
<1>. QED  BY <1>2, StopInvariant, PTL DEF Spec, NothingAfterStop

-----------------------------------------------------------------------------
(* No transaction is lost, when the node and Postgres do not fail and the  *)
(* tables are not reset.  Crashes, stops and failed cursor writes are all  *)
(* still allowed.                                                          *)

Reliable == Faults \subseteq {"put"} /\ ResetSettings = {FALSE}

\* The transactions of the current block that processTxs has gone past.
Past(id) ==
    id[1] = cursor.Height /\ (id[2] < txi \/ (id[2] = txi /\ pc # "tx"))

\* Inserts fail only on a closed database; while it is open, the transactions gone
\* past in the block under the mutex have their rows.
TxInv ==
    /\ NoTxLost
    /\ db # "ok" => Closed
    /\ MuHeld /\ ~Closed => \A id \in TxIds : Past(id) => txes[id] >= 1

LEMMA TxStep ==
    ASSUME Reliable, TypeOK, HeightInv, CursorInv, TxInv, [Next]_vars
    PROVE  TxInv'
<1>. USE DEF TxInv, NoTxLost, MuHeld, Closed
<1>0. ASSUME NEW id \in TxIds
      PROVE  id[1] \in Nat /\ id[1] >= 1 /\ id[2] \in Nat /\ id[2] < NumTxs(id[1]) /\ txes[id] \in Nat
  <2>1. id[1] \in Heights /\ id[2] \in 0 .. NumTxs(id[1]) - 1
    BY DEF TxIds
  <2>2. id[1] \in Nat /\ id[1] >= 1 /\ NumTxs(id[1]) \in Nat
    BY <2>1, ChainShape
  <2>. QED  BY <2>1, <2>2 DEF TypeOK, StoreOK
<1>1. CASE UNCHANGED <<txes, stateDB, db, stopper, cursor, pc, position>>
  BY <1>1 DEF position, Past
<1>2. CASE UNCHANGED <<txes, stateDB, db, stopper>> /\ ~MuHeld'
  BY <1>2
<1>3. CASE NewIndexer
  <2>1. \A id \in TxIds : id[1] < stateDB'.Height => id[1] < stateDB.Height
    BY <1>0, <1>3 DEF NewIndexer, CursorAt
  <2>. QED  BY <1>3, <2>1 DEF NewIndexer, store
<1>4. CASE Exit \/ Crash \/ Panic
  BY <1>4 DEF Exit, Crash, Panic, LoseMemory, store
<1>5. CASE Signal \/ StartFailed \/ Stop
  BY <1>5 DEF Signal, StartFailed, Stop, store, position, Past
<1>6. CASE LockMu
  BY <1>0, <1>6 DEF LockMu, store, Past
<1>7. CASE StoreTxFails
  BY <1>7 DEF StoreTxFails, Fault, Reliable
<1>8. CASE StoreTx
  <2>1. /\ AtTx /\ ~Closed /\ txes' = TxInserted /\ UNCHANGED <<cursor, stateDB, stopper, db>>
        /\ (pc' = "tx" /\ txi' = txi + 1) \/ (pc' = "msg" /\ txi' = txi)
    BY <1>8 DEF StoreTx, NextTx, AtTx
  <2>2. ASSUME NEW id \in TxIds
        PROVE  txes'[id] = IF id = TxId THEN txes[id] + 1 ELSE txes[id]
    BY <2>1 DEF TxInserted, TypeOK, StoreOK
  <2>3. NoTxLost'
    BY <1>0, <2>1, <2>2
  <2>4. ASSUME NEW id \in TxIds, Past(id)'
        PROVE  txes'[id] >= 1
    <3>1. id = <<id[1], id[2]>>
      BY DEF TxIds
    <3>2. Past(id) \/ id = TxId
      BY <1>0, <2>1, <2>4, <3>1 DEF Past, AtTx, TxId, TypeOK, ControlOK
    <3>. QED  BY <1>0, <2>1, <2>2, <3>2 DEF AtTx
  <2>. QED  BY <2>1, <2>3, <2>4
<1>9. CASE EndTx
  <2>1. ASSUME NEW id \in TxIds, Past(id)'
        PROVE  Past(id)
    BY <1>0, <1>9, <2>1 DEF EndTx, Past, TypeOK, ControlOK
  <2>. QED  BY <1>9, <2>1 DEF EndTx, store
<1>10. CASE EndBlock \/ EndBlockFails
  <2>1. cursor = stateDB /\ AtEndOfBlock /\ UNCHANGED <<txes, db, stopper>>
    BY <1>10 DEF EndBlock, EndBlockFails, CursorInv, AtEndOfBlock, store
  <2>2. stateDB' = stateDB \/ (~Closed /\ stateDB' = NextBlock)
    BY <1>10 DEF EndBlock, EndBlockFails, UpdateCursor, UpdateCursorFails
  <2>3. ASSUME ~Closed, NEW id \in TxIds, id[1] < NextBlock.Height
        PROVE  txes[id] >= 1
    <3>1. id[1] < stateDB.Height \/ id[1] = cursor.Height
      BY <1>0, <2>1, <2>3 DEF NextBlock, CursorAt, TypeOK, ControlOK, Cursor
    <3>2. id[1] = cursor.Height => Past(id)
      BY <1>0, <2>1 DEF AtEndOfBlock, Past
    <3>. QED  BY <2>1, <2>3, <3>1, <3>2 DEF AtEndOfBlock
  <2>4. pc' \in {"poll", "returned"}
    BY <1>10 DEF EndBlock, EndBlockFails
  <2>. QED  BY <2>1, <2>2, <2>3, <2>4
<1>11. CASE UpdateCursorMsg \/ UpdateCursorMsgFails
  <2>1. /\ cursor'.Height = cursor.Height /\ stateDB'.Height = stateDB.Height
        /\ UNCHANGED <<txes, db, stopper, txi>>
        /\ pc = "cursor" /\ pc' \in {"row", "rowFatal"}
    BY <1>11 DEF UpdateCursorMsg, UpdateCursorMsgFails, UpdateCursor, UpdateCursorFails, CursorAtMsg,
                 CursorAt, CursorInv, position, store
  <2>. QED  BY <2>1 DEF Past
<1>12. CASE StoreRow \/ StoreRowFails
  <2>1. /\ UNCHANGED <<txes, stateDB, cursor, stopper>> /\ (db' # "ok" => db # "ok")
        /\ pc \in {"row", "rowFatal"} /\ pc' \in {"msg", "returned"} /\ txi' = txi
    <3>1. StoreRow => UNCHANGED <<stateDB, stopper, db>>
      BY DEF StoreRow
    <3>2. StoreRowFails => UNCHANGED <<stateDB, stopper>> /\ db # "ok"
      BY DEF StoreRowFails, Fault, Reliable
    <3>. QED  BY <1>12, <3>1, <3>2, RowFrame
  <2>. QED  BY <2>1 DEF Past
<1>13. CASE SkipMsg \/ RejectRoute \/ HandleFails \/ Handle
  <2>1. /\ UNCHANGED <<txes, stateDB, cursor, stopper, db, txi>>
        /\ pc = "msg" /\ pc' \in {"msg", "row", "cursor"}
    BY <1>13 DEF SkipMsg, RejectRoute, HandleFails, Handle, AtMsg, store
  <2>. QED  BY <2>1 DEF Past
<1>14. ~LookupTxFails /\ ~SetupTablesFails /\ ~SetupHandlerFails
  BY DEF LookupTxFails, SetupTablesFails, SetupHandlerFails, Fault, Reliable
<1>. QED
  <2>1. \/ UNCHANGED <<txes, stateDB, db, stopper, cursor, pc, position>>
        \/ UNCHANGED <<txes, stateDB, db, stopper>> /\ ~MuHeld'
        \/ NewIndexer \/ Exit \/ Crash \/ Panic \/ Signal \/ StartFailed \/ Stop \/ ProcessTxs \/ ProcessMsg
    BY <1>14 DEF Next, vars, store, Process, Start, NewBlock, Setup, RetrieveBlock, NoBlock, ContextDone, Reliable
  <2>. QED
    BY <2>1, <1>1, <1>2, <1>3, <1>4, <1>5, <1>6, <1>7, <1>8, <1>9, <1>10, <1>11, <1>12, <1>13, <1>14
    DEF ProcessTxs, ProcessMsg

THEOREM TxInvariant ==
    ASSUME Reliable
    PROVE  Spec => []TxInv
<1>1. Init => TxInv
  BY ChainAssumption DEF Init, TxInv, NoTxLost, MuHeld, NoCursor, TxIds, Heights
<1>2. TypeOK /\ HeightInv /\ CursorInv /\ TxInv /\ [Next]_vars => TxInv'
  BY TxStep
<1>. QED  BY <1>1, <1>2, TypeCorrect, CursorInvariant, PTL DEF Spec

\* Whatever the crashes, stops and failed cursor writes: every transaction of a
\* block the stored cursor has passed has a row.
THEOREM NoTransactionLost ==
    ASSUME Reliable
    PROVE  Spec => []NoTxLost
<1>1. TxInv => NoTxLost
  BY DEF TxInv
<1>. QED  BY <1>1, TxInvariant, PTL
=============================================================================
