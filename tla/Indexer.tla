------------------------------ MODULE Indexer ------------------------------
(***************************************************************************)
(* The indexer process (x/indexer): it walks the blocks of a chain, stores *)
(* a row per transaction and per message, gives each message to the module *)
(* handler, and keeps in LevelDB a cursor to resume from.                  *)
(*                                                                         *)
(* One goroutine runs Start; another waits for a signal (or for Start to   *)
(* fail) and runs Stop, which shares the mutex m.mu with processTxs.  The  *)
(* process may die between any two writes; the container restarts it.      *)
(*                                                                         *)
(* Transaction and message indices count from 0, as in the code.           *)
(***************************************************************************)
EXTENDS Naturals, Sequences, FiniteSets

CONSTANTS
    Chain,          \* the blocks the chain will produce, Chain[h] at height h
    Faults,         \* which of "rpc" (node), "db" (Postgres), "put" (LevelDB) may fail
    ResetSettings,  \* the values of reset_database the process is started with
    MaxFaults,      \* bound on rpc and db failures
    MaxUnclean,     \* bound on crashes and failed cursor writes
    MaxStops        \* bound on signals

Code  == {"ok", "unknownRequest", "otherFailure"}
Route == {"known", "unknown"}   \* is a handler registered for the message's route
Tx    == [code : Code, decodes : BOOLEAN, msgs : Seq(Route)]

ASSUME ChainAssumption  == Chain \in Seq(Seq(Tx))
ASSUME FaultsAssumption == Faults \subseteq {"rpc", "db", "put"}
ASSUME ResetAssumption  == ResetSettings \subseteq BOOLEAN /\ ResetSettings # {}
ASSUME BoundAssumption  == MaxFaults \in Nat /\ MaxUnclean \in Nat /\ MaxStops \in Nat

Heights       == DOMAIN Chain
NumTxs(h)     == Len(Chain[h])
TxAt(h, t)    == Chain[h][t + 1]
NumMsgs(h, t) == Len(TxAt(h, t).msgs)
TxIds  == UNION {{h} \X (0 .. NumTxs(h) - 1) : h \in Heights}
MsgIds == UNION {{<<id[1], id[2], m>> : m \in 0 .. NumMsgs(id[1], id[2]) - 1} : id \in TxIds}

VARIABLES
    chainHeight,    \* height of the newest block (0: none yet)
    cursor,         \* m.cursor, in memory
    stateDB,        \* the cursor in LevelDB
    pc,             \* where the Start goroutine is
    txi, msgi,      \* the transaction and message processTxs is at
    failed,         \* processMsg's variable of that name
    stopper,        \* the goroutine that waits for an interrupt and calls Stop
    db,             \* m.db: ok, nil, or one whose Error gorm hands on to all derived from it
    txes,           \* rows per transaction
    messages,       \* rows per message, with the `failed` column unset (ok) or set
    handled,        \* completed Handle calls per message whose effect is in the database
    unclean, stops, faults  \* crashes and failed Puts, signals, other failures so far

store    == <<txes, messages, handled>>
position == <<txi, msgi, failed>>
counters == <<unclean, stops, faults>>
vars == <<chainHeight, cursor, stateDB, pc, position, stopper, db, store, counters>>

Cursor == [Height : Nat, TxIndex : Nat, MsgID : Nat]
NoCursor == [Height |-> 0, TxIndex |-> 0, MsgID |-> 0]
CursorAt(h, t, m) == [Height |-> h, TxIndex |-> t, MsgID |-> m]

\* Chain order.
Before(h1, t1, m1, h2, t2, m2) ==
    \/ h1 < h2
    \/ h1 = h2 /\ t1 < t2
    \/ h1 = h2 /\ t1 = t2 /\ m1 < m2

NoTxes     == [id \in TxIds |-> 0]
NoMessages == [id \in MsgIds |-> [ok |-> 0, failed |-> 0]]
NoHandled  == [id \in MsgIds |-> 0]

Init ==
    /\ chainHeight = 0
    /\ cursor = NoCursor /\ stateDB = NoCursor
    /\ pc = "down" /\ txi = 0 /\ msgi = 0 /\ failed = FALSE
    /\ stopper = "waiting" /\ db = "ok"
    /\ txes = NoTxes /\ messages = NoMessages /\ handled = NoHandled
    /\ unclean = 0 /\ stops = 0 /\ faults = 0

-----------------------------------------------------------------------------
(* The chain.                                                              *)

NewBlock ==
    /\ chainHeight < Len(Chain)
    /\ chainHeight' = chainHeight + 1
    /\ UNCHANGED <<cursor, stateDB, pc, position, stopper, db, store, counters>>

-----------------------------------------------------------------------------
(* Start-up and the end of the process.                                    *)

\* Mutant: the first block is looked for at height 0.
NewIndexerFromZero ==
    /\ pc = "down"
    /\ cursor' = stateDB
    /\ pc' = "setup"
    /\ UNCHANGED <<chainHeight, stateDB, position, stopper, db, store, counters>>

\* NewIndexer: load the cursor, or begin at the first block.
NewIndexer ==
    /\ pc = "down"
    /\ cursor' = IF stateDB = NoCursor THEN CursorAt(1, 0, 0) ELSE stateDB
    /\ stateDB' = cursor'
    /\ pc' = "setup"
    /\ UNCHANGED <<chainHeight, position, stopper, db, store, counters>>

\* Setup: with reset_database the tables are dropped and created again, the
\* cursor stays.
Setup ==
    /\ pc = "setup"
    /\ \/ TRUE \in ResetSettings
          /\ txes' = NoTxes /\ messages' = NoMessages /\ handled' = NoHandled
       \/ FALSE \in ResetSettings /\ UNCHANGED store
    /\ pc' = "poll"
    /\ UNCHANGED <<chainHeight, cursor, stateDB, position, stopper, db, counters>>

LoseMemory ==
    /\ pc' = "down"
    /\ cursor' = NoCursor
    /\ txi' = 0 /\ msgi' = 0 /\ failed' = FALSE
    /\ stopper' = "waiting" /\ db' = "ok"

Fault(f) ==
    /\ f \in Faults /\ faults < MaxFaults
    /\ faults' = faults + 1
    /\ UNCHANGED <<unclean, stops>>

\* setupIndexerTables fails and main gives up: messages are dropped before txes.
SetupTablesFails ==
    /\ pc = "setup" /\ Fault("db")
    /\ \/ TRUE \in ResetSettings /\ messages' = NoMessages /\ txes' \in {txes, NoTxes}
       \/ UNCHANGED <<txes, messages>>
    /\ LoseMemory
    /\ UNCHANGED <<chainHeight, stateDB, handled>>

\* The handler is set up once for each of its two router keys.  A Reset or Setup that fails
\* returns nil for m.db, which is logged: after the last Setup succeeds all the same, after
\* the first the second panics.
SetupHandlerFails ==
    /\ pc = "setup" /\ Fault("db")
    /\ \/ /\ TRUE \in ResetSettings
          /\ txes' = NoTxes /\ messages' = NoMessages /\ handled' \in {handled, NoHandled}
       \/ FALSE \in ResetSettings /\ UNCHANGED store
    /\ \/ pc' = "poll" /\ db' = "nil" /\ UNCHANGED <<cursor, position, stopper>>
       \/ LoseMemory
    /\ UNCHANGED <<chainHeight, stateDB>>

Crash ==
    /\ pc # "down"
    /\ unclean < MaxUnclean
    /\ unclean' = unclean + 1
    /\ LoseMemory
    /\ UNCHANGED <<chainHeight, stateDB, store, stops, faults>>

\* main: wg.Wait returns once both goroutines have.
Exit ==
    /\ pc = "returned" /\ stopper = "stopped"
    /\ LoseMemory
    /\ UNCHANGED <<chainHeight, stateDB, store, counters>>

-----------------------------------------------------------------------------
(* The goroutine that stops the indexer.                                   *)

\* Mutant: processMsg does not run under the mutex.
MuHeldForTxsOnly == pc = "tx"

MuHeld == pc \in {"tx", "msg", "cursor", "row", "rowFatal"}

Signal ==
    /\ pc \notin {"down", "setup"} /\ stopper = "waiting"
    /\ stops < MaxStops
    /\ stops' = stops + 1
    /\ stopper' = "stopping"
    /\ UNCHANGED <<chainHeight, cursor, stateDB, pc, position, db, store, unclean, faults>>

\* Mutant: nothing waits for the errgroup's context.
StartFailedUnnoticed == FALSE /\ UNCHANGED vars

\* Start returned an error, so the errgroup cancelled the context.
StartFailed ==
    /\ pc = "returned" /\ stopper = "waiting"
    /\ stopper' = "stopping"
    /\ UNCHANGED <<chainHeight, cursor, stateDB, pc, position, db, store, counters>>

\* Stop closes Postgres and LevelDB and cancels the indexer's context.
Stop ==
    /\ stopper = "stopping" /\ ~MuHeld /\ db # "nil"
    /\ stopper' = "stopped"
    /\ UNCHANGED <<chainHeight, cursor, stateDB, pc, position, db, store, counters>>

Closed == stopper = "stopped"

-----------------------------------------------------------------------------
(* Start: the polling loop.                                                *)

RetrieveBlock ==
    /\ pc = "poll" /\ ~Closed
    /\ cursor.Height <= chainHeight
    /\ pc' = "fetched"
    /\ UNCHANGED <<chainHeight, cursor, stateDB, position, stopper, db, store, counters>>

\* The block does not exist yet, or the node fails to answer: sleep and retry.
NoBlock ==
    /\ pc = "poll" /\ ~Closed
    /\ UNCHANGED vars

ContextDone ==
    /\ pc = "poll" /\ Closed
    /\ pc' = "returned"
    /\ UNCHANGED <<chainHeight, cursor, stateDB, position, stopper, db, store, counters>>

\* processTxs takes m.mu.  Stop may have run since the block was retrieved.
LockMu ==
    /\ pc = "fetched"
    /\ pc' = "tx" /\ txi' = 0
    /\ UNCHANGED <<chainHeight, cursor, stateDB, msgi, failed, stopper, db, store, counters>>

-----------------------------------------------------------------------------
(* processTxs: the loop over the transactions of block cursor.Height.      *)

TxId  == <<cursor.Height, txi>>
MsgId == <<cursor.Height, txi, msgi>>
CurrentTx  == TxAt(cursor.Height, txi)
CurrentMsg == CurrentTx.msgs[msgi + 1]

AtTx  == pc = "tx" /\ txi < NumTxs(cursor.Height)
AtMsg == pc = "msg" /\ msgi < NumMsgs(cursor.Height, txi)

\* The first use of a nil m.db, by processTxs or by Stop, ends the process.
Panic ==
    /\ db = "nil"
    /\ AtTx \/ (stopper = "stopping" /\ ~MuHeld)
    /\ LoseMemory
    /\ UNCHANGED <<chainHeight, stateDB, store, counters>>

NextTx == txi' = txi + 1 /\ UNCHANGED <<pc, msgi, failed>>

\* Mutant: the failed lookup does not leave the transaction.
LookupTxFailsFallsThrough ==
    /\ AtTx
    /\ Fault("rpc")
    /\ pc' = "msg" /\ msgi' = 0 /\ UNCHANGED <<txi, failed>>
    /\ UNCHANGED <<chainHeight, cursor, stateDB, stopper, db, store>>

\* rpcClient.Tx fails: on to the next transaction.
LookupTxFails ==
    /\ AtTx
    /\ Fault("rpc")
    /\ NextTx
    /\ UNCHANGED <<chainHeight, cursor, stateDB, stopper, db, store>>

TxInserted == [txes EXCEPT ![TxId] = @ + 1]

\* The insert, or the Scan after it, fails: on to the next transaction.  From then
\* on m.db keeps the error, and every later insert fails with it.
StoreTxFails ==
    /\ AtTx /\ db # "nil"
    /\ \/ (db = "error" \/ Closed) /\ UNCHANGED <<txes, counters>>
       \/ db = "ok" /\ ~Closed /\ Fault("db") /\ txes' \in {txes, TxInserted}
    /\ db' = "error"
    /\ NextTx
    /\ UNCHANGED <<chainHeight, cursor, stateDB, stopper, messages, handled>>

Rejected(tx) == tx.code = "unknownRequest"
\* Mutant: transactions before the cursor are processed again.
NoTxIsOld == FALSE

IsOldTx == txi < cursor.TxIndex

StoreTx ==
    /\ AtTx /\ db = "ok" /\ ~Closed
    /\ txes' = TxInserted
    /\ IF Rejected(CurrentTx) \/ IsOldTx \/ ~CurrentTx.decodes
       THEN NextTx
       ELSE pc' = "msg" /\ msgi' = 0 /\ UNCHANGED <<txi, failed>>
    /\ UNCHANGED <<chainHeight, cursor, stateDB, stopper, db, messages, handled, counters>>

EndTx ==
    /\ pc = "msg" /\ ~AtMsg
    /\ pc' = "tx" /\ txi' = txi + 1 /\ msgi' = 0
    /\ UNCHANGED <<chainHeight, cursor, stateDB, failed, stopper, db, store, counters>>

\* updateCursor: memory first, then LevelDB.
UpdateCursor(c) == cursor' = c /\ stateDB' = c /\ UNCHANGED counters

\* A failed Put may have reached the disk or not.
UpdateCursorFails(c) ==
    /\ "put" \in Faults /\ unclean < MaxUnclean
    /\ unclean' = unclean + 1
    /\ cursor' = c
    /\ stateDB' \in {stateDB, c}
    /\ UNCHANGED <<stops, faults>>

\* Mutant: off by one.
AtEndOfBlockEarly == pc = "tx" /\ txi + 1 >= NumTxs(cursor.Height)

AtEndOfBlock == pc = "tx" /\ txi = NumTxs(cursor.Height)
NextBlock == CursorAt(cursor.Height + 1, 0, 0)

\* Mutant: Stop leaves LevelDB open.
EndBlockAfterStop ==
    /\ AtEndOfBlock
    /\ UpdateCursor(NextBlock)
    /\ pc' = "poll"
    /\ UNCHANGED <<chainHeight, position, stopper, db, store>>

EndBlock ==
    /\ AtEndOfBlock /\ ~Closed
    /\ UpdateCursor(NextBlock)
    /\ pc' = "poll"
    /\ UNCHANGED <<chainHeight, position, stopper, db, store>>

EndBlockFails ==
    /\ AtEndOfBlock
    /\ \/ ~Closed /\ UpdateCursorFails(NextBlock)
       \/ Closed /\ cursor' = NextBlock /\ UNCHANGED <<stateDB, counters>>
    /\ pc' = "returned"
    /\ UNCHANGED <<chainHeight, position, stopper, db, store>>

-----------------------------------------------------------------------------
(* processMsg.  Its deferred insert of the message row runs last, after    *)
(* the cursor has been written.                                            *)

\* Mutants: messages before the cursor are processed again; the message at it is not.
NoMsgIsOld == FALSE
IsOldOrLastMsg == msgi <= cursor.MsgID

IsOldMsg == msgi < cursor.MsgID

SkipMsg ==
    /\ AtMsg /\ IsOldMsg
    /\ msgi' = msgi + 1
    /\ UNCHANGED <<chainHeight, cursor, stateDB, pc, txi, failed, stopper, db, store, counters>>

\* No handler for the route.
RejectRoute ==
    /\ AtMsg /\ ~IsOldMsg
    /\ CurrentMsg = "unknown"
    /\ pc' = "row" /\ failed' = TRUE
    /\ UNCHANGED <<chainHeight, cursor, stateDB, txi, msgi, stopper, db, store, counters>>

\* Mutant: the error is not noted in the row.
HandleFailsSilently ==
    /\ AtMsg /\ ~IsOldMsg
    /\ CurrentMsg = "known"
    /\ pc' = "row" /\ failed' = FALSE
    /\ UNCHANGED <<chainHeight, cursor, stateDB, txi, msgi, stopper, db, store, counters>>

\* Handle may fail on any message, and always does on an m.db that carries an error.
HandleFails ==
    /\ AtMsg /\ ~IsOldMsg
    /\ CurrentMsg = "known"
    /\ pc' = "row" /\ failed' = TRUE
    /\ UNCHANGED <<chainHeight, cursor, stateDB, txi, msgi, stopper, db, store, counters>>

Handle ==
    /\ AtMsg /\ ~IsOldMsg /\ db = "ok"
    /\ CurrentMsg = "known"
    /\ handled' = [handled EXCEPT ![MsgId] = @ + 1]
    /\ pc' = "cursor" /\ failed' = FALSE
    /\ UNCHANGED <<chainHeight, cursor, stateDB, txi, msgi, stopper, db, txes, messages, counters>>

CursorAtMsg == CursorAt(cursor.Height, txi, msgi)

UpdateCursorMsg ==
    /\ pc = "cursor"
    /\ UpdateCursor(CursorAtMsg)
    /\ pc' = "row"
    /\ UNCHANGED <<chainHeight, position, stopper, db, store>>

UpdateCursorMsgFails ==
    /\ pc = "cursor"
    /\ UpdateCursorFails(CursorAtMsg)
    /\ pc' = "rowFatal"
    /\ UNCHANGED <<chainHeight, position, stopper, db, store>>

\* After the row: errCursor makes Start return, anything else goes on to the next message.
LeaveMsg ==
    IF pc = "rowFatal"
    THEN pc' = "returned" /\ UNCHANGED position
    ELSE pc' = "msg" /\ msgi' = msgi + 1 /\ UNCHANGED <<txi, failed>>

RowInserted ==
    IF failed THEN [messages EXCEPT ![MsgId].failed = @ + 1]
              ELSE [messages EXCEPT ![MsgId].ok = @ + 1]

StoreRow ==
    /\ pc \in {"row", "rowFatal"} /\ db = "ok"
    /\ messages' = RowInserted
    /\ LeaveMsg
    /\ UNCHANGED <<chainHeight, cursor, stateDB, stopper, db, txes, handled, counters>>

\* A row may also be refused because of the messages before it: a transfer of fungible
\* tokens leaves the ID of the token's row in dbTx, and the later rows of its transaction
\* then refer to another transaction or to none (messages.tx_id).
StoreRowFails ==
    /\ pc \in {"row", "rowFatal"}
    /\ \/ db = "error" /\ UNCHANGED <<messages, counters>>
       \/ db = "ok" /\ Fault("db") /\ messages' \in {messages, RowInserted}
    /\ db' = "error"
    /\ LeaveMsg
    /\ UNCHANGED <<chainHeight, cursor, stateDB, stopper, txes, handled>>

-----------------------------------------------------------------------------
(* The specification.                                                      *)

ProcessTxs ==
    \/ LockMu \/ LookupTxFails \/ StoreTxFails \/ StoreTx \/ EndTx \/ EndBlock \/ EndBlockFails

ProcessMsg ==
    \/ SkipMsg \/ RejectRoute \/ HandleFails \/ Handle
    \/ UpdateCursorMsg \/ UpdateCursorMsgFails \/ StoreRow \/ StoreRowFails

Start == RetrieveBlock \/ NoBlock \/ ContextDone \/ ProcessTxs \/ ProcessMsg

Process ==
    \/ NewIndexer \/ Setup \/ SetupTablesFails \/ SetupHandlerFails
    \/ Exit \/ Signal \/ StartFailed \/ Stop \/ Crash \/ Panic

Next == NewBlock \/ Process \/ Start

Spec == Init /\ [][Next]_vars

\* The container restarts the process; the goroutines are scheduled; the node
\* answers a request for an existing block when it is asked often enough.
Fairness ==
    /\ WF_vars(NewIndexer) /\ WF_vars(Setup) /\ WF_vars(Exit) /\ WF_vars(Panic)
    /\ WF_vars(StartFailed) /\ WF_vars(Stop)
    /\ WF_vars(RetrieveBlock) /\ WF_vars(ContextDone)
    /\ WF_vars(ProcessTxs) /\ WF_vars(ProcessMsg)

FairSpec == Spec /\ Fairness

-----------------------------------------------------------------------------
(* Properties.                                                             *)

ControlOK ==
    /\ chainHeight \in 0 .. Len(Chain)
    /\ cursor \in Cursor /\ stateDB \in Cursor
    /\ pc \in {"down", "setup", "poll", "fetched", "tx", "msg", "cursor", "row", "rowFatal", "returned"}
    /\ txi \in Nat /\ msgi \in Nat /\ failed \in BOOLEAN
    /\ stopper \in {"waiting", "stopping", "stopped"}
    /\ db \in {"ok", "error", "nil"}

PositionOK ==
    /\ pc \in {"fetched", "tx", "msg", "cursor", "row"} => cursor.Height \in Heights
    /\ pc = "tx" => txi <= NumTxs(cursor.Height)
    /\ pc \in {"msg", "cursor", "row"} =>
          txi < NumTxs(cursor.Height) /\ msgi <= NumMsgs(cursor.Height, txi)
    /\ pc \in {"cursor", "row"} => msgi < NumMsgs(cursor.Height, txi)
    /\ pc = "rowFatal" => MsgId \in MsgIds

StoreOK ==
    /\ txes \in [TxIds -> Nat]
    /\ messages \in [MsgIds -> [ok : Nat, failed : Nat]]
    /\ handled \in [MsgIds -> Nat]

CountersOK == unclean \in 0 .. MaxUnclean /\ stops \in 0 .. MaxStops /\ faults \in 0 .. MaxFaults

\* Every variable has its type; the goroutine's position lies inside the block
\* it processes, so no step reads past a block or a transaction.
TypeOK == ControlOK /\ PositionOK /\ StoreOK /\ CountersOK

Rows(id) == messages[id].ok + messages[id].failed
TxOf(id) == <<id[1], id[2]>>

\* What is inserted or applied more than once is bounded by the unclean ends of
\* the process: a message's effect, its row and its transaction's row appear at
\* most once per run of the process that died or failed to write its cursor,
\* plus once.  A graceful stop (Stop waits for the block to end) repeats nothing.
ReplayBound ==
    /\ \A id \in MsgIds : handled[id] <= 1 + unclean /\ Rows(id) <= 1 + unclean
    /\ \A id \in TxIds : txes[id] <= 1 + unclean

\* Under every fault, no message is stored without a row of its transaction, inserted in
\* the same run (the foreign key messages.tx_id -> txes.id).  Rows are counted for the
\* transaction they belong to, whatever ID they carry.
MessageHasTx == \A id \in MsgIds : Rows(id) <= txes[TxOf(id)]

\* A row that does not say `failed` stands for a Handle call that succeeded.
RowTellsTruth == \A id \in MsgIds : messages[id].ok <= handled[id]

\* Every transaction of a block the stored cursor has passed has a row, however
\* the process was killed, stopped or restarted on the way.
NoTxLost == \A id \in TxIds : id[1] < stateDB.Height => txes[id] >= 1

\* The stored cursor never moves back in chain order, whatever fails.
CursorMonotonic ==
    [][~Before(stateDB'.Height, stateDB'.TxIndex, stateDB'.MsgID,
               stateDB.Height, stateDB.TxIndex, stateDB.MsgID)]_vars

\* No message before the stored cursor is ever handled again.
NoHandleBelowCursor ==
    [][\A id \in MsgIds :
          handled'[id] > handled[id] =>
             ~Before(id[1], id[2], id[3], stateDB.Height, stateDB.TxIndex, stateDB.MsgID)]_vars

\* A process whose databases Stop has closed applies and stores nothing more,
\* even if a block was already retrieved when Stop ran.
NothingAfterStop == [][Closed /\ Closed' => UNCHANGED <<store, stateDB>>]_vars

\* Every block the chain produces is passed by the stored cursor at last.
CaughtUp ==
    \A h \in Heights : chainHeight >= h ~> stateDB.Height > h

\* The messages that are to be stored: those of transactions that the node did
\* not reject and that decode.
Promised ==
    {id \in MsgIds : LET tx == TxAt(id[1], id[2]) IN ~Rejected(tx) /\ tx.decodes}

\* The promise of MessageFeed, kept by the rows of the messages table and the
\* stored cursor.
Feed == INSTANCE MessageFeed WITH
    NumBlocks <- Len(Chain),
    recorded  <- {id \in Promised : Rows(id) > 0},
    height    <- IF stateDB.Height = 0 THEN 1 ELSE stateDB.Height

\* The indexer implements the feed: rows appear in chain order with no gap, and
\* the stored cursor leaves a block only when all its promised messages have rows.
FeedSpec == Feed!Spec

\* Every promised message of a block the cursor has passed has a row.
EveryMessageStored ==
    \A id \in Promised : id[1] < stateDB.Height => Rows(id) >= 1

\* A passed transaction without a row is one whose own lookup or insert failed.
LossBoundedByFaults ==
    Cardinality({id \in TxIds : id[1] < stateDB.Height /\ txes[id] = 0}) <= faults
=============================================================================
