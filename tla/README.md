# TLA+ models of the Dgaming data warehouse

The data warehouse (DWH) follows a Cosmos chain that runs the marketplace
application and mirrors it into databases that are easy to query. This
directory holds models of it for TLC and proofs for TLAPS, kept beside the code.

## 1. Inventory

```
 node ──blocks, txs──▶ indexer ──rows──▶ Postgres ──▶ Hasura (GraphQL)
   ▲                     │ cursor ▶ LevelDB
   └──account/nft query──┤
                         └─URI task─▶ [uri queue] ─▶ token metadata worker ──▶ MongoDB
                                          ▲                  │                  │
                                          │              image task             │
                       [delayed queue]◀─▶ mongo daemon ◀─────┼──oldest documents┘
                                                             ▼
                                  image storage ◀─HTTP─ image worker ◀─ [image queue]
```

| component | state it keeps | operations | what is hard | what makes it correct |
|---|---|---|---|---|
| **Indexer** `x/indexer` | cursor (height, tx index, message index) in memory and LevelDB; tables `txes`, `messages`; the gorm handle `m.db` | `NewIndexer`, `Setup`, `Start`, `processTxs`, `processMsg`, `updateCursor`, `Stop` | two goroutines and a mutex; a restart at any point; writes to two databases that are not one transaction; a handle that keeps errors; failing node | nothing lost, replays bounded, order kept, cursor never back, nothing written after Stop, every block passed |
| **Marketplace handler** `x/indexer/handlers` | tables `users`, `nfts`, `auction_bids`, `offers`, `fungible_tokens`, `fungible_token_transfers` (which stays empty) | `Handle` on 17 message types, `findOrCreateUser`, `queryNFT`, `Setup`, `Reset`, `Stop` | several statements per message, each committed on its own; replays; soft deletion under unique keys; queries of the node's newest state; errors that are lost | tables follow the chain; URIs reach the queue but for one per crash or failed publication; one bad message does not stop the rest |
| **Queue clients** `x/common/rabbit_*.go` | connection and channel | `Publish`, `GetMessageChan`, `Closer` | a channel that closed stays closed; redelivery of what was not acknowledged; priorities reorder | what is delivered is handled at least once, whoever dies |
| **Token metadata worker** `x/tokenMetadataService` | a MongoDB document per token | `Run`, `processMessage`, `upsertTokenMetadata` | find then upsert without a unique index; acknowledges failures; tasks out of order; a crash between storing and publishing | no task lost but to a failure, few documents per token, the image of what is stored is published |
| **Mongo daemon** `x/mongoDaemon` | `lastChecked` of the documents; the delayed message | `Run`, `processMessage`, `publishDelayed` | delayed messages multiply or vanish over restarts; limit 0; a channel that is gone; reads and writes `lastChecked` while workers write it | there is always a message that wakes it, not too many of them, and every document is refreshed again and again |
| **Image worker** `x/imgresizer` | none | `ProcessMessage`, `checkAndSendImage` | acknowledges failures; goes on when the check fails; redelivery | every resolution of an image reaches the storage |
| **Image storage** `x/imgstorage` | files named owner/token/resolution hash + content hash | `storeImg`, `loadImg`, `getCheckFile` | list, write, remove by concurrent requests | the last stored image can be loaded, and a store that fails leaves the old one |
| Configuration, metrics, connections | none | read at start | — | — |
| Deployment, GraphQL | none in this repository | container restarts | — | — |

`PROJECT.json` lists the hazards of all of them with the line where each bites.

## 2. Plan

1. `Indexer`, with `MessageFeed` as the abstract promise it implements; `IndexerProofs`, `ReplayProofs`,
   and the refinement in `FeedProofs` — done.
2. `Marketplace`, the handler below the indexer, and `MarketplaceProofs` — done.
3. `ImgStorage`, with the image worker's check and store, and redelivery after its death;
   `ImgStorageProofs` — done.
4. `Documents`, `TokenMetadata`, with `DocumentsProofs` and `TokenMetadataProofs`: the workers of the URI queue — done.
5. `MongoDaemon`, `MongoDaemonProofs`: the delayed and the task queue over restarts and crashes — done.
6. `Pipeline`: handler, workers and daemon composed over the queue and the documents they share — done.
7. Left: `Pipeline` with more than one token and worker, and its safety.

## 3. Modules

### Indexer

State: the stored (`stateDB`) and the in-memory `cursor`; `pc`, `txi`, `msgi`,
`failed` for the Start goroutine inside `Start`, `processTxs` and `processMsg`; `stopper` for
the goroutine of `main` that waits for a signal and calls `Stop`; `db` for the handle `m.db`,
which is sound, carries an error, or is nil; the tables as counts of rows per
transaction and message; and `handled`, the number of times a message's effect was applied.

One action per statement that writes something another goroutine or a restart
can see. `MuHeld` is the set of places where Start holds `m.mu`; `Stop` waits
for it, but may run between the retrieval of a block and `LockMu`. Once stopped,
Postgres and LevelDB are closed: inserts and Puts fail. `UpdateCursorMsg` precedes
`StoreRow` because the row is inserted by a deferred function. `StoreTxFails` and `StoreRowFails`
make `db` carry an error, which `m.db = m.db.Create(...)` keeps until the process is
restarted; an insert that reports an error may have happened.
`LookupTxFails` is the `continue` after a failed `rpcClient.Tx`.
`Crash` and `Exit` lose the memory; `NewIndexer` loads the cursor and `Setup`
drops the tables if `reset_database` says so. `SetupTablesFails` ends the process (`main` calls
`log.Fatalf`). `SetupHandlerFails` is indexer.go:121–128: the error is logged and `m.db` becomes
nil. The marketplace handler stands under two router keys and is set up once for each, so a failure in the
second leaves a process that runs with a nil handle until `Panic`, its first use, and one in the
first makes the second panic.

The handle keeps more than errors. `Scan(dbTx)` (indexer.go:211) leaves its destination in it
(`gorm:query_destination`), so the `First(&ft)` of a transfer of fungible tokens (marketplace.go:410) scans the
row of the fungible token into `dbTx` and overwrites its ID. The rows of the later messages of that transaction
then name another `tx_id`, or are refused by the foreign key, one of the faults of `StoreRowFails`. The module
counts rows for the transaction their message is in, whatever `tx_id` they carry.

The height, transaction and message of the chain (`Chain`) are a constant; a
transaction is its result code, whether its bytes decode, and for each of its messages
whether a handler is registered for its route. What Handle does is one step here; its
statements are those of `Marketplace`. Left out: gas, logs, signers and metrics.

What the code does with a transaction that failed with any code but
`CodeUnknownRequest` (indexer.go:217, its messages are handled all the same) is in the module and in `HardChain`;
no property is stated against it, because the constant does not say which codes the
node means by it.

### MessageFeed

The promise to readers: messages appear in chain order without a gap, and
a block is passed only when its promised messages (in a transaction the node did not reject
and that decodes) have rows. No cursor, no crash, no process.
`Feed` in `Indexer` is the refinement mapping: `recorded` are the promised
messages with a row, `height` the stored cursor's height.

### Marketplace

State: the chain (`nft`, `offered`, `supply`), which runs ahead of the handler by at
most `MaxLag` messages; the queue of messages `pending`; `done`, what a restart
would handle again; `step`, the statement of the first pending message that
Handle is at; the tables; and `tasks`, the URIs published.

`HandleMsg` gives for each message type the statements of its case in `Handle`, in
order, and there is one action per kind of statement, whose guard is what the
database or the node refuses: the foreign keys of `Setup`, the unique columns, a
missing row, an account or token the node does not have. `Refused` ends the message,
as the `return` in the code does. A `Fault` ends it as well, unless the code looks for the error
in the wrong gorm handle (`Unchecked`, `ErrorIgnored`). Deletion marks a row
(`live`). `EndMsg` moves the message to `done`: after success only it would be
handled again (the cursor stands at it), after a failure also those before.
`EndBlock` may happen between any two messages.

The chain is external: `SendTokenMsg`, `SendOfferMsg` and `SendFungibleMsg` say which
messages the marketplace application accepts and what they do, as the handler
and `gen_marketplace_data.sh` use them. Messages of rejected transactions do not occur, a transaction has one message, and the events the
handler looks for are there. `MsgAddresses` is `getMsgAddresses`: every account address
in the message, the beneficiary's (one of `Beneficiaries`) included. Left out: prices, commissions, balances,
what the tables note of a beneficiary, and the owner and the priority in a task. A replayed offer is a second row with the same offer id, which every
query treats like the first, so `offers` has one entry per id; bids
are counts, because there repetition shows.

The module also shows where the mirror leaves the chain, and its properties are
stated around these places: a token burned and minted again stays
deleted (marketplace.go:129, the constant `ReMint`); a message that names an address without an account, be it that of a beneficiary, is
not handled at all, since Handle asks the node for the account of each (the constant `Accounts`); a crash between the insert of a token
and its publication loses the URI, as the replay fails at the unique key
(marketplace.go:117, 123), which is why `UrisPublished` counts crashes; a failed deletion of an auction's bids is
looked for in the wrong handle (`Unchecked`); no transfer of fungible tokens is ever mirrored, because
the handle given to Handle scans the token into the indexer's `dbTx`, and the ID that line 411
looks at stays 0. `Refused` says the last of every `findFungible`, so there is no table of transfers in the
module and no action behind the lookup.

### ImgStorage

State: `disk`, for each file (resolution, image) whether it is absent, partial or
whole; `store`, for each goroutine of `StoreHandler` where it is in `storeImg` and the
names it listed; `worker`, the image worker inside `ProcessMessage` with the
resolutions left; `load`, one goroutine of `LoadHandler`; and `latest`, for
stating the properties, the image the worker last took for stored.

`storeImg` is cut where it touches the directory: `List` (Glob), `Open` and `Write`
(WriteFile truncates before it writes), one `Remove` per listed name. A file that another store removes
between `Open` and `Write` is written without a name (`unlinked`) and stays gone. `Return` answers
200 whether or not a removal found its file. `StoreFails` is any of the other errors of `storeImg`, at any
of its statements: a directory, a body, a full disk, a removal. It answers 200, too (handlers.go:27), and the worker
takes the image for stored. `Find` and `Serve` are the two accesses of
`loadImg`. `Send` follows a check that said no or one that failed
(`resizer.go:197`). `SendTimesOut` leaves a goroutine behind that the worker no
longer waits for, so two stores can overlap; `Crash` ends all goroutines where
they are. One owner and token are modelled, an image in two sizes
is one image; gzip, the codecs and the making of the directory are left out. `WorkerCrash` ends the worker
inside a task it has not acknowledged: the broker delivers the task again (`Redelivered`), from the first
resolution, while the storage may still be busy with the request of the dead worker. Its image is downloaded
again: it may be another by now, or cannot be had or decoded (`TakeTask`).

### Documents

What workers and daemon share: the collection `docs` (document id to token, URI, owner and
metadata), the URI queue, and `lastChecked`. Times are compared with each other and with nothing
else, so `lastChecked` holds ranks without gaps (`Compact`, `Stamp`), and `Batch` stands among
them for `tNow` of the daemon's running batch. `FirstId` is the document that FindOne and UpdateOne pick; the
collection has no unique index (`x/common/mongo.go` makes none), so `NextId` may be a second one
of the same token. `Foremost` is RabbitMQ's order: the oldest message of the
highest priority. MongoDB and RabbitMQ are external and modelled as the code uses them.

### TokenMetadata

State: `web`, the metadata behind each URI; for each worker `pc`, `task`, `fetched`,
`same` inside `Run` and `processMessage`, and whether its two connections are up; the images
published. The actions follow `processMessage` (service.go): `Deliver`, `GetMetadata`, `FindOne` with the
comparison, `Update`, or `NoMatch` and `Insert` (an upsert that finds nothing is a search and an insertion
for the server, and another upsert may come between), `PublishImage`, `Ack`. The workers are separate
processes, as with `docker-compose --scale`.

`GetMetadataFails`, `FindOneFails` and `UpsertFails` end the message, which is acknowledged all
the same (service.go:105); an upsert that reports an error may have been done. `Crash` ends the process,
and its message is back at the head of the queue; `Disconnect` does the latter while the worker goes
on with the message another may now have, until `AckFails` and the range over the deliveries end it.
`SenderBreaks` loses every image until a restart, because `Publish` reports an error that is only
logged. `WebChanges` may come at any time.

A metadata object is a function from its fields; `WrongType` is a value that the
schema refuses. `getMetadata` does not look at the status code, so what a server answers with an
error is metadata when it is a JSON object. `$set` leaves fields that the new metadata lack
(`fetched @@ old`), and with metadata that equal the stored it sets the time only.

A worker whose connection broke goes on with a message that another may get, too. If the other is done first, and
the first then stores newer metadata and dies before it publishes their image, nobody will publish it: these two
accidents together lose an image, which is why `ImageAnnounced` counts them.
Left out: validation messages and the layout of `dwhData`.

### MongoDaemon

State: the numbers of messages in the delayed queue and in the task queue (messages are alike);
`at`, where the daemon is in `Run` and `processMessage`; `connected`, its one channel;
`batch`, the documents its cursor has yet to give. `Expire` is the broker's time to live with its dead-letter
exchange; `TaskExpires` is the same time to live of the task queue (receiver_sender.go), which
has no dead letters. `NewMongoDaemon` publishes one delayed message at each start, also when the connection to
MongoDB then fails. `Find` takes the limit as `EstimatedDocumentCount` times the percentage by
integer division; 0 is no limit for MongoDB, and the error of the count is overwritten (`CountFails`).
`Touch` and `PublishUriTask` are the two statements of the loop, and their failures leave it
for `Ack`; `Ack` precedes `PublishDelayed`, and a crash may come between. A document in `batch` is as it was when Find
returned, though it changes meanwhile: a batch is what the driver fetches at once.

`InsertDocument` and `HandleUriTask` stand for the workers in this module alone; `Pipeline` has the
real ones. The daemon skips documents without `dwhData` fields; workers write all of them, so there are
none here. A delayed message expires while at most `MaxReady` URI tasks are ready, a bound: with more the
daemon only adds tasks that are there already.

### Pipeline

`Worker == INSTANCE TokenMetadata`, `Daemon == INSTANCE MongoDaemon`, over the same `docs`,
`lastChecked` and `uriQueue`; a step of one leaves the other's variables alone. `Handle` mints, edits and
transfers tokens and publishes the URI task with the priorities of the handler; the owner in the task of a
transfer is the old one, as in marketplace.go:158. A message is one step here, since `Marketplace`
has what can happen inside it, so a URI that a crash loses there is not lost here.

## 4. Runs

| run | shows | bounds |
|---|---|---|
| `indexer_safety` | under every fault at once rows stay consistent, replays are bounded, the cursor never moves back, nothing is written after Stop | `HardChain`: 2 blocks, 5 transactions, every way to skip one; 1 failure of node or Postgres, 2 crashes or failed Puts, 1 signal, resets at will |
| `indexer_feed` | when node and Postgres answer, crashes, signals and failed Puts lose nothing: `Indexer` implements `MessageFeed`, and every block is passed | `TailChain`: 3 blocks, one empty; 2 crashes or failed Puts, 1 signal |
| `indexer_carry` | **violation**: the cursor's message index, left by one transaction, hides the first messages of the next (indexer.go:259) | 1 block, 2 transactions, no fault |
| `indexer_sticky` | **violation**: after one failed insert every later transaction is lost (indexer.go:211) | 3 blocks, 1 failed insert |
| `marketplace_mirror` | the tables follow the chain through every sequence of messages, though a crash repeats some and the broker fails; one URI at most is lost per crash or failed publication | 1 token, 2 URIs, 2 accounts (which are the beneficiaries), 1 offer, no denomination, 5 messages, lag 2, 1 crash, 1 failed publication |
| `marketplace_progress` | whatever cannot be handled, the handler catches up again and again; the fungible tokens follow the chain, and the lost URIs of several tokens stay within the bound | 2 tokens, 1 denomination, 3 messages, a receiver and beneficiary without account, tokens minted again, 1 failure of Postgres and 1 of the broker, 2 crashes |
| `img_store` | a store leaves just its image, a load that meets none serves it, a storage that dies or a store that fails keeps an image it had, a worker that dies leaves no resolution out | 2 resolutions, 2 raster and 1 vector image, 3 tasks, 2 concurrent stores, any 2 of the 5 faults |
| `img_own` | **violation**: storing an image that is already there removes the file just written (storage.go:76) | 2 resolutions, 1 raster and 1 vector image, 2 tasks, 1 failed check |
| `metadata` | crashes and lost connections lose no task, failures at most one each; no more documents of a token than workers; the image of what is stored is published, unless two accidents meet; every task is done | 1 token, 1 URI, 2 owners, 2 workers, 2 tasks, 1 change of the web, 2 crashes or disconnections, 1 failure of server, find, upsert or sender |
| `daemon` | there is always a message that wakes the daemon, no more of them than it had starts, and every document is refreshed again and again | 3 documents, 40 percent (a batch is all of 1 or 2, one of 3), 2 crashes or disconnections, 1 failure of any kind |
| `pipeline` | every minted token gets its document; the daemon repairs what a failed download or update, a crash or a late task left stale | 1 token, 2 URIs, 1 owner, 1 worker, mint and one edit or transfer, 1 change of the web, 1 crash, 1 failure; no faults of the daemon |
| `pipeline_uri` | **violation**: when the new URI of a token answers the metadata that are stored, the document keeps the old URI (service.go:199) | 1 token, 2 URIs with the same metadata, mint and edit, no fault |

Why the bounds are enough. Indexer: every comparison with the cursor needs
two transactions of a block, one of them with two messages, and a block
after it; a replay of a replay needs two unclean ends. `TailChain` has at most one transaction of
several messages per block, and none after it in its block: what happens otherwise is
`indexer_carry`, and `FeedSpec` does not hold there. Marketplace: tokens, offers and
denominations do not meet in any statement except the token of an offer, so
one of each suffices, and denominations are in `marketplace_progress` alone, with the two tokens that the number of lost
URIs needs; five messages reach mint, auction, two bids and a sale, or mint, offer,
edit, acceptance and a message after it; a lag of 2 lets the node be ahead
of the message that is handled. In `marketplace_mirror` accounts and URIs are
interchangeable, and only invariants are checked, so symmetry is sound.

Image storage: an image is replaced by another and then looked for again within three
tasks; two goroutines are what one worker that gave up once can cause; each property
of `img_store` that admits faults admits two kinds of them, and two (`MaxFaults`) meet each other. Raster images and
goroutines are interchangeable, and the action properties name none, so symmetry is sound. The
properties say for which faults they hold: after a failed check a store removes its own file (`img_own`), and a
store nobody waits for may remove that of another.

Workers: documents of different tokens never meet in a statement, so one token is enough for
`metadata` (but `LostDocumentsBounded` says little of one token, and its theorem `FewDocumentsLost` says it
of any number), and two workers for the race of two insertions; with two tasks a redelivered one meets
another, and two accidents are the fewest that lose an image. Daemon: three documents are the fewest for which the
limit is neither 0 nor all of them; two stops let a redelivered task meet the message of a restart, and
that of a second one. Pipeline: one token in two versions is what an overtaken task needs; the daemon's
own faults are those of `daemon`, where the order of documents shows.

Deadlock is not checked in the runs of `Marketplace`, `ImgStorage`, `TokenMetadata` and `Pipeline`: the chain ends after
`MaxMsgs` messages, the tasks after `MaxTasks`, and there may then be nothing to do. It is
checked in those of `Indexer` and `MongoDaemon`, which run for ever.

Fairness. `Indexer`: the restart policy of `dwh-compose.yml` starts a dead
process again (`NewIndexer`, `Setup`), the goroutines are scheduled
(`ProcessTxs`, `ProcessMsg`, `StartFailed`, `Stop`, `ContextDone`, `Exit`), and a
block that exists is returned at last, because `Start` asks for it every second. No
fairness is assumed of the chain, of signals or of faults; crashes are finite by
`MaxUnclean`. `Marketplace`: the loop of `processTxs` goes on to the next
message (`Handler`). `TokenMetadata`, `MongoDaemon`, `Pipeline`: the same restart policy
(`unless-stopped` in `dwh-compose.yml`) starts a dead worker or daemon, and each gets on with the
message it has (weak fairness of each worker's `Run`, of `NewMongoDaemon` and the daemon's `Run`); the
broker lets messages expire (`Expire`); in `MongoDaemon` alone, workers handle tasks (`HandleUriTask`).
Failures are not fair: no property relies on one, and `MaxFaults`, `MaxFailures` end them. Downloads have a timeout, so
`GetMetadata` or its failure comes at last.

## 5. Proofs

`IndexerProofs` proves for every chain, every set of faults and every bound, from
the assumptions of `Indexer` on its constants alone:

* `TypeCorrect` — `TypeOK`, with `HeightInv` (the height is at least 1 once
  the process is up);
* `CursorInvariant` — `CursorInv`, the strengthening the next two need: while the
  process runs the cursor in memory is the stored one (after a failed Put they differ, but then
  the goroutine is on its way out), and the message that processMsg is at
  is not before it. `IsOldTx` and `IsOldMsg` establish the latter;
* `CursorNeverBack` — `CursorMonotonic`: by `CursorInv` each write of
  LevelDB writes a position that is not earlier;
* `HandledOnlyAtCursor` — `NoHandleBelowCursor`, from the same invariant;
* `RowsHaveTx` and `RowsTellTruth` — `MessageHasTx` and `RowTellsTruth`. Neither is inductive:
  `RowInvariant` adds that inside processMsg the transaction's rows are still one
  ahead of the rows of its current and later messages, and that after a successful Handle
  the count of its effects is one ahead of the rows that do not say `failed`;
* `StoppedWritesNothing` — `NothingAfterStop`: `StopInvariant` adds that a process that is not up yet has not been
  stopped, and that Start is never inside processMsg when the databases are closed, because Stop waits for `m.mu`;
* `NoTransactionLost` — `NoTxLost`, under `Reliable` (neither node nor Postgres
  fails, no reset; crashes, signals and failed Puts are allowed). `TxInvariant` adds that `m.db` carries an
  error only once Stop has closed it, and that, unless it has, the transactions gone
  past in the current block have rows.

`ReplayProofs` proves `RepeatsBounded` — `ReplayBound`, again for all faults and resets. A count at its
bound says nothing of the next step, so `ReplayInv` says for each transaction, each Handle and each row whether it is
done in this walk (`TxDone`, `HandleDone`, `RowDone`): until then there are `unclean` of it at most, after it one more.
`DoneKept` is the heart: what is done stays done unless the process ends uncleanly, because a clean end falls
between two blocks and the cursor's height never goes back (`HeightGrows`).

`FeedProofs` proves the refinement, `ImplementsFeed` — `FeedSpec`: the initial states map to an initial state, and every
step appends the next promised messages, passes a block, or stutters. It assumes `Reliable` and
`SeveralOnlyLast`: no transaction with several messages is followed by another that promises messages in the same block. The code does not guarantee
the second; without it the theorem is false, which is what the run `indexer_carry` shows. `FeedInv`, its
invariant, says that every promised message before the stored cursor has its row, so has each one that an open process
has gone past, and that the cursor lies on a promised message. `SkippedBefore` is the one place where
`SeveralOnlyLast` is needed: what `IsOldMsg` skips lies before the cursor.

`ImgStorageProofs`, for any resolutions, images, and numbers of tasks and goroutines:

* `TypeCorrect` — `TypeOK`, with `HasKeys` (a task under way is of an image with resolutions);
* `ImagesKept` — `ImageKept`, while nothing happens but the storage dying or a store failing. `KeptInv`: the goroutine the
  worker waits for is the only one, and it never removes the file it writes, because a store begins only when its
  file is absent. With a failed check it may be there, which is `img_own`;
* `LatestOnDisk` — `LastImageStored`, while nothing fails. `TidyInv` says of each statement of `storeImg` what lies
  under its key: what it listed and its own file;
* `UndisturbedLoad` — `LoadUndisturbed`, while nothing has failed: what `Find` saw is there for `Serve` as long as no store met the load, and a
  store that it has not met is still at its `List`;
* `NoResolutionLeftOut` — `AllResolutionsStored`, whatever checks fail and however often the
  worker dies: `KeysInv` says that the
  resolutions the worker has left are the last of its image, and all before are stored.

`DocumentsProofs` has what the next two share: `CollectionOK` (ids, times without gaps in which `Now` is later than all,
every document with a time), and that writing a document (`DocumentPut`), giving a time (`StampCollection`) and the
queue's operations keep it.

`MongoDaemonProofs`, for every collection, percentage, and number of stops and failures:

* `CycleInvariant` — `CycleInv`, three facts about the clock. `Awaited`: while the channel is up, a
  message is in a queue, in the daemon's hands, or about to be published
  (`Scheduling`). This is what `CycleAlive` lacks to be inductive, since between `Ack` and `PublishDelayed` there may be
  no message at all. `CyclesBounded`, which for the same reason counts the message about to be
  published; and `CycleTypes`, the types of the counters and of `at`;
* `CycleStaysAlive` and `CyclesStayBounded` — `CycleAlive` and `CyclesBounded` from it;
* `TypeCorrect` — `TypeOK`, with `DocumentsKnown`: here a token has one document at most, and tasks and the batch
  are of tokens that have theirs, so that the daemon never touches a document that is not there.

`TokenMetadataProofs`, for any finite set of workers, any metadata and tasks and any faults:

* `DocInvariant` — `DocInv`: a token's first document stays the first (`FirstKept`), so an
  update adds none; and the documents of a token together with the workers that have found none and are
  about to insert are no more than the workers (`Room`). `OneDocumentPerWorker` alone is
  not inductive: it says nothing of who is about to insert. `NoMatchHasRoom` is the heart: a worker that finds no document
  joins workers, all of whom are about to insert, and it was not among them;
* `DocumentsBounded` — `OneDocumentPerWorker` from it;
* `TypeCorrect` — `TypeOK`. `TypeInvariant` adds what the workers know (`WorkersKnow`): metadata found equal
  mean that the token has a document, at an update as well as at the acknowledgement; what is published has an image;
* `FewDocumentsLost` — `LostDocumentsBounded`. A token without a document is `Pending` as long as it has a task in the queue or a
  worker with a channel that will write; `MissingInvariant` says that those which are not are no more than the
  kinds of failure that happened. A crash or a broken connection puts the task back, and only a worker whose channel
  is up is counted on, so neither makes a token missing;
* `ImagesAnnounced` — `ImageAnnounced`, while nothing fails but processes and connections. `ImageInvariant` is an account:
  a worker that goes on without a channel (`Orphans`) stands for one accident, a token whose last image nobody will
  publish (`Forgotten`) for two. A worker with a channel that dies has its task done again; an orphan that dies
  between storing and publishing turns its own accident and the new one into a forgotten image.

`MarketplaceProofs`, for any tokens, accounts, offers and messages:

* `Places` says of each statement in which messages and at which place it occurs, `UsersFirst` that the users
  of a message come before; everything else rests on these two and never looks at `HandleMsg` again;
* `TypeCorrect` — `TypeOK`. `TypeInvariant` adds `UsersKnown`: a statement after the creation of a user finds that
  user, so the buyers in `offers` and the owners in `nfts` have rows in `users`;
* `UrisReachQueue` — `UrisPublished`. `UriInv` counts the `Lost` tokens, whose URI was not published and will not be by the
  message at hand: at most one for each crash and for the failed publication. Only `createNFT` and the update
  of `MsgEditNFTMetadata` give a row its URI, and both are followed by `publish`, which nothing but the broker
  refuses; so only a crash or that failure makes a token lost (`UriStep`), and only the one at hand (`LostOne`);
* `TokensFollowChain`, `BidsFollowChain`, `OffersFollowChain`, `FungiblesFollowChain` — `MirrorInSync`,
  `BidsMirrored`, `OffersMirrored`, `FungiblesMirrored`, for any number of crashes, under the hypothesis that every address
  has an account and no burned token is minted again (`Accounts = Addresses`, `ReMint = FALSE`, as in
  `marketplace_mirror`). The code guarantees neither; section 3 says what goes wrong without.
  None is inductive, since they speak only of an empty queue. `MirrorInvariant` has two halves. `HistInv` is about the
  chain and the messages a crash may repeat (`Kept`, by number): a token has the columns of the last message that sets
  them, a mint comes before everything else about its token, and once one of them ends an auction the
  bids after the last that does are the token's (`Recent`). What each kind of message does to the chain is `Did`, with `ChainDid`. `DbInv` is
  about the tables: each differs from the chain only where a statement still to be run (`Todo`) sets it right. So a
  column that no update still to be run sets is the chain's; a bid is in the table or still to come, unless it is about to be deleted.
  A crash only adds to `Todo`, and the update of an older message that it repeats is always followed by the repetition of the
  newer one. Bids are appended and do not bear repetition: they never fail, so of them only the message at the cursor and the
  one at hand are done twice (`HandledOnce`, `RepeatedOnce`), hence two for each crash. `SeldomRefused` shows what
  Handle may still be refused: a row that is there already, the URI of a burned token, and every transfer of fungible
  tokens; so a message that
  ends early has nothing left to do in the tables (`NothingLeft`).

All theorems rest on the named assumptions of the modules on their constants and, where said, on `Reliable` and
`SeveralOnlyLast`; the inductive invariants of `TokenMetadata`, `ImgStorage` and `Marketplace` were checked with TLC first.

Only model-checked: the liveness properties, among them all of `Pipeline` (`CaughtUp`,
`NeverStuck`, `Drained`, `EveryDocumentRefreshed`, `Documented`, `ContentFollows`), which are out of the prover's reach:
it has neither fairness nor ENABLED.

## 6. Not modelled

* Configuration, metrics and the opening of connections (`x/common/config.go`, `metrics.go`, `mongo.go`):
  read once at the start or never read again; no state later steps depend on.
* Deployment and generated data: scripts. Of them the restart policy is used for fairness.
* Hasura is a separate program that reads Postgres.
* The codecs (JSON, amino, gzip) and the resizing of images are libraries that keep nothing.
* Of the handler: prices, commissions, balances, what the tables note of a beneficiary, and the creation of the tables,
  which change no decision of the code. That a beneficiary needs an account does, and is modelled.

Known and left without a property, because the code makes no promise there that it keeps; the modules have
each of them, unless said otherwise:

* the owner a document names after a transfer is the old one (marketplace.go:158);
* a task overtaken by one of higher priority writes the older URI last (service.go:197), which is why `ContentFollows`
  speaks of the URI the document has and not of the chain's;
* transactions that failed (indexer.go:217, section 3);
* transfers of fungible tokens, and the `tx_id` of the rows after one (indexer.go:211, marketplace.go:410; the `tx_id` is not
  modelled). gorm is not part of the repository: this is what version 1.9, which `go.mod` asks for, does;
* tokens minted again, and messages that name an address without account: neither is mirrored;
* deletions whose errors are lost: the bids or the token stay;
* a sender whose channel broke: what it is to publish is lost until the process ends (rabbit_sender.go:72);
* two stores of one resolution at a time, and a load that meets a store;
* a store that failed, and a file torn by the death of the storage: the worker takes both for stored;
* the raster files of a token whose image has become a vector image: loads of their resolutions prefer them.
