---------------------------- MODULE MongoDaemon ----------------------------
(***************************************************************************)
(* The MongoDB daemon (x/mongoDaemon): again and again it publishes a URI  *)
(* task for the documents checked longest ago.                             *)
(*                                                                         *)
(* Its clock is a message: it waits in the delayed queue until its time to *)
(* live is over, the broker moves it to the task queue, the daemon takes   *)
(* it, handles a batch of documents, acknowledges it, and publishes the    *)
(* next.  Every start of the daemon publishes one more.  One channel does  *)
(* all of this and is never opened again: once it is gone, the daemon ends *)
(* with its message, and the container restarts it.                        *)
(***************************************************************************)
EXTENDS Documents

CONSTANTS
    Percent,        \* DaemonUpdatePercent
    DaemonFaults,   \* which of "mongo", "count", "find", "cursor", "touch" may fail
    MaxStops, MaxFailures,      \* bounds on the ends of the daemon and on failures
    MaxReady                    \* a new round begins with at most so many tasks in the URI queue

ASSUME DaemonAssumption ==
    /\ Percent \in Nat
    /\ DaemonFaults \subseteq {"mongo", "count", "find", "cursor", "touch"}
    /\ MaxStops \in Nat /\ MaxFailures \in Nat /\ MaxReady \in Nat

VARIABLES
    delayedQ, taskQ,    \* number of messages in the delayed and in the task queue
    at,                 \* where the daemon is
    connected,          \* is its channel up
    batch,              \* the documents the cursor has yet to give, as they were when found
    starts, stops, failures     \* counters

queues  == <<delayedQ, taskQ>>
tallies == <<starts, stops, failures>>
private == <<queues, at, connected, batch, tallies>>
vars    == <<collection, uriQueue, private>>

InitDaemon ==
    /\ delayedQ = 0 /\ taskQ = 0
    /\ at = "down" /\ connected = FALSE
    /\ batch = << >>
    /\ starts = 0 /\ stops = 0 /\ failures = 0

Fail(f) ==
    /\ f \in DaemonFaults /\ failures < MaxFailures
    /\ failures' = failures + 1
    /\ UNCHANGED <<starts, stops>>

-----------------------------------------------------------------------------
(* The broker.                                                             *)

\* The time to live of a delayed message is over: the dead letter goes to the task queue.
Expire ==
    /\ delayedQ > 0 /\ Len(uriQueue) <= MaxReady
    /\ delayedQ' = delayedQ - 1 /\ taskQ' = taskQ + 1
    /\ UNCHANGED <<collection, uriQueue, at, connected, batch, tallies>>

\* The task queue has the same time to live and no dead letters.  A message waits
\* there only while the daemon has another one or is down.
TaskExpires ==
    /\ taskQ > 0 /\ at # "idle"
    /\ taskQ' = taskQ - 1
    /\ UNCHANGED <<collection, uriQueue, delayedQ, at, connected, batch, tallies>>

-----------------------------------------------------------------------------
(* The process and its channel.                                            *)

\* NewMongoDaemon: NewRMQReceiverSender publishes a delayed message.
NewMongoDaemon ==
    /\ at = "down"
    /\ delayedQ' = delayedQ + 1
    /\ starts' = starts + 1
    /\ at' = "idle" /\ connected' = TRUE
    /\ UNCHANGED <<collection, uriQueue, taskQ, batch, stops, failures>>

\* The connection to MongoDB comes after that, and an error there ends the daemon.
NewMongoDaemonFails ==
    /\ at = "down"
    /\ "mongo" \in DaemonFaults /\ failures < MaxFailures
    /\ failures' = failures + 1
    /\ delayedQ' = delayedQ + 1
    /\ starts' = starts + 1
    /\ UNCHANGED <<collection, uriQueue, taskQ, at, connected, batch, stops>>

\* The daemon has a task it has not acknowledged.
Holds == connected /\ at \in {"find", "touch", "publish", "ack"}

\* Without a channel such a task is back in its queue.
Redeliver == taskQ' = IF Holds THEN taskQ + 1 ELSE taskQ

\* The batch is over; its time is forgotten.
EndBatch ==
    /\ batch' = << >>
    /\ lastChecked' = Compact([id \in DOMAIN docs |-> lastChecked[id]])

Stop == stops < MaxStops /\ stops' = stops + 1 /\ UNCHANGED <<starts, failures>>

Crash ==
    /\ at # "down" /\ Stop
    /\ Redeliver
    /\ EndBatch
    /\ at' = "down" /\ connected' = FALSE
    /\ UNCHANGED <<docs, uriQueue, delayedQ>>

\* A daemon that is waiting leaves its loop; a busy one goes on until it does.
Disconnect ==
    /\ connected /\ Stop
    /\ Redeliver
    /\ connected' = FALSE
    /\ at' = IF at = "idle" THEN "down" ELSE at
    /\ UNCHANGED <<collection, uriQueue, delayedQ, batch>>

-----------------------------------------------------------------------------
(* Run and processMessage.                                                 *)

\* The prefetch count is 1.
Deliver ==
    /\ at = "idle" /\ taskQ > 0
    /\ taskQ' = taskQ - 1
    /\ at' = "find"
    /\ UNCHANGED <<collection, uriQueue, delayedQ, connected, batch, tallies>>

\* Mutant: a limit of 0 is no documents.
AtMostLimit(n) == (n * Percent) \div 100

\* How many of n documents Find returns; for MongoDB a limit of 0 is no limit.
BatchSize(n) == LET limit == (n * Percent) \div 100 IN IF limit \in 1 .. n THEN limit ELSE n

\* The batches Find may return: so many documents, oldest first, the rest no older.
Batches(size) ==
    {b \in [1 .. size -> DOMAIN docs] :
        \A i \in 1 .. size :
            /\ \A j \in 1 .. size : i < j => b[i] # b[j] /\ lastChecked[b[i]] <= lastChecked[b[j]]
            /\ \A id \in DOMAIN docs \ {b[j] : j \in 1 .. size} : lastChecked[b[i]] <= lastChecked[id]}

Snapshot(id) == [id |-> id, token |-> docs[id].token, uri |-> docs[id].uri, owner |-> docs[id].owner]

\* Mutant: the loop does not ask whether there is a first document.
FindSome(size) ==
    /\ \E b \in Batches(size) : batch' = [i \in 1 .. size |-> Snapshot(b[i])]
    /\ at' = "touch"
    /\ Stamp(Batch, Now)
    /\ UNCHANGED <<docs, uriQueue, queues, connected>>

\* Find, then tNow; the first step of the loop follows if there is a document.
FindUpTo(size) ==
    /\ \E b \in Batches(size) : batch' = [i \in 1 .. size |-> Snapshot(b[i])]
    /\ at' = IF size = 0 THEN "ack" ELSE "touch"
    /\ Stamp(Batch, Now)
    /\ UNCHANGED <<docs, uriQueue, queues, connected>>

Find == at = "find" /\ FindUpTo(BatchSize(Cardinality(DOMAIN docs))) /\ UNCHANGED tallies

\* The error of EstimatedDocumentCount is overwritten by that of Find; the count is 0.
CountFails == at = "find" /\ FindUpTo(Cardinality(DOMAIN docs)) /\ Fail("count")

\* processMessage returns an error, which Run logs.
ProcessingFails ==
    /\ at' = "ack"
    /\ EndBatch
    /\ UNCHANGED <<docs, uriQueue, queues, connected>>

FindFails   == at = "find" /\ Fail("find") /\ ProcessingFails
CursorFails == at = "touch" /\ Fail("cursor") /\ ProcessingFails

\* UpdateOne: the document was checked when the batch began.
Touch ==
    /\ at = "touch"
    /\ Stamp(Head(batch).id, lastChecked[Batch])
    /\ at' = "publish"
    /\ UNCHANGED <<docs, uriQueue, queues, connected, batch, tallies>>

\* An error of an update that was done or of one that was not.
TouchFails ==
    /\ at = "touch" /\ Fail("touch")
    /\ LET id == Head(batch).id IN
       \E time \in {lastChecked[id], lastChecked[Batch]} :
          lastChecked' = Compact([x \in DOMAIN docs |-> IF x = id THEN time ELSE lastChecked[x]])
    /\ at' = "ack" /\ batch' = << >>
    /\ UNCHANGED <<docs, uriQueue, queues, connected>>

UriTask(d) == [token |-> d.token, uri |-> d.uri, owner |-> d.owner, priority |-> RegularUpdate]

PublishUriTask ==
    /\ at = "publish" /\ connected
    /\ uriQueue' = Append(uriQueue, UriTask(Head(batch)))
    /\ IF Len(batch) = 1
       THEN at' = "ack" /\ EndBatch
       ELSE at' = "touch" /\ batch' = Tail(batch) /\ UNCHANGED lastChecked
    /\ UNCHANGED <<docs, queues, connected, tallies>>

PublishUriTaskFails == at = "publish" /\ ~connected /\ ProcessingFails /\ UNCHANGED tallies

\* Mutant: Nack with requeue after an error, though the next message is published all the same.
AckOrNack ==
    /\ at = "ack"
    /\ at' = "schedule"
    /\ taskQ' = IF connected /\ failures > 0 THEN taskQ + 1 ELSE taskQ
    /\ EndBatch
    /\ UNCHANGED <<docs, uriQueue, delayedQ, connected, tallies>>

\* Without a channel there is an error, which is logged.
Ack ==
    /\ at = "ack"
    /\ at' = "schedule"
    /\ EndBatch
    /\ UNCHANGED <<docs, uriQueue, queues, connected, tallies>>

\* Mutant: after an error of processMessage no delayed message is published.
NotScheduledAgain ==
    /\ at = "schedule"
    /\ delayedQ' = IF connected /\ failures = 0 THEN delayedQ + 1 ELSE delayedQ
    /\ at' = IF connected THEN "idle" ELSE "down"
    /\ UNCHANGED <<collection, uriQueue, taskQ, connected, batch, tallies>>

\* The end of the loop; without a channel it is the last time.
PublishDelayed ==
    /\ at = "schedule"
    /\ delayedQ' = IF connected THEN delayedQ + 1 ELSE delayedQ
    /\ at' = IF connected THEN "idle" ELSE "down"
    /\ UNCHANGED <<collection, uriQueue, taskQ, connected, batch, tallies>>

-----------------------------------------------------------------------------
(* The specification of the daemon.                                        *)

Broker == Expire \/ TaskExpires

Run ==
    \/ Deliver \/ Find \/ CountFails \/ FindFails \/ CursorFails \/ Touch \/ TouchFails
    \/ PublishUriTask \/ PublishUriTaskFails \/ Ack \/ PublishDelayed

DaemonStep == NewMongoDaemon \/ NewMongoDaemonFails \/ Crash \/ Disconnect \/ Run

-----------------------------------------------------------------------------
(* The workers, as far as the daemon sees them.                            *)

\* A token gets its document.
InsertDocument ==
    /\ \E t \in Tokens, u \in Uris, o \in Owners, m \in Metadata :
          /\ ~Found(t)
          /\ docs' = Put(docs, FirstId(t), [token |-> t, uri |-> u, owner |-> o, meta |-> m])
          /\ Stamp(FirstId(t), Now)
    /\ UNCHANGED <<uriQueue, private>>

\* A task is done, and perhaps the token's document checked.
HandleUriTask ==
    /\ uriQueue # << >>
    /\ uriQueue' = Tail(uriQueue)
    /\ \/ Stamp(FirstId(Head(uriQueue).token), Now)
       \/ UNCHANGED lastChecked
    /\ UNCHANGED <<docs, private>>

Init == InitDocuments /\ InitDaemon

Next == Broker \/ DaemonStep \/ InsertDocument \/ HandleUriTask

Spec == Init /\ [][Next]_vars

\* The broker lets messages expire, the container restarts the daemon, the daemon gets
\* on with its message, and the workers with theirs.
FairSpec ==
    /\ Spec
    /\ WF_vars(Expire) /\ WF_vars(NewMongoDaemon) /\ WF_vars(Run) /\ WF_vars(HandleUriTask)

-----------------------------------------------------------------------------
(* Properties.                                                             *)

Messages == delayedQ + taskQ + (IF Holds THEN 1 ELSE 0)

BatchOK ==
    /\ batch \in Seq([id : DOMAIN docs, token : Tokens, uri : Uris, owner : Owners])
    /\ at \in {"touch", "publish"} => batch # << >>
    /\ at \in {"touch", "publish"} => Batch \in DOMAIN lastChecked

\* Every variable has its type, and inside the loop of processMessage there is a document.
TypeOK ==
    /\ DocumentsOK
    /\ delayedQ \in Nat /\ taskQ \in Nat
    /\ at \in {"down", "idle", "find", "touch", "publish", "ack", "schedule"}
    /\ connected \in BOOLEAN
    /\ at = "down" => ~connected
    /\ at = "idle" => connected
    /\ BatchOK
    /\ starts \in Nat /\ stops \in Nat /\ failures \in Nat

\* While the daemon waits there is a message that will wake it, however often it died,
\* lost its channel, or failed; otherwise it would wait for ever.
CycleAlive == at = "idle" => Messages >= 1

\* The daemon has acknowledged a task and not yet published the next.
Scheduling == at = "schedule" /\ connected

\* Messages multiply with restarts only: crashes that redeliver a task add none.
CyclesBounded == Messages + (IF Scheduling THEN 1 ELSE 0) <= starts

\* Every document is refreshed again and again, whatever the count of documents, crashes,
\* failures and the workers' own writes to lastChecked.
EveryDocumentRefreshed ==
    \A t \in Tokens : Found(t) ~> \E i \in DOMAIN uriQueue : uriQueue[i].token = t
=============================================================================
