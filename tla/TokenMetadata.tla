--------------------------- MODULE TokenMetadata ---------------------------
(***************************************************************************)
(* The token metadata workers (x/tokenMetadataService): each takes tasks   *)
(* from the URI queue one at a time, downloads the metadata of the token,  *)
(* upserts its document, and sends the image to the image queue.           *)
(*                                                                         *)
(* A task is acknowledged when processMessage is over, with or without an  *)
(* error; the broker gives a task that was not acknowledged to the next    *)
(* consumer, at the head of the queue.  A worker has two connections to    *)
(* the broker and opens none again: when the one it receives on is gone it *)
(* ends its message and the process, which the container restarts; when    *)
(* the one it sends on is gone it goes on without it.                      *)
(***************************************************************************)
EXTENDS Documents, SequencesExt

CONSTANTS
    Workers,
    Tasks,          \* the tasks that others publish
    Faults,         \* which of "web", "find", "upsert", "sender" may fail, each once
    MaxTasks, MaxChanges, MaxCrashes, MaxFaults     \* bounds

ASSUME WorkerAssumption ==
    /\ IsFiniteSet(Workers)
    /\ Tasks \subseteq Task
    /\ Faults \subseteq {"web", "find", "upsert", "sender"}
    /\ MaxTasks \in Nat /\ MaxChanges \in Nat
    /\ MaxCrashes \in Nat /\ MaxFaults \in Nat

VARIABLES
    web,            \* the metadata behind each URI
    pc, task,       \* per worker: where it is, and its task
    fetched,        \* per worker: metadata in processMessage
    same,           \* per worker: reflect.DeepEqual(metadata, oldMetaData)
    receiving, sending,     \* per worker: are its two connections up
    imgTasks,       \* the images published, for [token, owner, image]
    upserted,       \* per token, the metadata and owner of the last upsert (for the properties)
    delivered,      \* the tokens of which a task was delivered (for a property)
    published, changes, crashes, faults     \* counters, and the faults that have happened

worker   == <<pc, task, fetched, same>>
links    == <<receiving, sending>>
history  == <<upserted, delivered>>
counters == <<published, changes, crashes, faults>>
private  == <<web, worker, links, imgTasks, history, counters>>
vars     == <<collection, uriQueue, private>>

NoTask == [token |-> "none"]
NoMeta == << >>
NoUpsert == [owner |-> "none", meta |-> NoMeta]

InitPrivate ==
    /\ web \in [Uris -> Metadata]
    /\ pc = [w \in Workers |-> "idle"] /\ task = [w \in Workers |-> NoTask]
    /\ fetched = [w \in Workers |-> NoMeta] /\ same = [w \in Workers |-> FALSE]
    /\ receiving = [w \in Workers |-> TRUE] /\ sending = [w \in Workers |-> TRUE]
    /\ imgTasks = {} /\ delivered = {}
    /\ upserted = [t \in Tokens |-> NoUpsert]
    /\ published = 0 /\ changes = 0 /\ crashes = 0 /\ faults = {}

Init == InitDocuments /\ InitPrivate

Goto(w, l) == pc' = [pc EXCEPT ![w] = l]

Fault(f) ==
    /\ f \in Faults \ faults /\ Cardinality(faults) < MaxFaults
    /\ faults' = faults \cup {f}
    /\ UNCHANGED <<published, changes, crashes>>

-----------------------------------------------------------------------------
(* The world around the workers.                                           *)

\* RMQSender.Publish, of the indexer's handler.
Send(t) ==
    /\ published < MaxTasks
    /\ published' = published + 1
    /\ uriQueue' = Append(uriQueue, t)
    /\ UNCHANGED <<collection, web, worker, links, imgTasks, history, changes, crashes, faults>>

Publish == \E t \in Tasks : Send(t)

WebChanges ==
    /\ changes < MaxChanges
    /\ changes' = changes + 1
    /\ \E u \in Uris, m \in Metadata : web' = [web EXCEPT ![u] = m]
    /\ UNCHANGED <<collection, uriQueue, worker, links, imgTasks, history, published, crashes, faults>>

-----------------------------------------------------------------------------
(* The process and its connections.                                        *)

\* NewTokenMetadataWorker, with NewRMQReceiver and NewRMQSender.
NewTokenMetadataWorker(w) ==
    /\ pc[w] = "down"
    /\ Goto(w, "idle")
    /\ receiving' = [receiving EXCEPT ![w] = TRUE] /\ sending' = [sending EXCEPT ![w] = TRUE]
    /\ UNCHANGED <<collection, uriQueue, web, task, fetched, same, imgTasks, history, counters>>

\* The process ends; its variables are gone.
Exit(w) ==
    /\ Goto(w, "down")
    /\ task' = [task EXCEPT ![w] = NoTask]
    /\ fetched' = [fetched EXCEPT ![w] = NoMeta] /\ same' = [same EXCEPT ![w] = FALSE]
    /\ receiving' = [receiving EXCEPT ![w] = FALSE] /\ sending' = [sending EXCEPT ![w] = FALSE]

Busy(w) == pc[w] \notin {"down", "idle"}

\* Mutant: the queue is consumed with autoAck.
NotRequeued(w) == uriQueue

\* The queue once the channel of w is gone: what w has not acknowledged is ready again.
Requeued(w) == IF Busy(w) /\ receiving[w] THEN <<task[w]>> \o uriQueue ELSE uriQueue

Die == crashes < MaxCrashes /\ crashes' = crashes + 1 /\ UNCHANGED <<published, changes, faults>>

Crash(w) ==
    /\ pc[w] # "down" /\ Die
    /\ uriQueue' = Requeued(w)
    /\ Exit(w)
    /\ UNCHANGED <<collection, web, imgTasks, history>>

\* The receiver's connection breaks.  A worker that is waiting leaves its loop and ends.
Disconnect(w) ==
    /\ receiving[w] /\ Die
    /\ uriQueue' = Requeued(w)
    /\ IF Busy(w)
       THEN receiving' = [receiving EXCEPT ![w] = FALSE] /\ UNCHANGED <<worker, sending>>
       ELSE Exit(w)
    /\ UNCHANGED <<collection, web, imgTasks, history>>

SenderBreaks(w) ==
    /\ sending[w] /\ Fault("sender")
    /\ sending' = [sending EXCEPT ![w] = FALSE]
    /\ UNCHANGED <<collection, uriQueue, web, worker, receiving, imgTasks, history>>

-----------------------------------------------------------------------------
(* Run and processMessage.                                                 *)

\* The prefetch count is 1: nothing is delivered before the last Ack.
Deliver(w) ==
    /\ pc[w] = "idle"
    /\ \E i \in DOMAIN uriQueue :
          /\ Foremost(uriQueue, i)
          /\ task' = [task EXCEPT ![w] = uriQueue[i]]
          /\ uriQueue' = RemoveAt(uriQueue, i)
    /\ delivered' = delivered \cup {task'[w].token}
    /\ Goto(w, "get")
    /\ UNCHANGED <<collection, web, fetched, same, links, imgTasks, upserted, counters>>

\* getMetadata takes any answer for the metadata, whatever its status code.
GetMetadata(w) ==
    /\ pc[w] = "get"
    /\ fetched' = [fetched EXCEPT ![w] = web[task[w].uri]]
    /\ Goto(w, "find")
    /\ UNCHANGED <<collection, uriQueue, web, task, same, links, imgTasks, history, counters>>

\* No answer in time, or one that is no JSON object.
GetMetadataFails(w) ==
    /\ pc[w] = "get" /\ Fault("web")
    /\ Goto(w, "ack")
    /\ UNCHANGED <<collection, uriQueue, web, task, fetched, same, links, imgTasks, history>>

\* FindOne, and the comparison with what it found.
FindOne(w) ==
    /\ pc[w] = "find"
    /\ LET t == task[w].token IN
       same' = [same EXCEPT ![w] = Found(t) /\ docs[FirstId(t)].meta = fetched[w]]
    /\ Goto(w, "upsert")
    /\ UNCHANGED <<collection, uriQueue, web, task, fetched, links, imgTasks, history, counters>>

FindOneFails(w) ==
    /\ pc[w] = "find" /\ Fault("find")
    /\ Goto(w, "ack")
    /\ UNCHANGED <<collection, uriQueue, web, task, fetched, same, links, imgTasks, history>>

IsMetadataERC721(m) == \A field \in DOMAIN m : m[field] # WrongType

\* Mutant: the type of the image is not looked at.
HasAnyImage(m) == "image" \in DOMAIN m

HasImage(m) == IsMetadataERC721(m) /\ "image" \in DOMAIN m

\* Mutant: images of metadata that have not changed are not published.
AfterUpsertOfNew(w) == IF HasImage(fetched[w]) /\ ~same[w] THEN "image" ELSE "ack"

AfterUpsert(w) == IF HasImage(fetched[w]) THEN "image" ELSE "ack"

\* $set of the metadata and dwhData, or of the time alone; fields that the new metadata
\* lack stay.
Document(w, old) == [token |-> task[w].token, uri |-> task[w].uri, owner |-> task[w].owner,
                     meta |-> fetched[w] @@ old]

Write(w, id) ==
    /\ docs' = IF same[w] THEN docs
               ELSE Put(docs, id, Document(w, IF id \in DOMAIN docs THEN docs[id].meta ELSE NoMeta))
    /\ Stamp(id, Now)
    /\ upserted' = [upserted EXCEPT ![task[w].token] = [owner |-> task[w].owner, meta |-> fetched[w]]]

\* UpdateOne with a document that matches the filter: one step.
Update(w) ==
    /\ pc[w] = "upsert" /\ Found(task[w].token)
    /\ Write(w, FirstId(task[w].token))
    /\ Goto(w, AfterUpsert(w))
    /\ UNCHANGED <<uriQueue, web, task, fetched, same, links, imgTasks, delivered, counters>>

\* Mutant: the filter names a field the documents do not have.
NoMatchEver(w) ==
    /\ pc[w] = "upsert"
    /\ Goto(w, "insert")
    /\ UNCHANGED <<collection, uriQueue, web, task, fetched, same, links, imgTasks, history, counters>>

\* Without one the server goes on to insert, and no unique index makes it look again.
NoMatch(w) ==
    /\ pc[w] = "upsert" /\ ~Found(task[w].token)
    /\ Goto(w, "insert")
    /\ UNCHANGED <<collection, uriQueue, web, task, fetched, same, links, imgTasks, history, counters>>

Insert(w) ==
    /\ pc[w] = "insert"
    /\ Write(w, NextId(task[w].token))
    /\ Goto(w, AfterUpsert(w))
    /\ UNCHANGED <<uriQueue, web, task, fetched, same, links, imgTasks, delivered, counters>>

\* The driver reports an error, of an upsert that was done or one that was not.
UpsertFails(w) ==
    /\ pc[w] \in {"upsert", "insert"} /\ Fault("upsert")
    /\ \/ pc[w] = "upsert" /\ Found(task[w].token) /\ Write(w, FirstId(task[w].token))
       \/ pc[w] = "insert" /\ Write(w, NextId(task[w].token))
       \/ UNCHANGED <<collection, upserted>>
    /\ Goto(w, "ack")
    /\ UNCHANGED <<uriQueue, web, task, fetched, same, links, imgTasks, delivered>>

ImageTask(t, owner, meta) == [token |-> t, owner |-> owner, image |-> meta["image"]]

PublishImage(w) ==
    /\ pc[w] = "image"
    /\ imgTasks' = IF sending[w]
                   THEN imgTasks \cup {ImageTask(task[w].token, task[w].owner, fetched[w])}
                   ELSE imgTasks
    /\ Goto(w, "ack")
    /\ UNCHANGED <<collection, uriQueue, web, task, fetched, same, links, history, counters>>

Ack(w) ==
    /\ pc[w] = "ack" /\ receiving[w]
    /\ task' = [task EXCEPT ![w] = NoTask]
    /\ fetched' = [fetched EXCEPT ![w] = NoMeta] /\ same' = [same EXCEPT ![w] = FALSE]
    /\ Goto(w, "idle")
    /\ UNCHANGED <<collection, uriQueue, web, links, imgTasks, history, counters>>

\* Mutant: the worker waits for messages of a channel that is gone.
AckFailsAndWaits(w) == FALSE

\* The range over the deliveries ends, Run returns, and so does main.
AckFails(w) ==
    /\ pc[w] = "ack" /\ ~receiving[w]
    /\ Exit(w)
    /\ UNCHANGED <<collection, uriQueue, web, imgTasks, history, counters>>

-----------------------------------------------------------------------------
(* The specification.                                                      *)

Run(w) ==
    \/ NewTokenMetadataWorker(w) \/ Deliver(w) \/ GetMetadata(w) \/ GetMetadataFails(w)
    \/ FindOne(w) \/ FindOneFails(w) \/ Update(w) \/ NoMatch(w) \/ Insert(w) \/ UpsertFails(w)
    \/ PublishImage(w) \/ Ack(w) \/ AckFails(w)

WorkerStep == \E w \in Workers : Run(w) \/ Crash(w) \/ Disconnect(w) \/ SenderBreaks(w)

Next == Publish \/ WebChanges \/ WorkerStep

Spec == Init /\ [][Next]_vars

\* The containers restart the workers, and each gets on with its message.
FairSpec == Spec /\ \A w \in Workers : WF_vars(Run(w))

-----------------------------------------------------------------------------
(* Properties.                                                             *)

Places == {"down", "idle", "get", "find", "upsert", "insert", "image", "ack"}

\* A worker has a task while it is busy, and waits only for a connection it has.
WorkersOK ==
    /\ pc \in [Workers -> Places] /\ task \in [Workers -> Task \cup {NoTask}]
    /\ fetched \in [Workers -> Metadata \cup {NoMeta}] /\ same \in [Workers -> BOOLEAN]
    /\ receiving \in [Workers -> BOOLEAN] /\ sending \in [Workers -> BOOLEAN]
    /\ \A w \in Workers :
          /\ Busy(w) <=> task[w] # NoTask
          /\ pc[w] = "idle" => receiving[w]
          /\ pc[w] = "down" => ~receiving[w] /\ ~sending[w]

\* Every variable has its type; only images that are strings are published (the type
\* assertion in processMessage panics on others).
TypeOK ==
    /\ DocumentsOK
    /\ web \in [Uris -> Metadata]
    /\ WorkersOK
    /\ \A i \in imgTasks : i.image # WrongType
    /\ upserted \in [Tokens -> [owner : Owners, meta : Metadata \cup {NoMeta}] \cup {NoUpsert}]
    /\ delivered \subseteq Tokens
    /\ published \in 0 .. MaxTasks /\ changes \in 0 .. MaxChanges /\ crashes \in 0 .. MaxCrashes
    /\ faults \subseteq Faults

\* Nothing about t is under way.
AtRest(t) ==
    /\ \A w \in Workers : task[w] # NoTask => task[w].token # t
    /\ \A i \in DOMAIN uriQueue : uriQueue[i].token # t

\* Crashes and broken connections lose no task: when the tasks of a token are done it has a
\* document, except that each failure of the metadata server or of MongoDB costs at most one.
LostDocumentsBounded ==
    Cardinality({t \in delivered : AtRest(t) /\ ~Found(t)}) <= Cardinality(faults \ {"sender"})

\* Without a unique index workers may insert a token twice, but only as often as they
\* run at the same time, however often they are restarted.
OneDocumentPerWorker == \A t \in Tokens : Cardinality(Matching(t)) <= Cardinality(Workers)

\* The image of the metadata that were stored last for t is not in the image queue.
Unannounced(t) ==
    /\ upserted[t] # NoUpsert /\ HasImage(upserted[t].meta)
    /\ ImageTask(t, upserted[t].owner, upserted[t].meta) \notin imgTasks

\* A worker that dies between storing and publishing leaves no image behind, because its task
\* is done again: when nothing about a token is under way, the image stored last for it is in
\* the image queue.  Only a worker that loses its connection, works on while another does its
\* task, and then dies can store metadata last whose image nobody publishes; so two accidents
\* cost one image at most.
ImageAnnounced ==
    faults = {} => 2 * Cardinality({t \in Tokens : AtRest(t) /\ Unannounced(t)}) <= crashes

\* Every task is done at last: no worker stays with one, and none stays in the queue.
Drained == <>[](uriQueue = << >> /\ \A w \in Workers : ~Busy(w))
=============================================================================
