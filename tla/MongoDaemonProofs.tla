------------------------- MODULE MongoDaemonProofs -------------------------
(***************************************************************************)
(* The clock of the daemon: the message that wakes it is never lost while  *)
(* the daemon waits, and starts are what multiplies it.  For any           *)
(* collection, any percentage, and any number of crashes and failures.     *)
(***************************************************************************)
EXTENDS MongoDaemon, DocumentsProofs

Places == {"down", "idle", "find", "touch", "publish", "ack", "schedule"}

\* Of the state of the daemon, what its messages depend on.
CycleTypes ==
    /\ delayedQ \in Nat /\ taskQ \in Nat /\ starts \in Nat
    /\ at \in Places
    /\ connected \in BOOLEAN
    /\ at = "down" => ~connected
    /\ at = "idle" => connected

\* While the channel is up, a message is in a queue, in the daemon's hands, or about to be
\* published: CycleAlive, strengthened for the time the daemon is busy.
Awaited == connected => Holds \/ Scheduling \/ delayedQ + taskQ >= 1

CycleInv == CycleTypes /\ Awaited /\ CyclesBounded

clock == <<delayedQ, taskQ, at, connected, starts>>

USE DEF Places, CycleTypes, Awaited, CyclesBounded, CycleInv, Messages, Holds, Scheduling

\* A daemon without a channel holds and schedules nothing.
LEMMA Unconnected ==
    ASSUME connected = FALSE
    PROVE  ~connected /\ connected \in BOOLEAN /\ ~Holds /\ ~Scheduling
BY Zenon

LEMMA InitCycle == Init => CycleInv
<1> SUFFICES ASSUME Init
             PROVE  CycleInv
    OBVIOUS
<1> USE DEF Init, InitDaemon
<1>1. ~connected /\ connected \in BOOLEAN /\ ~Holds /\ ~Scheduling
    BY Unconnected
<1> HIDE DEF Holds, Scheduling
<1>2. delayedQ = 0 /\ taskQ = 0 /\ starts = 0 /\ at = "down"
    OBVIOUS
<1> QED
    BY <1>1, <1>2

LEMMA ClockUnchanged == CycleInv /\ UNCHANGED clock => CycleInv'
BY DEF clock

\* The daemon goes on with a message it holds.
LEMMA StillHolds ==
    ASSUME CycleInv,
           at \in {"find", "touch", "publish"}, at' \in {"touch", "publish", "ack"},
           UNCHANGED <<delayedQ, taskQ, connected, starts>>
    PROVE  CycleInv'
OBVIOUS

LEMMA BrokerCycle == CycleInv /\ Broker => CycleInv'
BY DEF Broker, Expire, TaskExpires, tallies

\* A task the daemon holds when it loses its channel is in its queue again.
LEMMA ChannelGone ==
    ASSUME CycleInv, Redeliver,
           connected' = FALSE, at' \in Places, at' # "idle",
           UNCHANGED <<delayedQ, starts>>
    PROVE  CycleInv'
<1>1. ~connected' /\ connected' \in BOOLEAN /\ ~Holds' /\ ~Scheduling'
    BY Zenon
<1>2. taskQ' \in Nat /\ taskQ' = taskQ + (IF Holds THEN 1 ELSE 0)
    BY DEF Redeliver
<1>3. delayedQ' + taskQ' <= starts
    BY <1>2
<1> HIDE DEF Holds, Scheduling
<1> QED
    BY <1>1, <1>2, <1>3

\* A start adds a message, an end takes none away.
LEMMA ProcessCycle ==
    CycleInv /\ (NewMongoDaemon \/ NewMongoDaemonFails \/ Crash \/ Disconnect) => CycleInv'
<1> SUFFICES ASSUME CycleInv,
                    NewMongoDaemon \/ NewMongoDaemonFails \/ Crash \/ Disconnect
             PROVE  CycleInv'
    OBVIOUS
<1>1. CASE NewMongoDaemon
    BY <1>1 DEF NewMongoDaemon
<1>2. CASE NewMongoDaemonFails
    BY <1>2 DEF NewMongoDaemonFails
<1>3. CASE Crash
    BY <1>3, ChannelGone DEF Crash, Stop
<1>4. CASE Disconnect
    BY <1>4, ChannelGone DEF Disconnect, Stop
<1> QED
    BY <1>1, <1>2, <1>3, <1>4

\* A message that was taken, handled and acknowledged is replaced, whatever fails between.
LEMMA RunCycle == CycleInv /\ Run => CycleInv'
<1> SUFFICES ASSUME CycleInv, Run
             PROVE  CycleInv'
    OBVIOUS
<1> USE DEF tallies, queues
<1>1. CASE Deliver
    BY <1>1 DEF Deliver
<1>2. CASE Find \/ CountFails
    BY <1>2, StillHolds DEF Find, CountFails, FindUpTo, Fail
<1>3. CASE FindFails \/ CursorFails
    BY <1>3, StillHolds DEF FindFails, CursorFails, ProcessingFails, Fail
<1>4. CASE Touch
    BY <1>4, StillHolds DEF Touch
<1>5. CASE TouchFails
    BY <1>5, StillHolds DEF TouchFails, Fail
<1>6. CASE PublishUriTask
    BY <1>6, StillHolds DEF PublishUriTask
<1>7. CASE PublishUriTaskFails
    BY <1>7, StillHolds DEF PublishUriTaskFails, ProcessingFails
<1>8. CASE Ack
    BY <1>8 DEF Ack
<1>9. CASE PublishDelayed
    BY <1>9 DEF PublishDelayed
<1> QED
    BY <1>1, <1>2, <1>3, <1>4, <1>5, <1>6, <1>7, <1>8, <1>9 DEF Run

LEMMA NextCycle == CycleInv /\ [Next]_vars => CycleInv'
<1> SUFFICES ASSUME CycleInv, [Next]_vars
             PROVE  CycleInv'
    OBVIOUS
<1>1. CASE Broker
    BY <1>1, BrokerCycle
<1>2. CASE DaemonStep
    BY <1>2, ProcessCycle, RunCycle DEF DaemonStep
<1>3. CASE InsertDocument
    BY <1>3, ClockUnchanged DEF InsertDocument, private, queues, tallies, clock
<1>4. CASE HandleUriTask
    BY <1>4, ClockUnchanged DEF HandleUriTask, private, queues, tallies, clock
<1>5. CASE UNCHANGED vars
    BY <1>5, ClockUnchanged DEF vars, private, queues, tallies, clock
<1> QED
    BY <1>1, <1>2, <1>3, <1>4, <1>5 DEF Next

\* The messages of the daemon are as CycleInv says in every state.
THEOREM CycleInvariant == Spec => []CycleInv
BY InitCycle, NextCycle, PTL DEF Spec

\* The daemon never waits without a message that will wake it (the acknowledgement and the
\* publication at the end of Run, and the publication at each start).
THEOREM CycleStaysAlive == Spec => []CycleAlive
<1>1. CycleInv => CycleAlive
    BY DEF CycleAlive
<1> QED
    BY <1>1, CycleInvariant, PTL

\* There are never more messages than starts, crashes and redeliveries included.
THEOREM CyclesStayBounded == Spec => []CyclesBounded
<1>1. CycleInv => CyclesBounded
    OBVIOUS
<1> QED
    BY <1>1, CycleInvariant, PTL

HIDE DEF Places, CycleTypes, Awaited, CyclesBounded, CycleInv, Messages, Holds, Scheduling

-----------------------------------------------------------------------------
(* Types.                                                                  *)

Snapshots == [id : DOMAIN docs, token : Tokens, uri : Uris, owner : Owners]

\* A token has one document at most; tasks and the batch are of tokens that have theirs.
DocumentsKnown ==
    /\ \A id \in DOMAIN docs : id = FirstId(docs[id].token)
    /\ \A t : InQueue(t) => Found(t)
    /\ \A i \in DOMAIN batch : docs[batch[i].id].token = batch[i].token

DataInv == CollectionOK /\ uriQueue \in Seq(Task) /\ BatchOK /\ DocumentsKnown

TypeInv == CycleTypes /\ stops \in Nat /\ failures \in Nat /\ DataInv

LEMMA TypeInvTyped == TypeInv => TypeOK
BY CollectionTyped DEF TypeInv, DataInv, CycleTypes, Places, TypeOK

LEMMA FoundFirst ==
    ASSUME DocumentsKnown, NEW t
    PROVE  Found(t) <=> FirstId(t) \in DOMAIN docs /\ docs[FirstId(t)].token = t
BY DEF DocumentsKnown, Found, Matching

\* With the documents as they were.
LEMMA DataGoesOn ==
    ASSUME DataInv, UNCHANGED docs, CollectionOK', BatchOK',
           uriQueue' \in Seq(Task), \A t : InQueue(t)' => Found(t),
           \A i \in DOMAIN batch' : docs[batch'[i].id].token = batch'[i].token
    PROVE  DataInv'
<1>1. \A t : Found(t)' = Found(t)
    BY DEF Found, Matching
<1>2. DocumentsKnown'
    BY <1>1 DEF DataInv, DocumentsKnown, FirstId
<1> QED
    BY <1>2 DEF DataInv

LEMMA DataUnchanged ==
    ASSUME DataInv, UNCHANGED <<collection, uriQueue, batch>>,
           at' \in {"touch", "publish"} => at \in {"touch", "publish"}
    PROVE  DataInv'
<1>1. CollectionOK' /\ DOMAIN docs' = DOMAIN docs
    BY CollectionRetimed DEF collection, DataInv, CollectionOK, TimesOK, Now
<1>2. BatchOK'
    BY <1>1 DEF DataInv, BatchOK, collection
<1> QED
    BY <1>1, <1>2, DataGoesOn DEF DataInv, DocumentsKnown, InQueue, collection

LEMMA BatchElement ==
    ASSUME DataInv, NEW i \in DOMAIN batch
    PROVE  batch[i] \in Snapshots /\ batch[i].id \in DOMAIN docs /\ Found(batch[i].token)
<1> DEFINE S == Snapshots
<1>1. batch[i] \in Snapshots
  <2>1. batch \in Seq(S)
    BY DEF DataInv, BatchOK, Snapshots
  <2> HIDE DEF S
  <2>2. batch[i] \in S
    BY <2>1, ElementOfSeq
  <2> QED
    BY <2>2 DEF S
<1>2. batch[i].id \in DOMAIN docs
    BY <1>1 DEF Snapshots
<1>3. docs[batch[i].id].token = batch[i].token
    BY DEF DataInv, DocumentsKnown
<1> QED
    BY <1>1, <1>2, <1>3 DEF Found, Matching

LEMMA HeadElement ==
    ASSUME DataInv, at \in {"touch", "publish"}
    PROVE  /\ batch # << >> /\ 1 \in DOMAIN batch /\ Head(batch) = batch[1]
           /\ Head(batch) \in Snapshots /\ Head(batch).id \in DOMAIN docs /\ Found(Head(batch).token)
<1>1. batch \in Seq(Snapshots) /\ batch # << >>
    BY DEF DataInv, BatchOK, Snapshots
<1>2. 1 \in DOMAIN batch /\ Head(batch) = batch[1]
    BY <1>1
<1> QED
    BY <1>1, <1>2, BatchElement

\* The batch is over.
LEMMA EndBatchData ==
    ASSUME DataInv, UNCHANGED docs, EndBatch, at' \notin {"touch", "publish"},
           uriQueue' \in Seq(Task), \A t : InQueue(t)' => Found(t)
    PROVE  DataInv'
<1> DEFINE time == [id \in DOMAIN docs |-> lastChecked[id]]
<1>1. IsFiniteSet(DOMAIN docs) /\ \A x \in DOMAIN docs : lastChecked[x] \in Nat
    BY FS_Subset DEF DataInv, CollectionOK, TimesOK
<1>2. DOMAIN time = DOMAIN docs /\ lastChecked' = Compact(time) /\ batch' = << >>
    BY DEF EndBatch
<1>3. \A x \in DOMAIN time : time[x] \in Nat
    BY <1>1
<1> HIDE DEF time
<1>4. TimesOK' /\ DOMAIN lastChecked' = DOMAIN docs
    BY <1>1, <1>2, <1>3, CompactTimes
<1>5. CollectionOK'
    BY <1>4, CollectionRetimed DEF DataInv
<1>6. BatchOK' /\ DOMAIN batch' = {}
    BY <1>2 DEF BatchOK
<1> QED
    BY <1>5, <1>6, DataGoesOn

\* The cursor gives the documents found, as they were.
LEMMA FindData ==
    ASSUME DataInv, NEW size \in Nat, FindUpTo(size)
    PROVE  DataInv'
<1> USE DEF DataInv
<1>1. PICK b \in Batches(size) : batch' = [i \in 1 .. size |-> Snapshot(b[i])]
    BY DEF FindUpTo
<1>2. \A i \in 1 .. size : b[i] \in DOMAIN docs
    BY DEF Batches
<1>3. UNCHANGED <<docs, uriQueue>> /\ Stamp(Batch, Now) /\ Now \in Nat
    BY NowType DEF FindUpTo, CollectionOK, TimesOK
<1>4. CollectionOK' /\ Batch \in DOMAIN lastChecked'
    BY <1>3, StampCollection
<1>5. \A id \in DOMAIN docs : Snapshot(id) \in Snapshots /\ Snapshot(id).id = id /\ Snapshot(id).token = docs[id].token
    BY DEF Snapshot, Snapshots, CollectionOK, IdsOK
<1>6. batch' \in Seq(Snapshots) /\ DOMAIN batch' = 1 .. size
  <2>1. batch' \in [1 .. size -> Snapshots]
    BY <1>1, <1>2, <1>5
  <2> QED
    BY <2>1, IsASeq
<1>7. size # 0 => batch' # << >>
    BY <1>6
<1>8. at' = IF size = 0 THEN "ack" ELSE "touch"
    BY DEF FindUpTo
<1>9. BatchOK'
    BY <1>3, <1>4, <1>6, <1>7, <1>8 DEF BatchOK, Snapshots
<1>10. \A i \in DOMAIN batch' : docs[batch'[i].id].token = batch'[i].token
    BY <1>1, <1>2, <1>5, <1>6
<1> QED
    BY <1>3, <1>4, <1>9, <1>10, DataGoesOn DEF DocumentsKnown, InQueue

LEMMA TouchData ==
    ASSUME DataInv, Touch
    PROVE  DataInv'
<1> USE DEF DataInv
<1>1. UNCHANGED <<docs, uriQueue, batch>> /\ at \in {"touch", "publish"}
    BY DEF Touch
<1>2. Head(batch).id \in DOMAIN docs /\ lastChecked[Batch] \in Nat
    BY <1>1, HeadElement DEF BatchOK, CollectionOK, TimesOK
<1>3. CollectionOK' /\ DOMAIN lastChecked \subseteq DOMAIN lastChecked'
    BY <1>1, <1>2, StampCollection DEF Touch
<1>4. BatchOK'
    BY <1>1, <1>3 DEF BatchOK
<1> QED
    BY <1>1, <1>3, <1>4, DataGoesOn DEF DocumentsKnown, InQueue

LEMMA TouchFailsData ==
    ASSUME DataInv, TouchFails
    PROVE  DataInv'
<1> USE DEF DataInv
<1>1. UNCHANGED <<docs, uriQueue>> /\ batch' = << >> /\ at = "touch" /\ at' = "ack"
    BY DEF TouchFails
<1> PICK id : id = Head(batch).id
    OBVIOUS
<1>2. id \in DOMAIN docs /\ \A x \in DOMAIN docs \cup {Batch} : x \in DOMAIN lastChecked => lastChecked[x] \in Nat
    BY <1>1, HeadElement DEF CollectionOK, TimesOK
<1>3. PICK t \in {lastChecked[id], lastChecked[Batch]} :
        lastChecked' = Compact([x \in DOMAIN docs |-> IF x = id THEN t ELSE lastChecked[x]])
    BY DEF TouchFails
<1>4. t \in Nat /\ \A x \in DOMAIN docs : lastChecked[x] \in Nat
    BY <1>1, <1>2, <1>3 DEF BatchOK, CollectionOK
<1> DEFINE time == [x \in DOMAIN docs |-> IF x = id THEN t ELSE lastChecked[x]]
<1>5. IsFiniteSet(DOMAIN docs) /\ DOMAIN time = DOMAIN docs /\ \A x \in DOMAIN time : time[x] \in Nat
    BY <1>4, FS_Subset DEF CollectionOK, TimesOK
<1> HIDE DEF time
<1>6. TimesOK' /\ DOMAIN lastChecked' = DOMAIN docs
  <2>1. lastChecked' = Compact(time)
    BY <1>3 DEF time
  <2> QED
    BY <1>5, <2>1, CompactTimes
<1>7. CollectionOK'
    BY <1>1, <1>6, CollectionRetimed
<1>8. BatchOK' /\ DOMAIN batch' = {}
    BY <1>1 DEF BatchOK
<1> QED
    BY <1>1, <1>7, <1>8, DataGoesOn DEF DocumentsKnown, InQueue

\* The task published is of a token that has a document.
LEMMA PublishData ==
    ASSUME DataInv, PublishUriTask
    PROVE  DataInv'
<1> USE DEF DataInv
<1>1. UNCHANGED docs /\ at = "publish"
    BY DEF PublishUriTask
<1>2. /\ batch # << >> /\ Head(batch) \in Snapshots /\ Found(Head(batch).token)
    BY <1>1, HeadElement
<1>3. UriTask(Head(batch)) \in Task /\ UriTask(Head(batch)).token = Head(batch).token
    BY <1>2 DEF UriTask, Task, Snapshots, RegularUpdate, ForcedUpdates
<1> PICK x \in Task : x = UriTask(Head(batch))
    BY <1>3
<1>4. /\ uriQueue' \in Seq(Task)
      /\ \A t : InQueue(t)' => InQueue(t) \/ t = x.token
    BY AppendKeeps DEF PublishUriTask
<1>5. \A t : InQueue(t)' => Found(t)
    BY <1>2, <1>3, <1>4 DEF DocumentsKnown
<1>6. CASE Len(batch) = 1
    BY <1>1, <1>4, <1>5, <1>6, EndBatchData DEF PublishUriTask
<1>7. CASE Len(batch) # 1
  <2>1. batch' = Tail(batch) /\ UNCHANGED <<docs, lastChecked>> /\ at' = "touch"
    BY <1>1, <1>7 DEF PublishUriTask
  <2>2. batch \in Seq(Snapshots)
    BY DEF BatchOK, Snapshots
  <2> DEFINE S == Snapshots
  <2>3. S = Snapshots /\ batch \in Seq(S)
    BY <2>2
  <2> HIDE DEF S
  <2>4. /\ batch' \in Seq(S) /\ Len(batch') = Len(batch) - 1
        /\ \A i \in 1 .. Len(batch') : batch'[i] = batch[i + 1]
    BY <1>2, <2>1, <2>3, HeadTailProperties
  <2>5. Len(batch) \in Nat /\ DOMAIN batch = 1 .. Len(batch) /\ DOMAIN batch' = 1 .. Len(batch')
    BY <2>3, <2>4, LenProperties
  <2>6. batch' # << >>
    BY <1>2, <1>7, <2>3, <2>4, <2>5, EmptySeq
  <2>7. CollectionOK'
    BY <2>1, CollectionRetimed DEF CollectionOK, TimesOK, Now
  <2>8. BatchOK'
    BY <1>1, <2>1, <2>3, <2>4, <2>6 DEF BatchOK, Snapshots
  <2>9. \A i \in DOMAIN batch' : docs[batch'[i].id].token = batch'[i].token
    BY <2>4, <2>5 DEF DocumentsKnown
  <2> QED
    BY <1>1, <1>4, <1>5, <2>7, <2>8, <2>9, DataGoesOn
<1> QED
    BY <1>6, <1>7

\* A worker writes the first document of a token.
LEMMA InsertData ==
    ASSUME DataInv, InsertDocument
    PROVE  DataInv'
<1> USE DEF DataInv
<1>1. PICK t \in Tokens, u \in Uris, o \in Owners, m \in Metadata :
        /\ ~Found(t)
        /\ docs' = Put(docs, FirstId(t), [token |-> t, uri |-> u, owner |-> o, meta |-> m])
        /\ Stamp(FirstId(t), Now)
    BY DEF InsertDocument
<1> PICK id : id = FirstId(t)
    OBVIOUS
<1>2. UNCHANGED <<uriQueue, batch, at>>
    BY DEF InsertDocument, private
<1>3. id = NextId(t)
  <2>1. Cardinality(Matching(t)) = 0
    BY <1>1, FS_EmptySet DEF Found
  <2> QED
    BY <2>1 DEF FirstId, NextId
<1>4. id \notin DOMAIN docs
    BY <1>3, NextIdIsNew
<1>5. /\ DOMAIN docs' = DOMAIN docs \cup {id}
      /\ docs'[id].token = t /\ docs'[id].uri \in Uris /\ docs'[id].owner \in Owners
      /\ \A x \in DOMAIN docs : x # id => docs'[x] = docs[x]
    BY <1>1 DEF Put
<1>6. IdsOK'
    BY <1>3, <1>5, DocumentPut
<1>7. TimesOK' /\ DOMAIN lastChecked' = DOMAIN lastChecked \cup {id}
    BY <1>1, StampTimes, NowType DEF CollectionOK, TimesOK
<1>8. CollectionOK'
    BY <1>5, <1>6, <1>7 DEF CollectionOK
<1>9. BatchOK'
  <2>1. Snapshots \subseteq Snapshots'
    BY <1>5 DEF Snapshots
  <2>2. batch \in Seq(Snapshots)
    BY DEF BatchOK, Snapshots
  <2> DEFINE S == Snapshots
             T == Snapshots'
  <2>3. S \subseteq T /\ batch \in Seq(S)
    BY <2>1, <2>2
  <2> HIDE DEF S, T
  <2>4. batch \in Seq(T)
    BY <2>3, SeqMonotonic
  <2>5. batch' \in Seq(Snapshots')
    BY <1>2, <2>4 DEF T
  <2> QED
    BY <1>2, <1>7, <2>5 DEF BatchOK, Snapshots
<1>10. \A s : Found(s) => Found(s)'
    BY <1>4, <1>5 DEF Found, Matching
<1>11. \A i \in DOMAIN batch' : docs'[batch'[i].id].token = batch'[i].token
    BY <1>2, <1>4, <1>5, BatchElement DEF DocumentsKnown
<1>12. \A x \in DOMAIN docs' : x = FirstId(docs'[x].token)
    BY <1>4, <1>5 DEF DocumentsKnown
<1>13. DocumentsKnown'
    BY <1>2, <1>10, <1>11, <1>12 DEF DocumentsKnown, InQueue, FirstId
<1> QED
    BY <1>2, <1>8, <1>9, <1>13

\* A worker takes a task, and may check the document of its token.
LEMMA HandleData ==
    ASSUME DataInv, HandleUriTask
    PROVE  DataInv'
<1> USE DEF DataInv
<1>1. uriQueue # << >> /\ uriQueue' = Tail(uriQueue) /\ UNCHANGED <<docs, batch, at>>
    BY DEF HandleUriTask, private
<1>2. /\ uriQueue' \in Seq(Task) /\ Head(uriQueue) \in Task /\ Len(uriQueue') = Len(uriQueue) - 1
      /\ \A i \in 1 .. Len(uriQueue') : uriQueue'[i] = uriQueue[i + 1]
    BY <1>1, HeadTailProperties
<1>3. /\ Len(uriQueue) \in Nat /\ DOMAIN uriQueue = 1 .. Len(uriQueue) /\ DOMAIN uriQueue' = 1 .. Len(uriQueue')
      /\ Head(uriQueue) = uriQueue[1] /\ Len(uriQueue) > 0
    BY <1>1, <1>2, LenProperties, EmptySeq
<1>4. \A t : InQueue(t)' => Found(t)
    BY <1>2, <1>3 DEF InQueue, DocumentsKnown
<1>5. FirstId(Head(uriQueue).token) \in DOMAIN docs
    BY <1>3, FoundFirst DEF InQueue, DocumentsKnown
<1>6. CollectionOK' /\ DOMAIN lastChecked' = DOMAIN lastChecked
  <2>1. CASE Stamp(FirstId(Head(uriQueue).token), Now)
    <3>1. Now \in Nat
        BY NowType DEF CollectionOK, TimesOK
    <3> QED
        BY <1>1, <1>5, <2>1, <3>1, StampCollection DEF CollectionOK
  <2>2. CASE UNCHANGED lastChecked
    BY <1>1, <2>2, CollectionRetimed DEF CollectionOK, TimesOK, Now
  <2> QED
    BY <2>1, <2>2 DEF HandleUriTask
<1>7. BatchOK'
    BY <1>1, <1>6 DEF BatchOK
<1> QED
    BY <1>1, <1>2, <1>4, <1>6, <1>7, DataGoesOn DEF DocumentsKnown

LEMMA RunData ==
    ASSUME CycleTypes, DataInv, Run
    PROVE  DataInv'
<1>1. CASE Deliver \/ PublishDelayed
    BY <1>1, DataUnchanged DEF Deliver, PublishDelayed
<1>2. CASE Find \/ CountFails
  <2>1. Cardinality(DOMAIN docs) \in Nat
    BY FS_Subset, FS_CardinalityType DEF DataInv, CollectionOK, TimesOK
  <2>2. BatchSize(Cardinality(DOMAIN docs)) \in Nat
    BY <2>1 DEF BatchSize
  <2> QED
    BY <1>2, <2>1, <2>2, FindData DEF Find, CountFails
<1>3. CASE FindFails \/ CursorFails \/ PublishUriTaskFails \/ Ack
  <2>1. UNCHANGED <<docs, uriQueue>> /\ EndBatch /\ at' \notin {"touch", "publish"}
    BY <1>3 DEF FindFails, CursorFails, PublishUriTaskFails, ProcessingFails, Ack
  <2> QED
    BY <2>1, EndBatchData DEF DataInv, DocumentsKnown, InQueue
<1>4. CASE Touch \/ TouchFails \/ PublishUriTask
    BY <1>4, TouchData, TouchFailsData, PublishData
<1> QED
    BY <1>1, <1>2, <1>3, <1>4 DEF Run

LEMMA NextData ==
    ASSUME CycleTypes, DataInv, [Next]_vars
    PROVE  DataInv'
<1>1. CASE Broker
    BY <1>1, DataUnchanged DEF Broker, Expire, TaskExpires
<1>2. CASE NewMongoDaemon \/ NewMongoDaemonFails \/ Disconnect
  <2>1. at' \in {"touch", "publish"} => at \in {"touch", "publish"}
    BY <1>2 DEF NewMongoDaemon, NewMongoDaemonFails, Disconnect
  <2> QED
    BY <1>2, <2>1, DataUnchanged DEF NewMongoDaemon, NewMongoDaemonFails, Disconnect
<1>3. CASE Crash
    BY <1>3, EndBatchData DEF Crash, DataInv, DocumentsKnown, InQueue
<1>4. CASE Run
    BY <1>4, RunData
<1>5. CASE InsertDocument \/ HandleUriTask
    BY <1>5, InsertData, HandleData
<1>6. CASE UNCHANGED vars
    BY <1>6, DataUnchanged DEF vars, private
<1> QED
    BY <1>1, <1>2, <1>3, <1>4, <1>5, <1>6 DEF Next, DaemonStep

LEMMA InitTypes == Init => TypeInv
<1> SUFFICES ASSUME Init
             PROVE  TypeInv
    OBVIOUS
<1> USE DEF Init, InitDocuments, InitDaemon
<1>1. CycleTypes
    BY InitCycle DEF CycleInv
<1>2. CollectionOK
    BY FS_EmptySet DEF CollectionOK, IdsOK, TimesOK
<1>3. BatchOK /\ uriQueue \in Seq(Task)
    BY DEF BatchOK
<1>4. DocumentsKnown
    BY DEF DocumentsKnown, InQueue
<1> QED
    BY <1>1, <1>2, <1>3, <1>4 DEF TypeInv, DataInv

LEMMA NextCounters ==
    ASSUME stops \in Nat, failures \in Nat, [Next]_vars
    PROVE  stops' \in Nat /\ failures' \in Nat
BY DEF Next, Broker, Expire, TaskExpires, DaemonStep, NewMongoDaemon, NewMongoDaemonFails, Crash, Disconnect,
       Stop, Run, Deliver, Find, CountFails, Fail, FindFails, CursorFails, Touch, TouchFails, PublishUriTask,
       PublishUriTaskFails, Ack, PublishDelayed, InsertDocument, HandleUriTask, vars, private, tallies

LEMMA NextTypes == CycleInv' /\ TypeInv /\ [Next]_vars => TypeInv'
BY NextData, NextCounters DEF TypeInv, CycleInv

\* The collection, the queue, the batch and the clock keep their types, and every task in the
\* queue is of a token that has a document.
THEOREM TypeInvariant == Spec => []TypeInv
BY InitTypes, NextTypes, CycleInvariant, PTL DEF Spec

\* Inside the loop of processMessage there is always a document, and the time the batch
\* began is one the daemon has: whatever fails, crashes, or is written to the collection
\* meanwhile.
THEOREM TypeCorrect == Spec => []TypeOK
BY TypeInvTyped, TypeInvariant, PTL
=============================================================================
