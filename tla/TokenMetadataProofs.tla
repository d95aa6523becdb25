------------------------ MODULE TokenMetadataProofs ------------------------
(***************************************************************************)
(* How many documents a token can have, for any number of workers, any     *)
(* metadata, and any number of crashes, broken connections and failures.   *)
(***************************************************************************)
EXTENDS TokenMetadata, DocumentsProofs

\* The workers that have found no document of t and are about to insert one.
Inserting(t) == {w \in Workers : pc[w] = "insert" /\ task[w].token = t}

\* A first document stays the first, so that an update adds none.
FirstKept == \A t : Found(t) => FirstId(t) \in Matching(t)

\* Whoever is about to insert counts as if it had inserted.
Room ==
    \A t : /\ IsFiniteSet(Matching(t))
           /\ Cardinality(Matching(t)) + Cardinality(Inserting(t)) <= Cardinality(Workers)

PcTaskShape == pc = [w \in Workers |-> pc[w]] /\ task = [w \in Workers |-> task[w]]

DocInv == PcTaskShape /\ FirstKept /\ Room

-----------------------------------------------------------------------------
(* Steps seen from the documents.                                          *)

LEMMA InsertingFinite ==
    ASSUME NEW t
    PROVE  /\ IsFiniteSet(Inserting(t)) /\ Cardinality(Inserting(t)) \in Nat
           /\ Cardinality(Inserting(t)) <= Cardinality(Workers)
           /\ Cardinality(Workers) \in Nat
BY WorkerAssumption, FS_Subset, FS_CardinalityType DEF Inserting

\* With the tokens' documents as they were and no worker more at its insert, all is as it was.
LEMMA SameDocuments ==
    ASSUME DocInv, PcTaskShape',
           \A t : Matching(t)' = Matching(t),
           \A t : Inserting(t)' \subseteq Inserting(t)
    PROVE  DocInv'
<1>1. \A t : Matching(t)' = Matching(t)
    OBVIOUS
<1>2. ASSUME NEW t
      PROVE  Cardinality(Inserting(t)') \in Nat /\ Cardinality(Inserting(t)') <= Cardinality(Inserting(t))
    BY InsertingFinite, FS_Subset, FS_CardinalityType
<1>3. ASSUME NEW t
      PROVE  Cardinality(Matching(t)) + Cardinality(Inserting(t)') <= Cardinality(Workers)
    BY <1>2, InsertingFinite, FS_CardinalityType DEF DocInv, Room
<1>4. Room'
    BY <1>1, <1>3 DEF DocInv, Room
<1>5. FirstKept'
    BY <1>1 DEF DocInv, FirstKept, Found, FirstId
<1> QED
    BY <1>4, <1>5 DEF DocInv

\* A worker goes anywhere but to its insert, with the task it has or with another.
LEMMA StepAside ==
    ASSUME DocInv, NEW w \in Workers, NEW l, l # "insert", NEW x,
           pc' = [pc EXCEPT ![w] = l],
           task' = task \/ task' = [task EXCEPT ![w] = x]
    PROVE  /\ PcTaskShape'
           /\ \A t : Inserting(t)' \subseteq Inserting(t) \ {w}
<1>1. PcTaskShape'
    BY DEF DocInv, PcTaskShape
<1>2. pc'[w] = l /\ \A v \in Workers : v # w => pc'[v] = pc[v] /\ task'[v] = task[v]
    BY DEF DocInv, PcTaskShape
<1> QED
    BY <1>1, <1>2 DEF Inserting

MadeDocument(token, id) ==
    /\ Matching(token)' = Matching(token) \cup {id}
    /\ \A t : t # token => Matching(t)' = Matching(t) \ {id}

\* What Write does: it leaves the documents, or makes id a document of the task's token.
LEMMA WriteMatching ==
    ASSUME NEW w \in Workers, NEW token, token = task[w].token, NEW id, Write(w, id)
    PROVE  docs' = docs \/ MadeDocument(token, id)
<1>1. CASE same[w]
    BY <1>1 DEF Write
<1>2. CASE ~same[w]
    <2>1. /\ DOMAIN docs' = DOMAIN docs \cup {id}
          /\ docs'[id].token = token
          /\ \A x \in DOMAIN docs : x # id => docs'[x] = docs[x]
        BY <1>2 DEF Write, Put, Document
    <2>2. ASSUME NEW t, NEW x
          PROVE  x \in Matching(t)' <=> IF x = id THEN t = token ELSE x \in Matching(t)
        BY <2>1 DEF Matching
    <2>3. Matching(token)' = Matching(token) \cup {id}
        BY <2>2
    <2>4. ASSUME NEW t, t # token
          PROVE  Matching(t)' = Matching(t) \ {id}
        BY <2>2, <2>4
    <2> QED
        BY <2>3, <2>4 DEF MadeDocument
<1> QED
    BY <1>1, <1>2

\* The document written is the one there is.
LEMMA UpdateAddsNone ==
    ASSUME DocInv, PcTaskShape', NEW w \in Workers,
           Found(task[w].token), Write(w, FirstId(task[w].token)),
           \A t : Inserting(t)' \subseteq Inserting(t)
    PROVE  DocInv'
<1> PICK token, id : token = task[w].token /\ id = FirstId(task[w].token)
    OBVIOUS
<1> Write(w, id)
    OBVIOUS
<1>1. id \in Matching(token) /\ \A t : t # token => id \notin Matching(t)
    BY DEF DocInv, FirstKept, Matching
<1>2. \A t : Matching(t)' = Matching(t)
  <2>1. CASE docs' = docs
    BY <2>1 DEF Matching
  <2>2. CASE docs' # docs
    <3>1. MadeDocument(token, id)
        BY <2>2, WriteMatching
    <3> QED
        BY <1>1, <3>1 DEF MadeDocument
  <2> QED
    BY <2>1, <2>2
<1> QED
    BY <1>2, SameDocuments

\* The worker that inserts was counted before.
LEMMA InsertKeepsRoom ==
    ASSUME DocInv, PcTaskShape', NEW w \in Workers,
           pc[w] = "insert", Write(w, NextId(task[w].token)),
           \A t : Inserting(t)' \subseteq Inserting(t) \ {w}
    PROVE  DocInv'
<1> PICK token, id : token = task[w].token /\ id = NextId(token)
    OBVIOUS
<1> Write(w, id)
    OBVIOUS
<1>1. CASE docs' = docs
  <2>1. \A t : Matching(t)' = Matching(t)
    BY <1>1 DEF Matching
  <2> QED
    BY <2>1, SameDocuments
<1>2. CASE docs' # docs
  <2>1. MadeDocument(token, id)
    BY <1>2, WriteMatching
  <2>2. ASSUME NEW t
        PROVE  /\ IsFiniteSet(Matching(t)')
               /\ Cardinality(Matching(t)') + Cardinality(Inserting(t)') <= Cardinality(Workers)
    <3>1. /\ IsFiniteSet(Matching(t)) /\ Cardinality(Matching(t)) \in Nat
          /\ Cardinality(Matching(t)) + Cardinality(Inserting(t)) <= Cardinality(Workers)
        BY FS_CardinalityType DEF DocInv, Room
    <3>2. /\ IsFiniteSet(Inserting(t)) /\ IsFiniteSet(Inserting(t)') 
          /\ Cardinality(Inserting(t)) \in Nat /\ Cardinality(Inserting(t)') \in Nat
          /\ Cardinality(Workers) \in Nat
        BY InsertingFinite, FS_Subset, FS_CardinalityType
    <3>3. CASE t = token
      <4>1. w \in Inserting(t)
        BY <3>3 DEF Inserting
      <4>2. Cardinality(Inserting(t)') <= Cardinality(Inserting(t)) - 1
        <5> DEFINE others == Inserting(t) \ {w}
        <5>1. IsFiniteSet(others) /\ Cardinality(others) = Cardinality(Inserting(t)) - 1
            BY <3>2, <4>1, FS_RemoveElement
        <5>2. Inserting(t)' \in SUBSET others
            OBVIOUS
        <5> HIDE DEF others
        <5>3. Cardinality(Inserting(t)') <= Cardinality(others)
            BY <5>1, <5>2, FS_Subset
        <5> QED
            BY <5>1, <5>3
      <4>3. IsFiniteSet(Matching(t)') /\ Cardinality(Matching(t)') <= Cardinality(Matching(t)) + 1
        <5>1. Matching(t)' = Matching(t) \cup {id}
            BY <2>1, <3>3 DEF MadeDocument
        <5>2. /\ IsFiniteSet(Matching(t) \cup {id})
              /\ Cardinality(Matching(t) \cup {id}) =
                    IF id \in Matching(t) THEN Cardinality(Matching(t)) ELSE Cardinality(Matching(t)) + 1
            BY <3>1, FS_AddElement
        <5> QED
            BY <3>1, <5>1, <5>2
      <4>4. Cardinality(Matching(t)') \in Nat
        BY <4>3, FS_CardinalityType
      <4> QED
        BY <3>1, <3>2, <4>2, <4>3, <4>4
    <3>4. CASE t # token
      <4>1. Cardinality(Inserting(t)') <= Cardinality(Inserting(t))
        BY <3>2, FS_Subset
      <4>2. IsFiniteSet(Matching(t)') /\ Cardinality(Matching(t)') <= Cardinality(Matching(t))
        BY <2>1, <3>1, <3>4, FS_Subset DEF MadeDocument
      <4>3. Cardinality(Matching(t)') \in Nat
        BY <4>2, FS_CardinalityType
      <4> QED
        BY <3>1, <3>2, <4>1, <4>2, <4>3
    <3> QED
        BY <3>3, <3>4
  <2>3. ASSUME NEW t, Found(t)'
        PROVE  FirstId(t) \in Matching(t)'
    <3>1. CASE Found(t)
      <4>1. FirstId(t) \in Matching(t)
        BY <3>1 DEF DocInv, FirstKept
      <4>2. t # token => FirstId(t) # id
        BY DEF FirstId, NextId
      <4> QED
        BY <2>1, <4>1, <4>2 DEF MadeDocument
    <3>2. CASE ~Found(t)
      <4>1. Matching(t) = {} /\ t = token
        BY <2>1, <2>3, <3>2 DEF Found, MadeDocument
      <4>2. id = FirstId(t)
        BY <4>1, FS_EmptySet DEF NextId, FirstId
      <4> QED
        BY <2>1, <4>1, <4>2 DEF MadeDocument
    <3> QED
        BY <3>1, <3>2
  <2> QED
    BY <2>2, <2>3 DEF DocInv, Room, FirstKept, FirstId
<1> QED
    BY <1>1, <1>2

-----------------------------------------------------------------------------
(* The steps of the specification.                                         *)

LEMMA InitDoc == Init => DocInv
<1> SUFFICES ASSUME Init
             PROVE  DocInv
    OBVIOUS
<1>1. PcTaskShape
    BY DEF Init, InitPrivate, PcTaskShape
<1>2. \A t : Matching(t) = {}
    BY DEF Init, InitDocuments, Matching
<1>3. FirstKept
    BY <1>2 DEF FirstKept, Found
<1>4. ASSUME NEW t
      PROVE  Cardinality(Matching(t)) + Cardinality(Inserting(t)) <= Cardinality(Workers)
    BY <1>2, InsertingFinite, FS_EmptySet
<1>5. Room
    BY <1>2, <1>4, FS_EmptySet DEF Room
<1> QED
    BY <1>1, <1>3, <1>5 DEF DocInv

\* Steps that write no document and send no worker to its insert.
LEMMA WorkerReads ==
    ASSUME DocInv, NEW w \in Workers, UNCHANGED docs,
           \E l, x : /\ l # "insert" /\ pc' = [pc EXCEPT ![w] = l]
                     /\ task' = task \/ task' = [task EXCEPT ![w] = x]
    PROVE  DocInv'
<1> PICK l, x : /\ l # "insert" /\ pc' = [pc EXCEPT ![w] = l]
                /\ task' = task \/ task' = [task EXCEPT ![w] = x]
    OBVIOUS
<1>1. PcTaskShape' /\ \A t : Inserting(t)' \subseteq Inserting(t) \ {w}
    BY StepAside
<1>2. \A t : Matching(t)' = Matching(t)
    BY DEF Matching
<1> QED
    BY <1>1, <1>2, SameDocuments

LEMMA WorkersUnmoved ==
    ASSUME DocInv, UNCHANGED <<docs, pc, task>>
    PROVE  DocInv'
<1>1. PcTaskShape' /\ \A t : Inserting(t)' = Inserting(t) /\ Matching(t)' = Matching(t)
    BY DEF DocInv, PcTaskShape, Inserting, Matching
<1> QED
    BY <1>1, SameDocuments

\* With no document of its token, there was room for this worker's.
LEMMA NoMatchHasRoom ==
    ASSUME DocInv, NEW w \in Workers, NoMatch(w)
    PROVE  DocInv'
<1> PICK token : token = task[w].token
    OBVIOUS
<1>1. PcTaskShape' /\ UNCHANGED <<docs, task>> /\ Matching(token) = {}
    BY DEF NoMatch, Goto, DocInv, PcTaskShape, Found, collection
<1>2. \A t : Matching(t)' = Matching(t)
    BY <1>1 DEF Matching
<1>3. \A t : t # token => Inserting(t)' = Inserting(t)
    BY <1>1 DEF NoMatch, Goto, Inserting, DocInv, PcTaskShape
<1>4. ASSUME NEW t
      PROVE  Cardinality(Matching(t)') + Cardinality(Inserting(t)') <= Cardinality(Workers)
    <2>1. CASE t = token
      <3>1. Inserting(t)' \in SUBSET Workers
        BY DEF Inserting
      <3>2. Cardinality(Inserting(t)') \in Nat /\ Cardinality(Inserting(t)') <= Cardinality(Workers)
        BY <3>1, WorkerAssumption, FS_Subset, FS_CardinalityType
      <3> QED
        BY <1>1, <1>2, <2>1, <3>2, FS_EmptySet
    <2>2. CASE t # token
        BY <1>2, <1>3, <2>2 DEF DocInv, Room
    <2> QED
        BY <2>1, <2>2
<1>5. Room'
    BY <1>2, <1>4 DEF DocInv, Room
<1>6. FirstKept'
    BY <1>2 DEF DocInv, FirstKept, Found, FirstId
<1> QED
    BY <1>1, <1>5, <1>6 DEF DocInv

\* A worker that has written leaves its insert.
LEMMA WorkerWrites ==
    ASSUME DocInv, NEW w \in Workers, NEW l, l # "insert", Goto(w, l), UNCHANGED task,
           \/ Found(task[w].token) /\ Write(w, FirstId(task[w].token))
           \/ pc[w] = "insert" /\ Write(w, NextId(task[w].token))
    PROVE  DocInv'
<1>1. PcTaskShape' /\ \A t : Inserting(t)' \subseteq Inserting(t) \ {w}
    BY StepAside DEF Goto
<1> QED
    BY <1>1, UpdateAddsNone, InsertKeepsRoom

LEMMA RunDoc ==
    ASSUME DocInv, NEW w \in Workers, Run(w)
    PROVE  DocInv'
<1> USE DEF Goto, collection, worker, links
<1>1. CASE NewTokenMetadataWorker(w) \/ GetMetadata(w) \/ GetMetadataFails(w) \/ FindOne(w) \/ FindOneFails(w)
    BY <1>1, WorkerReads
       DEF NewTokenMetadataWorker, GetMetadata, GetMetadataFails, FindOne, FindOneFails
<1>2. CASE Deliver(w)
    BY <1>2, WorkerReads DEF Deliver
<1>3. CASE Update(w) \/ Insert(w)
    BY <1>3, WorkerWrites DEF Update, Insert, AfterUpsert
<1>4. CASE NoMatch(w)
    BY <1>4, NoMatchHasRoom
<1>5. CASE UpsertFails(w)
  <2>1. CASE UNCHANGED collection
    BY <1>5, <2>1, WorkerReads DEF UpsertFails
  <2>2. CASE ~UNCHANGED collection
    BY <1>5, <2>2, WorkerWrites DEF UpsertFails
  <2> QED
    BY <2>1, <2>2
<1>6. CASE PublishImage(w) \/ Ack(w)
    BY <1>6, WorkerReads DEF PublishImage, Ack
<1>7. CASE AckFails(w)
    BY <1>7, WorkerReads DEF AckFails, Exit
<1> QED
    BY <1>1, <1>2, <1>3, <1>4, <1>5, <1>6, <1>7 DEF Run

LEMMA NextDoc == DocInv /\ [Next]_vars => DocInv'
<1> SUFFICES ASSUME DocInv, [Next]_vars
             PROVE  DocInv'
    OBVIOUS
<1> USE DEF collection, worker, links
<1>1. CASE Publish \/ WebChanges
    BY <1>1, WorkersUnmoved DEF Publish, Send, WebChanges
<1>2. ASSUME NEW w \in Workers, Run(w)
      PROVE  DocInv'
    BY <1>2, RunDoc
<1>3. ASSUME NEW w \in Workers, Crash(w)
      PROVE  DocInv'
    BY <1>3, WorkerReads DEF Crash, Exit, Goto
<1>4. ASSUME NEW w \in Workers, Disconnect(w)
      PROVE  DocInv'
  <2>1. CASE Busy(w)
    BY <1>4, <2>1, WorkersUnmoved DEF Disconnect
  <2>2. CASE ~Busy(w)
    BY <1>4, <2>2, WorkerReads DEF Disconnect, Exit, Goto
  <2> QED
    BY <2>1, <2>2
<1>5. ASSUME NEW w \in Workers, SenderBreaks(w)
      PROVE  DocInv'
    BY <1>5, WorkersUnmoved DEF SenderBreaks
<1>6. CASE UNCHANGED vars
    BY <1>6, WorkersUnmoved DEF vars, private
<1> QED
    BY <1>1, <1>2, <1>3, <1>4, <1>5, <1>6 DEF Next, WorkerStep

\* The documents of a token and the workers about to insert one are no more than the workers.
THEOREM DocInvariant == Spec => []DocInv
BY InitDoc, NextDoc, PTL DEF Spec

\* Though the documents have no unique index, a token never gets more documents than there
\* are workers, whatever crashes, redeliveries and failures come between FindOne and UpdateOne.
THEOREM DocumentsBounded == Spec => []OneDocumentPerWorker
<1>1. DocInv => OneDocumentPerWorker
  <2> SUFFICES ASSUME DocInv, NEW t \in Tokens
               PROVE  Cardinality(Matching(t)) <= Cardinality(Workers)
    BY DEF OneDocumentPerWorker
  <2>1. Cardinality(Matching(t)) + Cardinality(Inserting(t)) <= Cardinality(Workers)
    BY DEF DocInv, Room
  <2>2. Cardinality(Matching(t)) \in Nat
    BY FS_CardinalityType DEF DocInv, Room
  <2> QED
    BY <2>1, <2>2, InsertingFinite
<1> QED
    BY <1>1, DocInvariant, PTL

-----------------------------------------------------------------------------
(* Types.                                                                  *)

\* What a worker has found out holds as long as it uses it.
WorkersKnow ==
    \A w \in Workers :
        /\ same[w] => pc[w] \in {"upsert", "image", "ack"} /\ Found(task[w].token)
        /\ pc[w] = "image" => HasImage(fetched[w])

\* The variables beside the collection and those of the workers.
RestOK ==
    /\ uriQueue \in Seq(Task)
    /\ web \in [Uris -> Metadata]
    /\ \A i \in imgTasks : i.image # WrongType
    /\ upserted \in [Tokens -> [owner : Owners, meta : Metadata \cup {NoMeta}] \cup {NoUpsert}]
    /\ delivered \subseteq Tokens
    /\ published \in 0 .. MaxTasks /\ changes \in 0 .. MaxChanges /\ crashes \in 0 .. MaxCrashes
    /\ faults \subseteq Faults

TypeInv == DocInv /\ CollectionOK /\ WorkersOK /\ WorkersKnow /\ RestOK

LEMMA TypeInvTyped == TypeInv => TypeOK
BY CollectionTyped DEF TypeInv, RestOK, TypeOK

LEMMA TaskType ==
    ASSUME NEW x \in Task
    PROVE  x # NoTask /\ x.token \in Tokens /\ x.uri \in Uris /\ x.owner \in Owners
<1>1. DOMAIN x = {"token", "uri", "owner", "priority"}
    BY DEF Task
<1>2. DOMAIN NoTask = {"token"}
    BY DEF NoTask
<1>3. x # NoTask
    BY <1>1, <1>2
<1> QED
    BY <1>3 DEF Task

LEMMA BusyTask ==
    ASSUME WorkersOK, NEW w \in Workers, Busy(w)
    PROVE  /\ task[w] \in Task /\ task[w].token \in Tokens /\ task[w].uri \in Uris
           /\ task[w].owner \in Owners
<1>1. task[w] \in Task
    BY DEF WorkersOK
<1> QED
    BY <1>1, TaskType

\* No worker but w does anything.
LEMMA WorkersStep ==
    ASSUME WorkersOK, NEW w \in Workers,
           NEW l \in Places, NEW x \in Task \cup {NoTask}, NEW m \in Metadata \cup {NoMeta},
           NEW s \in BOOLEAN, NEW r \in BOOLEAN, NEW c \in BOOLEAN,
           pc' = [pc EXCEPT ![w] = l], task' = [task EXCEPT ![w] = x],
           fetched' = [fetched EXCEPT ![w] = m], same' = [same EXCEPT ![w] = s],
           receiving' = [receiving EXCEPT ![w] = r], sending' = [sending EXCEPT ![w] = c],
           l \notin {"down", "idle"} <=> x # NoTask,
           l = "idle" => r, l = "down" => ~r /\ ~c
    PROVE  WorkersOK'
<1>1. /\ pc' \in [Workers -> Places] /\ task' \in [Workers -> Task \cup {NoTask}]
      /\ fetched' \in [Workers -> Metadata \cup {NoMeta}] /\ same' \in [Workers -> BOOLEAN]
      /\ receiving' \in [Workers -> BOOLEAN] /\ sending' \in [Workers -> BOOLEAN]
    BY DEF WorkersOK
<1>2. ASSUME NEW v \in Workers
      PROVE  /\ Busy(v)' <=> task'[v] # NoTask
             /\ pc'[v] = "idle" => receiving'[v]
             /\ pc'[v] = "down" => ~receiving'[v] /\ ~sending'[v]
  <2>1. CASE v = w
    BY <2>1 DEF WorkersOK, Busy
  <2>2. CASE v # w
    BY <2>2 DEF WorkersOK, Busy
  <2> QED
    BY <2>1, <2>2
<1> QED
    BY <1>1, <1>2 DEF WorkersOK

\* A worker goes on with the task it has, or goes nowhere.
LEMMA WorkerGoesOn ==
    ASSUME WorkersOK, NEW w \in Workers, Busy(w), NEW l \in Places \ {"down", "idle"},
           Goto(w, l), UNCHANGED <<task, links>>,
           \/ UNCHANGED fetched
           \/ \E m \in Metadata : fetched' = [fetched EXCEPT ![w] = m],
           \/ UNCHANGED same
           \/ \E s \in BOOLEAN : same' = [same EXCEPT ![w] = s]
    PROVE  WorkersOK'
<1>1. PICK m \in Metadata \cup {NoMeta}, s \in BOOLEAN :
        /\ fetched' = [fetched EXCEPT ![w] = m] /\ same' = [same EXCEPT ![w] = s]
    BY DEF WorkersOK
<1>2. /\ task' = [task EXCEPT ![w] = task[w]] /\ task[w] \in Task \cup {NoTask} /\ task[w] # NoTask
      /\ receiving' = [receiving EXCEPT ![w] = receiving[w]] /\ receiving[w] \in BOOLEAN
      /\ sending' = [sending EXCEPT ![w] = sending[w]] /\ sending[w] \in BOOLEAN
    BY DEF WorkersOK, links
<1>3. l \in Places /\ l # "down" /\ l # "idle" /\ pc' = [pc EXCEPT ![w] = l]
    BY DEF Goto
<1> QED
    BY <1>1, <1>2, <1>3, WorkersStep

LEMMA ExitTypes ==
    ASSUME WorkersOK, NEW w \in Workers, Exit(w)
    PROVE  WorkersOK'
BY WorkersStep DEF Exit, Goto, Places

\* The messages of a worker, from the start of the process.
LEMMA RunWorkers ==
    ASSUME WorkersOK, RestOK, NEW w \in Workers, Run(w)
    PROVE  WorkersOK'
<1> USE DEF Places
<1>1. CASE NewTokenMetadataWorker(w)
  <2>1. /\ task' = [task EXCEPT ![w] = NoTask]
        /\ fetched' = [fetched EXCEPT ![w] = fetched[w]] /\ same' = [same EXCEPT ![w] = same[w]]
        /\ fetched[w] \in Metadata \cup {NoMeta} /\ same[w] \in BOOLEAN
    BY <1>1 DEF NewTokenMetadataWorker, WorkersOK, Busy
  <2> QED
    BY <1>1, <2>1, WorkersStep DEF NewTokenMetadataWorker, Goto
<1>2. CASE Deliver(w)
  <2>1. PICK x \in Task : task' = [task EXCEPT ![w] = x]
    <3>1. PICK i \in DOMAIN uriQueue : task' = [task EXCEPT ![w] = uriQueue[i]]
        BY <1>2 DEF Deliver
    <3>2. uriQueue[i] \in Task
        BY ElementOfSeq DEF RestOK
    <3> QED
        BY <3>1, <3>2
  <2>2. x # NoTask /\ pc' = [pc EXCEPT ![w] = "get"]
    BY <1>2, TaskType DEF Deliver, Goto
  <2>3. /\ fetched' = [fetched EXCEPT ![w] = fetched[w]] /\ same' = [same EXCEPT ![w] = same[w]]
        /\ fetched[w] \in Metadata \cup {NoMeta} /\ same[w] \in BOOLEAN
        /\ receiving' = [receiving EXCEPT ![w] = receiving[w]] /\ receiving[w] \in BOOLEAN
        /\ sending' = [sending EXCEPT ![w] = sending[w]] /\ sending[w] \in BOOLEAN
    BY <1>2 DEF Deliver, WorkersOK, links
  <2> QED
    BY <2>1, <2>2, <2>3, WorkersStep
<1>3. CASE GetMetadata(w)
  <2>1. Busy(w) /\ web[task[w].uri] \in Metadata
    BY <1>3, BusyTask DEF GetMetadata, Busy, RestOK
  <2> QED
    BY <1>3, <2>1, WorkerGoesOn DEF GetMetadata
<1>4. CASE GetMetadataFails(w) \/ FindOneFails(w)
    BY <1>4, WorkerGoesOn DEF GetMetadataFails, FindOneFails, Busy
<1>5. CASE FindOne(w)
    BY <1>5, WorkerGoesOn DEF FindOne, Busy
<1>6. CASE Update(w) \/ Insert(w) \/ UpsertFails(w)
    BY <1>6, WorkerGoesOn DEF Update, Insert, UpsertFails, AfterUpsert, Busy
<1>7. CASE NoMatch(w)
    BY <1>7, WorkerGoesOn DEF NoMatch, Busy
<1>8. CASE PublishImage(w)
    BY <1>8, WorkerGoesOn DEF PublishImage, Busy
<1>9. CASE Ack(w)
  <2>1. receiving' = [receiving EXCEPT ![w] = TRUE] /\ sending' = [sending EXCEPT ![w] = sending[w]]
        /\ sending[w] \in BOOLEAN
    BY <1>9 DEF Ack, WorkersOK, links
  <2> QED
    BY <1>9, <2>1, WorkersStep DEF Ack, Goto
<1>10. CASE AckFails(w)
    BY <1>10, ExitTypes DEF AckFails
<1> QED
    BY <1>1, <1>2, <1>3, <1>4, <1>5, <1>6, <1>7, <1>8, <1>9, <1>10 DEF Run

LEMMA BreakWorkers ==
    ASSUME WorkersOK, NEW w \in Workers, Crash(w) \/ Disconnect(w) \/ SenderBreaks(w)
    PROVE  WorkersOK'
<1>1. CASE Crash(w)
    BY <1>1, ExitTypes DEF Crash
<1>2. CASE Disconnect(w) /\ Busy(w)
    BY <1>2 DEF Disconnect, WorkersOK, worker, Busy
<1>3. CASE Disconnect(w) /\ ~Busy(w)
    BY <1>3, ExitTypes DEF Disconnect
<1>4. CASE SenderBreaks(w)
    BY <1>4 DEF SenderBreaks, WorkersOK, worker, Busy
<1> QED
    BY <1>1, <1>2, <1>3, <1>4

\* Found tokens stay found, and one that was written is.
LEMMA WriteFinds ==
    ASSUME WorkersKnow, NEW w \in Workers, NEW token, token = task[w].token, NEW id, Write(w, id)
    PROVE  Found(token)' /\ \A t : Found(t) => Found(t)' \/ (t # token /\ id \in Matching(t))
<1>1. CASE docs' = docs
  <2>1. \A t : Matching(t)' = Matching(t)
    BY <1>1 DEF Matching
  <2>2. CASE same[w]
    BY <2>1, <2>2 DEF WorkersKnow, Found
  <2>3. CASE ~same[w]
    <3>1. id \in DOMAIN docs' /\ docs'[id].token = token
        BY <2>3 DEF Write, Put, Document
    <3> QED
        BY <2>1, <3>1 DEF Matching, Found
  <2> QED
    BY <2>1, <2>2, <2>3 DEF Found
<1>2. CASE docs' # docs
  <2>1. MadeDocument(token, id)
    BY <1>2, WriteMatching
  <2> QED
    BY <2>1 DEF MadeDocument, Found
<1> QED
    BY <1>1, <1>2

\* The document a worker writes is one of its token.
LEMMA WriteTarget ==
    ASSUME TypeInv, NEW w \in Workers,
           NEW token, token = task[w].token, NEW id, Write(w, id),
           \/ pc[w] = "upsert" /\ Found(token) /\ id = FirstId(token)
           \/ pc[w] = "insert" /\ id = NextId(token)
    PROVE  /\ Busy(w)
           /\ id \in Matching(token) \/ (id = NextId(token) /\ ~same[w])
           /\ \A t : t # token => id \notin Matching(t)
<1>1. Busy(w)
    BY DEF Busy
<1>2. CASE pc[w] = "upsert" /\ Found(token) /\ id = FirstId(token)
    BY <1>1, <1>2 DEF TypeInv, DocInv, FirstKept, Matching
<1>3. CASE pc[w] = "insert" /\ id = NextId(token)
  <2>1. id \notin DOMAIN docs /\ ~same[w]
    BY <1>3, NextIdIsNew DEF TypeInv, WorkersKnow
  <2> QED
    BY <1>1, <1>3, <2>1 DEF Matching
<1> QED
    BY <1>2, <1>3

LEMMA WriteTypes ==
    ASSUME TypeInv, NEW w \in Workers,
           NEW token, token = task[w].token, NEW id, Write(w, id),
           \/ pc[w] = "upsert" /\ Found(token) /\ id = FirstId(token)
           \/ pc[w] = "insert" /\ id = NextId(token)
    PROVE  /\ CollectionOK'
           /\ Found(token)' /\ \A t : Found(t) => Found(t)'
           /\ upserted' \in [Tokens -> [owner : Owners, meta : Metadata \cup {NoMeta}] \cup {NoUpsert}]
<1>1. /\ Busy(w)
      /\ id \in Matching(token) \/ (id = NextId(token) /\ ~same[w])
      /\ \A t : t # token => id \notin Matching(t)
    BY WriteTarget
<1>2. token \in Tokens /\ task[w].uri \in Uris /\ task[w].owner \in Owners
    BY <1>1, BusyTask DEF TypeInv
<1>3. TimesOK' /\ DOMAIN lastChecked' = DOMAIN lastChecked \cup {id}
  <2>1. TimesOK /\ Now \in Nat /\ Stamp(id, Now)
    BY NowType DEF TypeInv, CollectionOK, TimesOK, Write
  <2> QED
    BY <2>1, StampTimes
<1>4. IdsOK' /\ DOMAIN docs' = DOMAIN docs \cup {id}
  <2>1. CASE same[w]
    <3>1. docs' = docs /\ id \in DOMAIN docs
        BY <1>1, <2>1 DEF Write, Matching
    <3>2. \A t : Matching(t)' = Matching(t)
        BY <3>1 DEF Matching
    <3> QED
        BY <3>1, <3>2 DEF IdsOK, Ids, TypeInv, CollectionOK
  <2>2. CASE ~same[w]
    <3>1. /\ DOMAIN docs' = DOMAIN docs \cup {id}
          /\ docs'[id].token = token /\ docs'[id].uri \in Uris /\ docs'[id].owner \in Owners
          /\ \A x \in DOMAIN docs : x # id => docs'[x] = docs[x]
        BY <1>2, <2>2 DEF Write, Put, Document
    <3> QED
        BY <1>1, <1>2, <3>1, DocumentPut DEF TypeInv
  <2> QED
    BY <2>1, <2>2
<1>5. CollectionOK'
    BY <1>3, <1>4 DEF CollectionOK, TypeInv
<1>6. upserted' \in [Tokens -> [owner : Owners, meta : Metadata \cup {NoMeta}] \cup {NoUpsert}]
    BY <1>2 DEF Write, TypeInv, RestOK, WorkersOK
<1>7. Found(token)' /\ \A t : Found(t) => Found(t)'
    BY <1>1, WriteFinds DEF TypeInv
<1> QED
    BY <1>5, <1>6, <1>7

\* The queue after a connection is gone.
LEMMA RequeuedQueue ==
    ASSUME WorkersOK, RestOK, NEW w \in Workers, uriQueue' = Requeued(w)
    PROVE  /\ uriQueue' \in Seq(Task)
           /\ \A t : InQueue(t) => InQueue(t)'
           /\ \A t : Busy(w) /\ receiving[w] /\ t = task[w].token => InQueue(t)'
<1> PICK token : token = task[w].token
    OBVIOUS
<1>1. CASE Busy(w) /\ receiving[w]
  <2>1. task[w] \in Task /\ uriQueue' = <<task[w]>> \o uriQueue
    BY <1>1, BusyTask DEF Requeued
  <2>2. PICK x \in Task : x = task[w] /\ uriQueue' = <<x>> \o uriQueue
    BY <2>1
  <2>3. uriQueue' \in Seq(Task) /\ \A t : InQueue(t)' <=> InQueue(t) \/ t = x.token
    BY <2>2, PrependKeeps DEF RestOK
  <2>4. InQueue(token)'
    BY <2>2, <2>3
  <2> QED
    BY <2>3, <2>4
<1>2. CASE ~(Busy(w) /\ receiving[w])
  <2>1. uriQueue' = uriQueue
    BY <1>2 DEF Requeued
  <2> QED
    BY <1>2, <2>1 DEF RestOK, InQueue
<1> QED
    BY <1>1, <1>2

LEMMA FaultTypes ==
    ASSUME RestOK, NEW f, Fault(f)
    PROVE  /\ faults' \subseteq Faults
           /\ published' \in 0 .. MaxTasks /\ changes' \in 0 .. MaxChanges /\ crashes' \in 0 .. MaxCrashes
BY DEF RestOK, Fault

LEMMA CollectionUnchanged ==
    ASSUME CollectionOK, UNCHANGED collection
    PROVE  CollectionOK' /\ \A t : Found(t)' = Found(t)
<1>1. \A t : Matching(t)' = Matching(t)
    BY DEF collection, Matching
<1>2. IdsOK'
    BY <1>1 DEF collection, CollectionOK, IdsOK, Ids
<1> QED
    BY <1>1, <1>2 DEF collection, CollectionOK, TimesOK, Now, Found

\* What the workers know, while nothing is found no more and all but w stay as they are.
LEMMA KnownGoesOn ==
    ASSUME WorkersOK, WorkersKnow, NEW w \in Workers, \A t : Found(t) => Found(t)',
           \A v \in Workers \ {w} : /\ pc'[v] = pc[v] /\ task'[v] = task[v]
                                    /\ fetched'[v] = fetched[v] /\ same'[v] = same[v],
           same'[w] => pc'[w] \in {"upsert", "image", "ack"},
           \A t : same'[w] /\ t = task'[w].token => Found(t)',
           pc'[w] = "image" => HasImage(fetched'[w])
    PROVE  WorkersKnow'
<1>1. ASSUME NEW v \in Workers
      PROVE  /\ same'[v] => pc'[v] \in {"upsert", "image", "ack"}
             /\ \A t : same'[v] /\ t = task'[v].token => Found(t)'
             /\ pc'[v] = "image" => HasImage(fetched'[v])
  <2>1. CASE v = w
    BY <2>1
  <2>2. CASE v # w
    BY <2>2 DEF WorkersKnow
  <2> QED
    BY <2>1, <2>2
<1> QED
    BY <1>1 DEF WorkersKnow

\* All but w and its task stay as they are.
OthersStay(w) ==
    \A v \in Workers \ {w} : /\ pc'[v] = pc[v] /\ task'[v] = task[v]
                             /\ fetched'[v] = fetched[v] /\ same'[v] = same[v]
                             /\ receiving'[v] = receiving[v] /\ sending'[v] = sending[v]

LEMMA RunOthersStay ==
    ASSUME WorkersOK, NEW w \in Workers, Run(w) \/ Crash(w) \/ Disconnect(w) \/ SenderBreaks(w)
    PROVE  OthersStay(w)
<1> USE DEF OthersStay, WorkersOK, Goto, worker, links
<1>1. CASE NewTokenMetadataWorker(w)
    BY <1>1 DEF NewTokenMetadataWorker
<1>2. CASE Deliver(w)
    BY <1>2 DEF Deliver
<1>3. CASE GetMetadata(w) \/ GetMetadataFails(w) \/ FindOne(w) \/ FindOneFails(w)
    BY <1>3 DEF GetMetadata, GetMetadataFails, FindOne, FindOneFails
<1>4. CASE Update(w) \/ Insert(w) \/ UpsertFails(w) \/ NoMatch(w)
    BY <1>4 DEF Update, Insert, UpsertFails, NoMatch
<1>5. CASE PublishImage(w) \/ Ack(w)
    BY <1>5 DEF PublishImage, Ack
<1>6. CASE AckFails(w) \/ Crash(w)
    BY <1>6 DEF AckFails, Crash, Exit
<1>7. CASE Disconnect(w) \/ SenderBreaks(w)
    BY <1>7 DEF Disconnect, SenderBreaks, Exit
<1> QED
    BY <1>1, <1>2, <1>3, <1>4, <1>5, <1>6, <1>7 DEF Run

\* The steps that write, from the document's side.
LEMMA WritingStep ==
    ASSUME TypeInv, NEW w \in Workers,
           Update(w) \/ Insert(w) \/ (UpsertFails(w) /\ ~UNCHANGED <<collection, upserted>>)
    PROVE  /\ CollectionOK' /\ \A t : Found(t) => Found(t)'
           /\ \A t : t = task[w].token => Found(t)'
           /\ upserted' \in [Tokens -> [owner : Owners, meta : Metadata \cup {NoMeta}] \cup {NoUpsert}]
<1> PICK token : token = task[w].token
    OBVIOUS
<1>1. PICK id : /\ Write(w, id)
                /\ \/ pc[w] = "upsert" /\ Found(token) /\ id = FirstId(token)
                   \/ pc[w] = "insert" /\ id = NextId(token)
    BY DEF Update, Insert, UpsertFails
<1>2. /\ CollectionOK' /\ Found(token)' /\ \A t : Found(t) => Found(t)'
      /\ upserted' \in [Tokens -> [owner : Owners, meta : Metadata \cup {NoMeta}] \cup {NoUpsert}]
    BY <1>1, WriteTypes
<1> QED
    BY <1>2

LEMMA RunCollection ==
    ASSUME TypeInv, NEW w \in Workers, Run(w)
    PROVE  CollectionOK' /\ \A t : Found(t) => Found(t)'
<1>1. CASE Update(w) \/ Insert(w) \/ (UpsertFails(w) /\ ~UNCHANGED <<collection, upserted>>)
    BY <1>1, WritingStep
<1>2. CASE UNCHANGED collection
    BY <1>2, CollectionUnchanged DEF TypeInv
<1>3. UNCHANGED collection \/ Update(w) \/ Insert(w) \/ UpsertFails(w)
    BY DEF Run, NewTokenMetadataWorker, Deliver, GetMetadata, GetMetadataFails, FindOne, FindOneFails,
           NoMatch, PublishImage, Ack, AckFails
<1> QED
    BY <1>1, <1>2, <1>3

LEMMA ImageIsString ==
    ASSUME NEW m, HasImage(m), NEW t, NEW owner
    PROVE  ImageTask(t, owner, m).image # WrongType
BY DEF HasImage, IsMetadataERC721, ImageTask

LEMMA RunRest ==
    ASSUME TypeInv, NEW w \in Workers, Run(w)
    PROVE  RestOK'
<1> USE DEF TypeInv, RestOK, history, counters, collection
<1>1. CASE NewTokenMetadataWorker(w)
    BY <1>1 DEF NewTokenMetadataWorker
<1>2. CASE Deliver(w)
  <2>1. PICK i \in DOMAIN uriQueue :
            /\ task' = [task EXCEPT ![w] = uriQueue[i]] /\ uriQueue' = RemoveAt(uriQueue, i)
    BY <1>2 DEF Deliver
  <2>2. uriQueue[i] \in Task
    BY ElementOfSeq
  <2>3. task'[w] = uriQueue[i]
    BY <2>1 DEF WorkersOK
  <2>4. delivered' \subseteq Tokens
    BY <1>2, <2>2, <2>3, TaskType DEF Deliver
  <2>5. uriQueue' \in Seq(Task)
    BY <2>1, RemoveAtKeeps
  <2> QED
    BY <1>2, <2>4, <2>5 DEF Deliver
<1>3. CASE GetMetadata(w) \/ FindOne(w) \/ NoMatch(w) \/ Ack(w)
    BY <1>3 DEF GetMetadata, FindOne, NoMatch, Ack
<1>4. CASE GetMetadataFails(w) \/ FindOneFails(w)
    BY <1>4, FaultTypes DEF GetMetadataFails, FindOneFails
<1>5. CASE Update(w) \/ Insert(w)
    BY <1>5, WritingStep DEF Update, Insert
<1>6. CASE UpsertFails(w)
  <2>1. CASE UNCHANGED <<collection, upserted>>
    BY <1>6, <2>1, FaultTypes DEF UpsertFails
  <2>2. CASE ~UNCHANGED <<collection, upserted>>
    BY <1>6, <2>2, FaultTypes, WritingStep DEF UpsertFails
  <2> QED
    BY <2>1, <2>2
<1>7. CASE PublishImage(w)
  <2>1. HasImage(fetched[w])
    BY <1>7 DEF PublishImage, WorkersKnow
  <2> QED
    BY <1>7, <2>1, ImageIsString DEF PublishImage
<1>8. CASE AckFails(w)
    BY <1>8 DEF AckFails
<1> QED
    BY <1>1, <1>2, <1>3, <1>4, <1>5, <1>6, <1>7, <1>8 DEF Run

LEMMA RunKnows ==
    ASSUME TypeInv, NEW w \in Workers, Run(w)
    PROVE  WorkersKnow'
<1> USE DEF TypeInv, WorkersOK, WorkersKnow, Goto
<1>1. OthersStay(w) /\ \A t : Found(t) => Found(t)'
    BY RunOthersStay, RunCollection
<1>2. /\ same'[w] => pc'[w] \in {"upsert", "image", "ack"}
      /\ pc'[w] = "image" => HasImage(fetched'[w])
  <2>1. CASE NewTokenMetadataWorker(w) \/ Deliver(w) \/ GetMetadata(w) \/ GetMetadataFails(w)
    BY <2>1 DEF NewTokenMetadataWorker, Deliver, GetMetadata, GetMetadataFails
  <2>2. CASE FindOne(w) \/ FindOneFails(w)
    BY <2>2 DEF FindOne, FindOneFails
  <2>3. CASE Update(w) \/ Insert(w) \/ UpsertFails(w)
    BY <2>3 DEF Update, Insert, UpsertFails, AfterUpsert
  <2>4. CASE NoMatch(w)
    BY <2>4 DEF NoMatch
  <2>5. CASE PublishImage(w) \/ Ack(w) \/ AckFails(w)
    BY <2>5 DEF PublishImage, Ack, AckFails, Exit
  <2> QED
    BY <2>1, <2>2, <2>3, <2>4, <2>5 DEF Run
<1>3. ASSUME NEW t, same'[w], t = task'[w].token
      PROVE  Found(t)
  <2>1. CASE NewTokenMetadataWorker(w) \/ Deliver(w) \/ GetMetadata(w) \/ GetMetadataFails(w)
    BY <1>3, <2>1 DEF NewTokenMetadataWorker, Deliver, GetMetadata, GetMetadataFails
  <2>2. CASE FindOne(w) \/ FindOneFails(w)
    BY <1>3, <2>2 DEF FindOne, FindOneFails
  <2>3. CASE Update(w) \/ Insert(w) \/ UpsertFails(w) \/ NoMatch(w) \/ PublishImage(w)
    BY <1>3, <2>3 DEF Update, Insert, UpsertFails, NoMatch, PublishImage
  <2>4. CASE Ack(w) \/ AckFails(w)
    BY <1>3, <2>4 DEF Ack, AckFails, Exit
  <2> QED
    BY <2>1, <2>2, <2>3, <2>4 DEF Run
<1> HIDE DEF WorkersOK, WorkersKnow
<1> QED
    BY <1>1, <1>2, <1>3, KnownGoesOn DEF OthersStay

LEMMA BreakTypes ==
    ASSUME TypeInv, NEW w \in Workers, Crash(w) \/ Disconnect(w) \/ SenderBreaks(w)
    PROVE  CollectionOK' /\ RestOK' /\ WorkersKnow' /\ \A t : Found(t)' = Found(t)
<1> USE DEF TypeInv
<1>1. CollectionOK' /\ \A t : Found(t)' = Found(t)
    BY CollectionUnchanged DEF Crash, Disconnect, SenderBreaks
<1>2. RestOK'
  <2>1. CASE Crash(w) \/ Disconnect(w)
    <3>1. uriQueue' \in Seq(Task)
        BY <2>1, RequeuedQueue DEF Crash, Disconnect
    <3>2. /\ crashes' \in 0 .. MaxCrashes
          /\ UNCHANGED <<published, changes, faults>> /\ UNCHANGED <<web, imgTasks, upserted, delivered>>
        BY <2>1, WorkerAssumption DEF Crash, Disconnect, Die, RestOK, history
    <3> QED
        BY <3>1, <3>2 DEF RestOK
  <2>2. CASE SenderBreaks(w)
    BY <2>2, FaultTypes DEF SenderBreaks, RestOK, history
  <2> QED
    BY <2>1, <2>2
<1>3. WorkersKnow'
  <2>1. CASE UNCHANGED worker
    BY <1>1, <2>1 DEF worker, WorkersKnow
  <2>2. CASE Exit(w)
    <3>1. ~same'[w] /\ pc'[w] # "image"
        BY <2>2 DEF Exit, Goto, WorkersOK
    <3> QED
        BY <1>1, <3>1, RunOthersStay, KnownGoesOn DEF OthersStay
  <2> QED
    BY <2>1, <2>2 DEF Crash, Disconnect, SenderBreaks
<1> QED
    BY <1>1, <1>2, <1>3

LEMMA WorldTypes ==
    ASSUME TypeInv, Publish \/ WebChanges
    PROVE  /\ CollectionOK' /\ WorkersOK' /\ WorkersKnow' /\ RestOK'
           /\ \A t : (Found(t)' <=> Found(t)) /\ (InQueue(t) => InQueue(t)')
<1> USE DEF TypeInv
<1>1. UNCHANGED <<collection, worker, links>>
    BY DEF Publish, Send, WebChanges
<1>2. CollectionOK' /\ \A t : Found(t)' = Found(t)
    BY <1>1, CollectionUnchanged
<1>3. WorkersOK' /\ WorkersKnow'
    BY <1>1, <1>2 DEF WorkersOK, WorkersKnow, Busy, worker, links
<1>4. RestOK' /\ \A t : InQueue(t) => InQueue(t)'
  <2>1. CASE Publish
    <3>1. PICK x \in Task : Send(x)
        BY <2>1, WorkerAssumption DEF Publish
    <3>2. uriQueue' \in Seq(Task) /\ \A t : InQueue(t) => InQueue(t)'
        BY <3>1, AppendKeeps DEF Send, RestOK
    <3>3. published' \in 0 .. MaxTasks
        BY <3>1, WorkerAssumption DEF Send, RestOK
    <3> QED
        BY <3>1, <3>2, <3>3 DEF Send, RestOK, history
  <2>2. CASE WebChanges
    <3>1. web' \in [Uris -> Metadata] /\ changes' \in 0 .. MaxChanges
        BY <2>2, WorkerAssumption DEF WebChanges, RestOK
    <3> QED
        BY <2>2, <3>1 DEF WebChanges, RestOK, history, InQueue
  <2> QED
    BY <2>1, <2>2
<1> QED
    BY <1>2, <1>3, <1>4

LEMMA InitTypes == Init => TypeInv
<1> SUFFICES ASSUME Init
             PROVE  TypeInv
    OBVIOUS
<1> USE DEF Init, InitDocuments, InitPrivate
<1>1. CollectionOK
    BY FS_EmptySet DEF CollectionOK, IdsOK, TimesOK
<1>2. WorkersOK
    BY DEF WorkersOK, Places, Busy
<1>3. WorkersKnow
    BY DEF WorkersKnow
<1>4. RestOK
    BY WorkerAssumption DEF RestOK
<1> QED
    BY <1>1, <1>2, <1>3, <1>4, InitDoc DEF TypeInv

LEMMA NextTypes == TypeInv /\ [Next]_vars => TypeInv'
<1> SUFFICES ASSUME TypeInv, [Next]_vars
             PROVE  TypeInv'
    OBVIOUS
<1>1. DocInv'
    BY NextDoc DEF TypeInv
<1>2. CASE Publish \/ WebChanges
    BY <1>1, <1>2, WorldTypes DEF TypeInv
<1>3. ASSUME NEW w \in Workers, Run(w)
      PROVE  TypeInv'
    BY <1>1, <1>3, RunWorkers, RunCollection, RunRest, RunKnows DEF TypeInv
<1>4. ASSUME NEW w \in Workers, Crash(w) \/ Disconnect(w) \/ SenderBreaks(w)
      PROVE  TypeInv'
    BY <1>1, <1>4, BreakWorkers, BreakTypes DEF TypeInv
<1>5. CASE UNCHANGED vars
  <2>1. CollectionOK' /\ \A t : Found(t)' = Found(t)
    BY <1>5, CollectionUnchanged DEF vars, TypeInv
  <2>2. WorkersOK' /\ WorkersKnow' /\ RestOK'
    BY <1>5, <2>1
       DEF vars, private, worker, links, history, counters, TypeInv, WorkersOK, WorkersKnow, RestOK, Busy
  <2> QED
    BY <1>1, <2>1, <2>2 DEF TypeInv
<1> QED
    BY <1>2, <1>3, <1>4, <1>5 DEF Next, WorkerStep

\* Every reachable state has its type: the collection's ids and times, the tasks in the queue,
\* what the workers hold, and that no image is published that is no string.
THEOREM TypeInvariant == Spec => []TypeInv
BY InitTypes, NextTypes, PTL DEF Spec

\* Whatever the metadata servers answer and whoever dies, all variables keep their types, and
\* the type assertion of processMessage never meets an image of another type.
THEOREM TypeCorrect == Spec => []TypeOK
BY TypeInvTyped, TypeInvariant, PTL

-----------------------------------------------------------------------------
(* No task is lost.                                                        *)

\* The worker has yet to write the document for a task that nobody else will get.
AwaitsUpsert(w) == pc[w] \in {"get", "find", "upsert", "insert"} /\ receiving[w]

\* Somebody will write the document of t.
Pending(t) == InQueue(t) \/ \E w \in Workers : AwaitsUpsert(w) /\ task[w].token = t

\* The step of a worker that gives its task up.
GivesUp(w) == GetMetadataFails(w) \/ FindOneFails(w) \/ UpsertFails(w)

Step(w) == Run(w) \/ Crash(w) \/ Disconnect(w) \/ SenderBreaks(w)

\* A task that leaves the queue goes to a worker whose channel is up.
LEMMA QueueGoesOn ==
    ASSUME TypeInv, NEW w \in Workers, Step(w), NEW t, InQueue(t)
    PROVE  Pending(t)'
<1> USE DEF TypeInv
<1>1. CASE Crash(w) \/ Disconnect(w)
  <2>1. InQueue(t)'
    BY <1>1, RequeuedQueue DEF Crash, Disconnect
  <2> QED
    BY <2>1 DEF Pending
<1>2. CASE Deliver(w)
  <2>1. PICK i \in DOMAIN uriQueue :
            /\ task' = [task EXCEPT ![w] = uriQueue[i]] /\ uriQueue' = RemoveAt(uriQueue, i)
    BY <1>2 DEF Deliver
  <2>2. task'[w] = uriQueue[i] /\ pc'[w] = "get" /\ receiving'[w]
    BY <1>2, <2>1 DEF Deliver, Goto, WorkersOK, links
  <2>3. InQueue(t)' \/ t = uriQueue[i].token
    BY <2>1, RemoveAtKeeps DEF RestOK
  <2> QED
    BY <2>2, <2>3 DEF Pending, AwaitsUpsert
<1>3. CASE UNCHANGED uriQueue
    BY <1>3 DEF Pending, InQueue
<1>4. UNCHANGED uriQueue \/ Deliver(w) \/ Crash(w) \/ Disconnect(w)
    BY DEF Step, Run, NewTokenMetadataWorker, GetMetadata, GetMetadataFails, FindOne, FindOneFails,
           Update, NoMatch, Insert, UpsertFails, PublishImage, Ack, AckFails, SenderBreaks
<1> QED
    BY <1>1, <1>2, <1>3, <1>4

\* A worker keeps its task until it has written or given up, unless it is in the queue again.
LEMMA AwaitingGoesOn ==
    ASSUME TypeInv, NEW w \in Workers, Step(w), AwaitsUpsert(w), NEW t, t = task[w].token
    PROVE  Pending(t)' \/ Update(w) \/ Insert(w) \/ GivesUp(w)
<1> USE DEF TypeInv
<1>1. CASE Crash(w) \/ Disconnect(w)
  <2>1. InQueue(t)'
    BY <1>1, RequeuedQueue DEF Crash, Disconnect, AwaitsUpsert, Busy
  <2> QED
    BY <2>1 DEF Pending
<1>2. CASE GetMetadata(w) \/ FindOne(w) \/ NoMatch(w) \/ SenderBreaks(w)
  <2>1. pc'[w] \in {"get", "find", "upsert", "insert"} /\ task'[w].token = t
    BY <1>2 DEF GetMetadata, FindOne, NoMatch, SenderBreaks, Goto, AwaitsUpsert, WorkersOK, worker
  <2>2. receiving'[w]
    BY <1>2 DEF GetMetadata, FindOne, NoMatch, SenderBreaks, AwaitsUpsert, links
  <2> QED
    BY <2>1, <2>2 DEF Pending, AwaitsUpsert
<1>3. CASE NewTokenMetadataWorker(w) \/ Deliver(w) \/ PublishImage(w) \/ Ack(w) \/ AckFails(w)
    BY <1>3 DEF NewTokenMetadataWorker, Deliver, PublishImage, Ack, AckFails, AwaitsUpsert
<1> QED
    BY <1>1, <1>2, <1>3 DEF Step, Run, GivesUp

LEMMA PendingGoesOn ==
    ASSUME TypeInv, NEW w \in Workers, Step(w), NEW t, Pending(t)
    PROVE  Pending(t)' \/ (t = task[w].token /\ (Update(w) \/ Insert(w) \/ GivesUp(w)))
<1>1. CASE InQueue(t)
    BY <1>1, QueueGoesOn
<1>2. ASSUME NEW v \in Workers \ {w}, AwaitsUpsert(v), task[v].token = t
      PROVE  Pending(t)'
  <2>1. OthersStay(w)
    BY RunOthersStay DEF Step, TypeInv
  <2>2. AwaitsUpsert(v)' /\ task'[v].token = t
    BY <1>2, <2>1 DEF OthersStay, AwaitsUpsert
  <2> QED
    BY <2>2 DEF Pending
<1>3. CASE AwaitsUpsert(w) /\ task[w].token = t
    BY <1>3, AwaitingGoesOn
<1> QED
    BY <1>1, <1>2, <1>3 DEF Pending

\* The tokens without a document whose tasks are done.
Missing == {t \in delivered : ~Found(t) /\ ~Pending(t)}

MissingInv ==
    IsFiniteSet(Missing) /\ Cardinality(Missing) <= Cardinality(faults \ {"sender"})

LEMMA FaultsFinite ==
    ASSUME NEW S \in SUBSET Faults
    PROVE  IsFiniteSet(S) /\ Cardinality(S) \in Nat
<1> DEFINE two == {"web"} \cup {"find"}
           three == two \cup {"upsert"}
           all == three \cup {"sender"}
<1>1. S \in SUBSET all
    BY WorkerAssumption
<1>2. IsFiniteSet(two)
    BY FS_Singleton, FS_AddElement
<1> HIDE DEF two
<1>3. IsFiniteSet(three)
    BY <1>2, FS_AddElement
<1> HIDE DEF three
<1>4. IsFiniteSet(all)
    BY <1>3, FS_AddElement
<1> HIDE DEF all
<1> QED
    BY <1>1, <1>4, FS_Subset, FS_CardinalityType

LEMMA NoneMissingMore ==
    ASSUME RestOK, RestOK', MissingInv, faults \subseteq faults', Missing' \subseteq Missing
    PROVE  MissingInv'
<1> DEFINE costly == faults \ {"sender"}
<1>1. /\ IsFiniteSet(Missing') /\ Cardinality(Missing') <= Cardinality(Missing)
      /\ Cardinality(Missing') \in Nat /\ Cardinality(Missing) \in Nat
    BY FS_Subset, FS_CardinalityType DEF MissingInv
<1>2. /\ IsFiniteSet(costly') /\ Cardinality(costly') \in Nat /\ Cardinality(costly) \in Nat
      /\ costly \in SUBSET costly'
    BY FaultsFinite DEF RestOK
<1>3. Cardinality(costly) <= Cardinality(costly')
    BY <1>2, FS_Subset
<1> QED
    BY <1>1, <1>2, <1>3 DEF MissingInv

\* A failure costs the document of one token.
LEMMA OneMissingMore ==
    ASSUME RestOK, MissingInv, NEW f, f # "sender", Fault(f), RestOK', NEW t, Missing' \subseteq Missing \cup {t}
    PROVE  MissingInv'
<1> DEFINE costly == faults \ {"sender"}
           more == Missing \cup {t}
<1>1. /\ IsFiniteSet(more) /\ Cardinality(more) <= Cardinality(Missing) + 1
      /\ Cardinality(more) \in Nat /\ Cardinality(Missing) \in Nat
  <2>1. Cardinality(Missing) \in Nat
    BY FS_CardinalityType DEF MissingInv
  <2> QED
    BY <2>1, FS_AddElement, FS_CardinalityType DEF MissingInv
<1> HIDE DEF more
<1>2. IsFiniteSet(Missing') /\ Cardinality(Missing') <= Cardinality(more) /\ Cardinality(Missing') \in Nat
  <2>1. Missing' \in SUBSET more
    BY DEF more
  <2> QED
    BY <1>1, <2>1, FS_Subset, FS_CardinalityType
<1>3. IsFiniteSet(costly) /\ Cardinality(costly) \in Nat
    BY FaultsFinite DEF RestOK
<1>4. costly' = costly \cup {f} /\ f \notin costly
    BY DEF Fault
<1>5. Cardinality(costly') = Cardinality(costly) + 1
    BY <1>3, <1>4, FS_AddElement
<1> QED
    BY <1>1, <1>2, <1>3, <1>5 DEF MissingInv

LEMMA StepMissing ==
    ASSUME TypeInv, TypeInv', MissingInv, NEW w \in Workers, Step(w)
    PROVE  MissingInv'
<1>1. \A t : Found(t) => Found(t)'
    BY RunCollection, BreakTypes DEF Step
<1>2. ASSUME NEW t, t \in delivered'
      PROVE  t \in delivered \/ Pending(t)'
  <2>1. CASE Deliver(w)
    <3>1. pc'[w] = "get" /\ receiving'[w] /\ delivered' = delivered \cup {task'[w].token}
        BY <2>1 DEF Deliver, Goto, TypeInv, WorkersOK, links
    <3> QED
        BY <1>2, <3>1 DEF Pending, AwaitsUpsert
  <2>2. CASE ~Deliver(w)
    BY <1>2, <2>2
       DEF Step, Run, NewTokenMetadataWorker, GetMetadata, GetMetadataFails, FindOne, FindOneFails,
           Update, NoMatch, Insert, UpsertFails, PublishImage, Ack, AckFails,
           Crash, Disconnect, SenderBreaks, history
  <2> QED
    BY <2>1, <2>2
<1>3. CASE ~GivesUp(w)
  <2>1. ASSUME NEW t, Pending(t), ~Pending(t)'
        PROVE  Found(t)'
    BY <1>3, <2>1, PendingGoesOn, WritingStep
  <2>2. Missing' \subseteq Missing
    BY <1>1, <1>2, <2>1 DEF Missing
  <2>3. faults \subseteq faults'
    BY DEF Step, Run, NewTokenMetadataWorker, Deliver, GetMetadata, GetMetadataFails, FindOne, FindOneFails,
           Update, NoMatch, Insert, UpsertFails, PublishImage, Ack, AckFails,
           Crash, Disconnect, SenderBreaks, Die, Fault, counters
  <2> QED
    BY <2>2, <2>3, NoneMissingMore DEF TypeInv
<1>4. CASE GivesUp(w)
  <2> PICK token : token = task[w].token
    OBVIOUS
  <2>1. \A t : Pending(t) => Pending(t)' \/ t = token
    BY PendingGoesOn
  <2>2. Missing' \subseteq Missing \cup {token}
    BY <1>1, <1>2, <2>1 DEF Missing
  <2>3. \E f : f # "sender" /\ Fault(f)
    BY <1>4 DEF GivesUp, GetMetadataFails, FindOneFails, UpsertFails
  <2> QED
    BY <2>2, <2>3, OneMissingMore DEF TypeInv
<1> QED
    BY <1>3, <1>4

LEMMA WorldPending ==
    ASSUME TypeInv, Publish \/ WebChanges, NEW t
    PROVE  Pending(t) => Pending(t)'
<1>1. InQueue(t) => InQueue(t)'
    BY WorldTypes
<1>2. UNCHANGED <<worker, links>>
    BY DEF Publish, Send, WebChanges
<1> QED
    BY <1>1, <1>2 DEF Pending, AwaitsUpsert, worker, links

LEMMA InitMissing == Init => MissingInv
<1> SUFFICES ASSUME Init
             PROVE  MissingInv
    OBVIOUS
<1>1. Missing = {}
    BY DEF Init, InitPrivate, Missing
<1>2. Cardinality(faults \ {"sender"}) \in Nat
    BY FaultsFinite DEF Init, InitPrivate
<1> QED
    BY <1>1, <1>2, FS_EmptySet DEF MissingInv

LEMMA NextMissing == TypeInv /\ TypeInv' /\ MissingInv /\ [Next]_vars => MissingInv'
<1> SUFFICES ASSUME TypeInv, TypeInv', MissingInv, [Next]_vars
             PROVE  MissingInv'
    OBVIOUS
<1>1. CASE Publish \/ WebChanges
  <2>1. UNCHANGED <<delivered, faults>>
    BY <1>1 DEF Publish, Send, WebChanges, history
  <2>2. Missing' \subseteq Missing
    BY <1>1, <2>1, WorldTypes, WorldPending DEF Missing
  <2> QED
    BY <2>1, <2>2, NoneMissingMore DEF TypeInv
<1>2. ASSUME NEW w \in Workers, Step(w)
      PROVE  MissingInv'
    BY <1>2, StepMissing
<1>3. CASE UNCHANGED vars
  <2>1. \A t : Found(t)' = Found(t)
    BY <1>3, CollectionUnchanged DEF vars, TypeInv
  <2>2. Missing' = Missing /\ faults' = faults
    BY <1>3, <2>1 DEF vars, private, worker, links, history, counters, Missing, Pending, AwaitsUpsert, InQueue
  <2> QED
    BY <2>2 DEF MissingInv
<1> QED
    BY <1>1, <1>2, <1>3 DEF Next, WorkerStep, Step

\* A token is missing its document only by a failure, and a failure costs one token.
THEOREM MissingInvariant == Spec => []MissingInv
BY InitMissing, NextMissing, TypeInvariant, PTL DEF Spec

\* Crashes, broken connections and redeliveries lose no task: when the tasks of a token are
\* done it has its document, except that a failure of the metadata server or of MongoDB costs
\* one token's at most.
THEOREM FewDocumentsLost == Spec => []LostDocumentsBounded
<1> DEFINE lost == {t \in delivered : AtRest(t) /\ ~Found(t)}
<1>1. ASSUME TypeInv, MissingInv
      PROVE  LostDocumentsBounded
  <2>1. \A t : AtRest(t) => ~Pending(t)
    BY <1>1, BusyTask, TaskType DEF AtRest, Pending, InQueue, AwaitsUpsert, Busy, TypeInv
  <2>2. lost \in SUBSET Missing
    BY <2>1 DEF Missing
  <2>3. Cardinality(lost) <= Cardinality(Missing) /\ Cardinality(lost) \in Nat /\ Cardinality(Missing) \in Nat
    BY <1>1, <2>2, FS_Subset, FS_CardinalityType DEF MissingInv
  <2>4. Cardinality(faults \ {"sender"}) \in Nat
    BY <1>1, FaultsFinite DEF TypeInv, RestOK
  <2> QED
    BY <1>1, <2>3, <2>4 DEF LostDocumentsBounded, MissingInv
<1> QED
    BY <1>1, TypeInvariant, MissingInvariant, PTL

-----------------------------------------------------------------------------
(* No image is forgotten.                                                  *)

\* The worker is about to publish the image of the metadata stored last for t.
Announces(w, t) ==
    /\ pc[w] = "image" /\ task[w].token = t
    /\ upserted[t] = [owner |-> task[w].owner, meta |-> fetched[w]]

\* The tokens whose last image nobody is going to publish.
Forgotten ==
    {t \in Tokens : Unannounced(t) /\ ~Pending(t) /\ \A w \in Workers : ~Announces(w, t)}

\* The workers that go on with a task that is another's, too.
Orphans == {w \in Workers : Busy(w) /\ ~receiving[w]}

\* An orphan stands for one accident, a forgotten image for two.
Accidents ==
    /\ IsFiniteSet(Forgotten)
    /\ 2 * Cardinality(Forgotten) + Cardinality(Orphans) <= crashes

ImageInv ==
    faults = {} => (\A w \in Workers : pc[w] # "down" => sending[w]) /\ Accidents

LEMMA OrphansFinite ==
    /\ IsFiniteSet(Orphans) /\ Cardinality(Orphans) \in Nat
    /\ IsFiniteSet(Orphans') /\ Cardinality(Orphans') \in Nat
<1>1. Orphans \in SUBSET Workers /\ Orphans' \in SUBSET Workers
    BY DEF Orphans
<1> QED
    BY <1>1, WorkerAssumption, FS_Subset, FS_CardinalityType

\* One element more or less.
LEMMA OneMore ==
    ASSUME NEW S, IsFiniteSet(S), NEW x
    PROVE  /\ IsFiniteSet(S \cup {x}) /\ Cardinality(S) \in Nat /\ Cardinality(S \cup {x}) \in Nat
           /\ Cardinality(S \cup {x}) <= Cardinality(S) + 1
<1>1. Cardinality(S) \in Nat
    BY FS_CardinalityType
<1>2. /\ IsFiniteSet(S \cup {x})
      /\ Cardinality(S \cup {x}) = IF x \in S THEN Cardinality(S) ELSE Cardinality(S) + 1
    BY FS_AddElement
<1> QED
    BY <1>1, <1>2

LEMMA NoneForgottenMore ==
    ASSUME Accidents, crashes \in Nat, crashes' \in Nat,
           Forgotten' \subseteq Forgotten,
           \/ Orphans' \subseteq Orphans /\ crashes <= crashes'
           \/ crashes' = crashes + 1 /\ \E w : Orphans' \subseteq Orphans \cup {w}
    PROVE  Accidents'
<1>1. /\ IsFiniteSet(Forgotten') /\ Cardinality(Forgotten') <= Cardinality(Forgotten)
      /\ Cardinality(Forgotten') \in Nat /\ Cardinality(Forgotten) \in Nat
    BY FS_Subset, FS_CardinalityType DEF Accidents
<1>2. Cardinality(Orphans) \in Nat /\ Cardinality(Orphans') \in Nat /\ IsFiniteSet(Orphans)
    BY OrphansFinite
<1>3. CASE Orphans' \subseteq Orphans /\ crashes <= crashes'
  <2>1. Cardinality(Orphans') <= Cardinality(Orphans)
    BY <1>2, <1>3, FS_Subset
  <2> QED
    BY <1>1, <1>2, <1>3, <2>1 DEF Accidents
<1>4. ASSUME NEW w, Orphans' \subseteq Orphans \cup {w}, crashes' = crashes + 1
      PROVE  Accidents'
  <2> DEFINE more == Orphans \cup {w}
  <2>1. IsFiniteSet(more) /\ Cardinality(more) <= Cardinality(Orphans) + 1 /\ Cardinality(more) \in Nat
    BY <1>2, OneMore
  <2>2. Orphans' \in SUBSET more
    BY <1>4
  <2> HIDE DEF more
  <2>3. Cardinality(Orphans') <= Cardinality(more)
    BY <2>1, <2>2, FS_Subset
  <2> QED
    BY <1>1, <1>2, <1>4, <2>1, <2>3 DEF Accidents
<1> QED
    BY <1>3, <1>4

\* An orphan dies with an image it alone would have published.
LEMMA OneForgottenMore ==
    ASSUME Accidents, crashes \in Nat, crashes' = crashes + 1,
           NEW t, Forgotten' \subseteq Forgotten \cup {t},
           NEW w \in Orphans, Orphans' \subseteq Orphans \ {w}
    PROVE  Accidents'
<1> DEFINE more == Forgotten \cup {t}
           fewer == Orphans \ {w}
<1>1. Cardinality(Forgotten) \in Nat
    BY FS_CardinalityType DEF Accidents
<1>2. IsFiniteSet(more) /\ Cardinality(more) <= Cardinality(Forgotten) + 1 /\ Cardinality(more) \in Nat
    BY OneMore DEF Accidents
<1>3. /\ IsFiniteSet(fewer) /\ Cardinality(fewer) = Cardinality(Orphans) - 1
      /\ Cardinality(Orphans) \in Nat /\ Cardinality(Orphans') \in Nat
    BY OrphansFinite, FS_RemoveElement
<1>4. Forgotten' \in SUBSET more /\ Orphans' \in SUBSET fewer
    OBVIOUS
<1> HIDE DEF more, fewer
<1>5. /\ IsFiniteSet(Forgotten') /\ Cardinality(Forgotten') <= Cardinality(more)
      /\ Cardinality(Forgotten') \in Nat /\ Cardinality(Orphans') <= Cardinality(fewer)
    BY <1>2, <1>3, <1>4, FS_Subset, FS_CardinalityType
<1> QED
    BY <1>1, <1>2, <1>3, <1>5 DEF Accidents

LEMMA NoFaultYet ==
    ASSUME NEW w \in Workers, Step(w), faults' = {}
    PROVE  faults = {} /\ ~GivesUp(w) /\ ~SenderBreaks(w)
BY DEF Step, Run, NewTokenMetadataWorker, Deliver, GetMetadata, GetMetadataFails, FindOne, FindOneFails,
       Update, NoMatch, Insert, UpsertFails, PublishImage, Ack, AckFails,
       Crash, Disconnect, SenderBreaks, Die, Fault, counters, GivesUp

\* Who has stored metadata with an image is about to publish it.
LEMMA WriterAnnounces ==
    ASSUME TypeInv, NEW w \in Workers, Update(w) \/ Insert(w), NEW t \in Tokens, t = task[w].token,
           Unannounced(t)'
    PROVE  Announces(w, t)'
<1>1. upserted'[t] = [owner |-> task[w].owner, meta |-> fetched[w]]
    BY DEF Update, Insert, Write, TypeInv, RestOK
<1>2. HasImage(fetched[w])
    BY <1>1 DEF Unannounced
<1>3. pc'[w] = "image" /\ task' = task /\ fetched' = fetched
    BY <1>2 DEF Update, Insert, AfterUpsert, Goto, TypeInv, WorkersOK
<1> QED
    BY <1>1, <1>3 DEF Announces

\* Only a write changes what was stored last, and the image queue only grows.
LEMMA LastStaysStored ==
    ASSUME TypeInv, NEW w \in Workers, Step(w), ~GivesUp(w), NEW t \in Tokens,
           ~((Update(w) \/ Insert(w)) /\ t = task[w].token)
    PROVE  upserted'[t] = upserted[t] /\ imgTasks \subseteq imgTasks'
<1>1. CASE Update(w) \/ Insert(w)
  <2>1. t # task[w].token
    BY <1>1
  <2> QED
    BY <1>1, <2>1 DEF Update, Insert, Write, TypeInv, RestOK
<1>2. CASE ~(Update(w) \/ Insert(w))
    BY <1>2 DEF Step, Run, NewTokenMetadataWorker, Deliver, GetMetadata, FindOne, NoMatch,
                PublishImage, Ack, AckFails, Crash, Disconnect, SenderBreaks, GivesUp, history
<1> QED
    BY <1>1, <1>2

\* The worker with the image of t publishes it, or dies; then its task is done again, or it
\* was an orphan.
LEMMA AnnouncerGoesOn ==
    ASSUME TypeInv, NEW w \in Workers, Step(w), ~GivesUp(w), ~SenderBreaks(w), sending[w],
           NEW t \in Tokens, Announces(w, t), upserted'[t] = upserted[t],
           ~(Crash(w) /\ w \in Orphans)
    PROVE  Announces(w, t)' \/ ~Unannounced(t)' \/ Pending(t)'
<1>1. Busy(w)
    BY DEF Announces, Busy
<1>2. CASE PublishImage(w)
  <2>1. ImageTask(t, upserted[t].owner, upserted[t].meta) \in imgTasks'
    BY <1>2 DEF PublishImage, Announces
  <2> QED
    BY <2>1 DEF Unannounced
<1>3. CASE Crash(w)
  <2>1. InQueue(t)'
    BY <1>1, <1>3, RequeuedQueue DEF Crash, Orphans, TypeInv, Announces
  <2> QED
    BY <2>1 DEF Pending
<1>4. CASE Disconnect(w)
    BY <1>1, <1>4 DEF Disconnect, worker, Announces
<1>5. PublishImage(w) \/ Crash(w) \/ Disconnect(w)
    BY DEF Announces, Step, Run, NewTokenMetadataWorker, Deliver, GetMetadata, FindOne, Update, NoMatch, Insert,
           Ack, AckFails, GivesUp
<1> QED
    BY <1>2, <1>3, <1>4, <1>5

LEMMA ForgottenBefore ==
    ASSUME TypeInv, ImageInv, NEW w \in Workers, Step(w), faults' = {},
           NEW t \in Forgotten', ~(Crash(w) /\ w \in Orphans /\ t = task[w].token)
    PROVE  t \in Forgotten
<1>1. t \in Tokens /\ Unannounced(t)' /\ ~Pending(t)' /\ \A v \in Workers : ~Announces(v, t)'
    BY DEF Forgotten
<1>2. faults = {} /\ ~GivesUp(w) /\ ~SenderBreaks(w)
    BY NoFaultYet
<1>3. ~((Update(w) \/ Insert(w)) /\ t = task[w].token)
    BY <1>1, WriterAnnounces
<1>4. upserted'[t] = upserted[t] /\ imgTasks \subseteq imgTasks'
    BY <1>1, <1>2, <1>3, LastStaysStored
<1>5. Unannounced(t)
    BY <1>1, <1>4 DEF Unannounced
<1>6. ~Pending(t)
    BY <1>1, <1>2, <1>3, PendingGoesOn
<1>7. ASSUME NEW v \in Workers, Announces(v, t)
      PROVE  FALSE
  <2>1. CASE v = w
    <3>1. sending[w]
        BY <1>2, <1>7, <2>1 DEF ImageInv, Announces
    <3>2. ~(Crash(w) /\ w \in Orphans)
        BY <1>7, <2>1 DEF Announces
    <3> QED
        BY <1>1, <1>2, <1>4, <1>7, <2>1, <3>1, <3>2, AnnouncerGoesOn
  <2>2. CASE v # w
    <3>1. OthersStay(w)
        BY RunOthersStay DEF Step, TypeInv
    <3>2. Announces(v, t)'
        BY <1>4, <1>7, <2>2, <3>1 DEF Announces, OthersStay
    <3> QED
        BY <1>1, <3>2
  <2> QED
    BY <2>1, <2>2
<1> QED
    BY <1>1, <1>5, <1>6, <1>7 DEF Forgotten

\* Who comes up has all its connections.
LEMMA SendersUp ==
    ASSUME TypeInv, NEW w \in Workers, Step(w), ~SenderBreaks(w),
           \A v \in Workers : pc[v] # "down" => sending[v]
    PROVE  \A v \in Workers : pc'[v] # "down" => sending'[v]
<1> SUFFICES ASSUME NEW v \in Workers, pc'[v] # "down"
             PROVE  sending'[v]
    OBVIOUS
<1> USE DEF TypeInv, WorkersOK, Goto, worker, links
<1>1. CASE v # w
    BY <1>1, RunOthersStay DEF Step, OthersStay
<1>2. CASE v = w
  <2>1. CASE NewTokenMetadataWorker(w)
    BY <1>2, <2>1 DEF NewTokenMetadataWorker
  <2>2. CASE AckFails(w) \/ Crash(w)
    BY <1>2, <2>2 DEF AckFails, Crash, Exit
  <2>3. CASE Disconnect(w)
    BY <1>2, <2>3 DEF Disconnect, Exit, Busy
  <2>4. CASE Deliver(w) \/ GetMetadata(w) \/ GetMetadataFails(w) \/ FindOne(w) \/ FindOneFails(w)
    BY <1>2, <2>4 DEF Deliver, GetMetadata, GetMetadataFails, FindOne, FindOneFails
  <2>5. CASE Update(w) \/ NoMatch(w) \/ Insert(w) \/ UpsertFails(w) \/ PublishImage(w) \/ Ack(w)
    BY <1>2, <2>5 DEF Update, NoMatch, Insert, UpsertFails, PublishImage, Ack
  <2> QED
    BY <2>1, <2>2, <2>3, <2>4, <2>5 DEF Step, Run
<1> QED
    BY <1>1, <1>2

\* A step of a worker makes an orphan only where its connection breaks.
LEMMA OrphansStep ==
    ASSUME TypeInv, NEW w \in Workers, Step(w)
    PROVE  /\ Orphans' \subseteq Orphans \cup {w}
           /\ ~Disconnect(w) => Orphans' \subseteq Orphans
           /\ Crash(w) => Orphans' \subseteq Orphans \ {w}
<1>1. \A v \in Workers \ {w} : v \in Orphans' <=> v \in Orphans
    BY RunOthersStay DEF Step, OthersStay, Orphans, Busy, TypeInv
<1>2. Crash(w) => w \notin Orphans'
    BY DEF Crash, Exit, Goto, Orphans, Busy, TypeInv, WorkersOK
<1>3. ASSUME ~Disconnect(w), w \in Orphans'
      PROVE  w \in Orphans
  <2> USE DEF TypeInv, WorkersOK, Goto, links, worker, Orphans, Busy
  <2>1. CASE NewTokenMetadataWorker(w) \/ Deliver(w) \/ Ack(w)
    BY <1>3, <2>1 DEF NewTokenMetadataWorker, Deliver, Ack
  <2>2. CASE AckFails(w) \/ Crash(w)
    BY <1>3, <2>2 DEF AckFails, Crash, Exit
  <2>3. CASE GetMetadata(w) \/ GetMetadataFails(w) \/ FindOne(w) \/ FindOneFails(w) \/ SenderBreaks(w)
    BY <1>3, <2>3 DEF GetMetadata, GetMetadataFails, FindOne, FindOneFails, SenderBreaks
  <2>4. CASE Update(w) \/ NoMatch(w) \/ Insert(w) \/ UpsertFails(w) \/ PublishImage(w)
    BY <1>3, <2>4 DEF Update, NoMatch, Insert, UpsertFails, PublishImage
  <2> QED
    BY <1>3, <2>1, <2>2, <2>3, <2>4 DEF Step, Run
<1>4. Orphans \subseteq Workers /\ Orphans' \subseteq Workers
    BY DEF Orphans
<1> QED
    BY <1>1, <1>2, <1>3, <1>4

LEMMA StepImage ==
    ASSUME TypeInv, TypeInv', ImageInv, NEW w \in Workers, Step(w)
    PROVE  ImageInv'
<1> SUFFICES ASSUME faults' = {}
             PROVE  (\A v \in Workers : pc'[v] # "down" => sending'[v]) /\ Accidents'
    BY DEF ImageInv
<1> PICK token : token = task[w].token
    OBVIOUS
<1>1. faults = {} /\ ~SenderBreaks(w) /\ Accidents /\ \A v \in Workers : pc[v] # "down" => sending[v]
    BY NoFaultYet DEF ImageInv
<1>2. \A v \in Workers : pc'[v] # "down" => sending'[v]
    BY <1>1, SendersUp
<1>3. crashes \in Nat /\ crashes' \in Nat
    BY WorkerAssumption DEF TypeInv, RestOK
<1>4. \A t \in Forgotten' : t \in Forgotten \/ (Crash(w) /\ w \in Orphans /\ t = token)
    BY ForgottenBefore
<1>5. CASE Crash(w) /\ w \in Orphans
  <2>1. crashes' = crashes + 1
    BY <1>5 DEF Crash, Die
  <2>2. Forgotten' \subseteq Forgotten \cup {token} /\ Orphans' \subseteq Orphans \ {w}
    BY <1>4, <1>5, OrphansStep
  <2>3. Accidents'
    BY <1>1, <1>3, <1>5, <2>1, <2>2, OneForgottenMore
  <2> QED
    BY <1>2, <2>3
<1>6. CASE ~(Crash(w) /\ w \in Orphans)
  <2>1. Forgotten' \subseteq Forgotten
    BY <1>4, <1>6
  <2>2. \/ Orphans' \subseteq Orphans /\ crashes <= crashes'
        \/ crashes' = crashes + 1 /\ \E v : Orphans' \subseteq Orphans \cup {v}
    <3>1. CASE Disconnect(w)
        BY <3>1, OrphansStep DEF Disconnect, Die
    <3>2. CASE Crash(w)
        BY <3>2, <1>3, OrphansStep DEF Crash, Die
    <3>3. CASE ~Disconnect(w) /\ ~Crash(w)
      <4>1. crashes' = crashes
        BY <1>1, <3>3 DEF Step, Run, NewTokenMetadataWorker, Deliver, GetMetadata, GetMetadataFails, FindOne,
               FindOneFails, Update, NoMatch, Insert, UpsertFails, PublishImage, Ack, AckFails,
               Fault, counters
      <4> QED
        BY <1>3, <3>3, <4>1, OrphansStep
    <3> QED
        BY <3>1, <3>2, <3>3
  <2>3. Accidents'
    BY <1>1, <1>3, <2>1, <2>2, NoneForgottenMore
  <2> QED
    BY <1>2, <2>3
<1> QED
    BY <1>5, <1>6

LEMMA WorldImage ==
    ASSUME TypeInv, TypeInv', ImageInv, Publish \/ WebChanges
    PROVE  ImageInv'
<1>1. UNCHANGED <<worker, links, imgTasks, history, crashes, faults>>
    BY DEF Publish, Send, WebChanges
<1>2. Forgotten' \subseteq Forgotten /\ Orphans' = Orphans
  <2>1. \A t : Unannounced(t)' <=> Unannounced(t)
    BY <1>1 DEF Unannounced, history
  <2>2. \A t, v : Announces(v, t)' <=> Announces(v, t)
    BY <1>1 DEF Announces, worker, history
  <2>3. Orphans' = Orphans
    BY <1>1 DEF Orphans, Busy, worker, links
  <2> QED
    BY <2>1, <2>2, <2>3, WorldPending DEF Forgotten
<1>3. crashes \in Nat /\ crashes' = crashes /\ crashes <= crashes'
    BY <1>1, WorkerAssumption DEF TypeInv, RestOK
<1>4. Accidents => Accidents'
    BY <1>2, <1>3, NoneForgottenMore
<1> QED
    BY <1>1, <1>4 DEF ImageInv, worker, links

LEMMA InitImage == Init => ImageInv
<1> SUFFICES ASSUME Init
             PROVE  ImageInv
    OBVIOUS
<1> USE DEF Init, InitPrivate
<1>1. Forgotten = {} /\ Orphans = {}
    BY DEF Forgotten, Unannounced, Orphans, Busy
<1> QED
    BY <1>1, FS_EmptySet DEF ImageInv, Accidents

LEMMA NextImage == TypeInv /\ TypeInv' /\ ImageInv /\ [Next]_vars => ImageInv'
<1> SUFFICES ASSUME TypeInv, TypeInv', ImageInv, [Next]_vars
             PROVE  ImageInv'
    OBVIOUS
<1>1. CASE Publish \/ WebChanges
    BY <1>1, WorldImage
<1>2. ASSUME NEW w \in Workers, Step(w)
      PROVE  ImageInv'
    BY <1>2, StepImage
<1>3. CASE UNCHANGED vars
  <2>1. Forgotten' = Forgotten /\ Orphans' = Orphans
    BY <1>3 DEF vars, private, worker, links, history, Forgotten, Unannounced, Pending, AwaitsUpsert,
                InQueue, Announces, Orphans, Busy
  <2> QED
    BY <1>3, <2>1 DEF vars, private, worker, links, counters, ImageInv, Accidents
<1> QED
    BY <1>1, <1>2, <1>3 DEF Next, WorkerStep, Step

\* Orphaned workers and forgotten images are paid for by crashes and broken connections.
THEOREM ImageInvariant == Spec => []ImageInv
BY InitImage, NextImage, TypeInvariant, PTL DEF Spec

\* A worker that dies between storing and publishing leaves no image behind, because its
\* task is done again; only one that lost its connection before can, so that two accidents
\* cost one image at most.
THEOREM ImagesAnnounced == Spec => []ImageAnnounced
<1> DEFINE lost == {t \in Tokens : AtRest(t) /\ Unannounced(t)}
<1>1. ASSUME TypeInv, ImageInv
      PROVE  ImageAnnounced
  <2> SUFFICES ASSUME faults = {}
               PROVE  2 * Cardinality(lost) <= crashes
    BY DEF ImageAnnounced
  <2>1. \A t : AtRest(t) => ~Pending(t) /\ \A w \in Workers : ~Announces(w, t)
    BY <1>1, BusyTask, TaskType DEF AtRest, Pending, InQueue, AwaitsUpsert, Announces, Busy, TypeInv
  <2>2. lost \in SUBSET Forgotten
    BY <2>1 DEF Forgotten
  <2>3. /\ Cardinality(lost) <= Cardinality(Forgotten)
        /\ Cardinality(lost) \in Nat /\ Cardinality(Forgotten) \in Nat
    BY <1>1, <2>2, FS_Subset, FS_CardinalityType DEF ImageInv, Accidents
  <2>4. Cardinality(Orphans) \in Nat /\ crashes \in Nat
    BY <1>1, OrphansFinite, WorkerAssumption DEF TypeInv, RestOK
  <2> QED
    BY <1>1, <2>3, <2>4 DEF ImageInv, Accidents
<1> QED
    BY <1>1, TypeInvariant, ImageInvariant, PTL
=============================================================================
