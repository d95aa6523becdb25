-------------------------- MODULE ImgStorageProofs --------------------------
(***************************************************************************)
(* Proofs about ImgStorage, for any resolutions, any images, any number of *)
(* goroutines and of tasks.                                                *)
(***************************************************************************)
EXTENDS ImgStorage, SequenceTheorems, TLAPS

-----------------------------------------------------------------------------
(* Type correctness.                                                       *)

Active == [pc : {"list", "open", "write", "unlinked", "remove", "answered"},
           key : Keys, image : Images, names : SUBSET Images]

\* A goroutine of StoreHandler that is not idle has a file and the names it listed.
LEMMA StoreShape ==
    ASSUME store \in [Stores -> StoreState], NEW s \in Stores, store[s].pc # "idle"
    PROVE  store[s] \in Active /\ File(s) \in Files
<1>1. store[s] \in Active
  BY DEF StoreState, IdleStore, Active
<1>. QED  BY <1>1 DEF Active, File, Files

\* The worker between its tasks, at a check, and waiting for an answer.
LEMMA WorkerShape ==
    ASSUME worker \in WorkerState
    PROVE  /\ worker.pc \in {"idle", "redelivered", "check", "wait"}
           /\ worker.pc = "idle" => worker = IdleWorker
           /\ worker.pc \in {"check", "wait"} =>
                 /\ worker.image \in Images
                 /\ worker.keys \in Seq(Keys) /\ worker.keys # <<>> /\ Len(worker.keys) >= 1
                 /\ Key \in Keys /\ Key = worker.keys[1]
           /\ worker.pc = "wait" => worker.store \in Stores
<1>1. CASE worker = IdleWorker \/ worker = Redelivered
  BY <1>1 DEF IdleWorker, Redelivered
<1>2. CASE worker \in [pc : {"check"}, image : Images, keys : Seq(Keys) \ {<<>>}]
  BY <1>2 DEF Key
<1>3. CASE worker \in [pc : {"wait"},  image : Images, keys : Seq(Keys) \ {<<>>}, store : Stores]
  BY <1>3 DEF Key
<1>. QED  BY <1>1, <1>2, <1>3 DEF WorkerState

LEMMA KeysOfType ==
    ASSUME NEW i
    PROVE  KeysOf(i) \in Seq(Keys)
<1>1. <<Original>> \in Seq(Keys)
  BY DEF Keys
<1>. QED  BY <1>1, ImgAssumption DEF KeysOf

LEMMA NextKeyType ==
    ASSUME worker \in WorkerState, worker.pc \in {"check", "wait"}
    PROVE  NextKey \in WorkerState
<1>1. CASE Len(worker.keys) = 1
  BY <1>1 DEF NextKey, WorkerState
<1>2. CASE Len(worker.keys) # 1
  <2>1. worker.keys \in Seq(Keys) /\ worker.keys # <<>>
    BY WorkerShape
  <2>2. Tail(worker.keys) \in Seq(Keys) /\ Len(Tail(worker.keys)) = Len(worker.keys) - 1
    BY <2>1, HeadTailProperties
  <2>3. Len(Tail(worker.keys)) # 0
    BY <1>2, <2>1, <2>2, LenProperties
  <2>4. Tail(worker.keys) # <<>>
    BY <2>2, <2>3, EmptySeq
  <2>. QED  BY <1>2, <2>2, <2>4, WorkerShape DEF NextKey, WorkerState
<1>. QED  BY <1>1, <1>2

\* Any progress of a goroutine leaves it with its own file.
LEMMA StepType ==
    ASSUME store \in [Stores -> StoreState], NEW s \in Stores, store[s].pc # "idle",
           NEW pc \in {"open", "write", "remove", "answered"}, NEW names \in SUBSET Images,
           \/ Step(s, pc)
           \/ store' = [store EXCEPT ![s].pc = pc, ![s].names = names]
    PROVE  store' \in [Stores -> StoreState]
<1>1. store[s] \in Active
  BY StoreShape
<1>2. /\ [store[s] EXCEPT !.pc = pc] \in Active
      /\ [store[s] EXCEPT !.pc = pc, !.names = names] \in Active
  BY <1>1 DEF Active
<1>3. Active \subseteq StoreState
  BY DEF Active, StoreState
<1>. QED  BY <1>2, <1>3 DEF Step

LEMMA RacedType ==
    ASSUME load \in LoadState
    PROVE  Raced \in LoadState
<1>1. CASE load = IdleLoad
  BY <1>1 DEF Raced, IdleLoad
<1>2. CASE load \in [pc : {"found"}, asked : Keys, key : Keys, image : Images, raced : BOOLEAN]
  <2>1. (load.raced \/ Meets(load.asked)) \in BOOLEAN
    BY <1>2 DEF Meets, Storing
  <2>. QED  BY <1>2, <2>1 DEF Raced, LoadState
<1>. QED  BY <1>1, <1>2 DEF LoadState

\* A task under way is one of an image that has keys.
HasKeys == worker.pc \in {"check", "wait"} => KeysOf(worker.image) # <<>>

\* One step of the goroutine s of StoreHandler.
Works(s) == List(s) \/ Open(s) \/ Write(s) \/ Remove(s) \/ Return(s) \/ StoreFails(s)

LEMMA BoundType == MaxTasks \in Nat
BY ImgAssumption

LEMMA TypeInit ==
    ASSUME Init
    PROVE  TypeOK /\ HasKeys
<1>1. disk \in [Files -> {"absent", "partial", "whole"}]
  BY DEF Init
<1>2. store \in [Stores -> StoreState] /\ worker \in WorkerState /\ load \in LoadState
  BY DEF Init, StoreState, WorkerState, LoadState
<1>3. latest \in [Keys -> Images \cup {NoImage}] /\ faults \subseteq Faults
  BY DEF Init
<1>4. tasks \in 0 .. MaxTasks
  BY BoundType DEF Init
<1>. QED  BY <1>1, <1>2, <1>3, <1>4 DEF TypeOK, HasKeys, Init, IdleWorker

LEMMA StoreImgType ==
    ASSUME TypeOK, StoreImg
    PROVE  TypeOK'
<1>. PICK s \in Stores : Works(s) \/ Forget(s)
  BY DEF StoreImg, Works
<1>0. store[s] \in Active /\ File(s) \in Files /\ Raced \in LoadState
  BY StoreShape, RacedType DEF TypeOK, Works, List, Open, Write, Remove, Return, StoreFails, Forget
<1>. USE <1>0 DEF TypeOK, Active
<1>1. CASE List(s)
  <2>1. OnDisk(store[s].key) \in SUBSET Images /\ store[s].pc # "idle"
    BY <1>1 DEF List, OnDisk
  <2>2. store' = [store EXCEPT ![s].pc = "open", ![s].names = OnDisk(store[s].key)]
    BY <1>1 DEF List
  <2>3. store' \in [Stores -> StoreState]
    BY <2>1, <2>2, StepType
  <2>. QED  BY <1>1, <2>3 DEF List
<1>2. CASE Open(s)
  BY <1>2, StepType DEF Open
<1>3. CASE Write(s)
  BY <1>3, StepType DEF Write
<1>4. CASE Remove(s)
  <2>1. PICK i \in store[s].names :
           /\ disk' = [disk EXCEPT ![<<store[s].key, i>>] = "absent"]
           /\ store' = [t \in Stores |->
                 IF t = s THEN [store[s] EXCEPT !.names = @ \ {i}]
                 ELSE IF Writes(t, <<store[s].key, i>>) THEN [store[t] EXCEPT !.pc = "unlinked"]
                 ELSE store[t]]
    BY <1>4 DEF Remove
  <2>2. [store[s] EXCEPT !.names = @ \ {i}] \in Active
    OBVIOUS
  <2>3. ASSUME NEW t \in Stores, Writes(t, <<store[s].key, i>>)
        PROVE  [store[t] EXCEPT !.pc = "unlinked"] \in Active
    <3>1. store[t] \in Active
      BY <2>3, StoreShape DEF Writes
    <3>. QED  BY <3>1
  <2>4. Active \subseteq StoreState
    BY DEF StoreState
  <2>5. store' \in [Stores -> StoreState]
    <3>. HIDE DEF Active
    <3>. QED  BY <2>1, <2>2, <2>3, <2>4
  <2>6. disk' \in [Files -> {"absent", "partial", "whole"}]
    BY <2>1
  <2>. QED  BY <1>4, <2>5, <2>6 DEF Remove
<1>5. CASE Return(s)
  BY <1>5, StepType DEF Return
<1>6. CASE StoreFails(s)
  BY <1>6, StepType DEF StoreFails, Fault
<1>7. CASE Forget(s)
  BY <1>7 DEF Forget, StoreState
<1>. QED  BY <1>1, <1>2, <1>3, <1>4, <1>5, <1>6, <1>7 DEF Works

LEMMA WorkerType ==
    ASSUME TypeOK, HasKeys, Worker
    PROVE  TypeOK'
<1>. USE WorkerShape DEF TypeOK, Fault
<1>1. CASE TakeTask
  <2>1. tasks' \in 0 .. MaxTasks
    BY <1>1, BoundType DEF TakeTask
  <2>2. \A i : KeysOf(i) \in Seq(Keys)
    BY KeysOfType
  <2>3. \/ worker' = IdleWorker
        \/ \E i \in Images : /\ KeysOf(i) # <<>>
                             /\ worker' = [pc |-> "check", image |-> i, keys |-> KeysOf(i)]
    BY <1>1 DEF TakeTask
  <2>4. worker' \in WorkerState
    BY <2>2, <2>3 DEF WorkerState
  <2>. QED  BY <1>1, <2>1, <2>4 DEF TakeTask
<1>2. CASE CheckExists
  BY <1>2, NextKeyType DEF CheckExists
<1>3. CASE Send
  <2>1. PICK s \in Stores :
           /\ store' = [store EXCEPT ![s] =
                 [pc |-> "list", key |-> Key, image |-> worker.image, names |-> {}]]
           /\ worker' = [pc |-> "wait", image |-> worker.image, keys |-> worker.keys, store |-> s]
    BY <1>3 DEF Send
  <2>2. store' \in [Stores -> StoreState]
    BY <1>3, <2>1 DEF Send, StoreState
  <2>3. worker' \in WorkerState
    BY <1>3, <2>1 DEF Send, WorkerState
  <2>. QED  BY <1>3, <2>2, <2>3 DEF Send
<1>4. CASE Stored
  BY <1>4, NextKeyType DEF Stored, StoreState
<1>5. CASE SendTimesOut
  BY <1>5 DEF SendTimesOut, WorkerState
<1>6. CASE WorkerCrash
  BY <1>6 DEF WorkerCrash, WorkerState
<1>. QED  BY <1>1, <1>2, <1>3, <1>4, <1>5, <1>6 DEF Worker

LEMMA WorkerFrame ==
    ASSUME [Next]_vars
    PROVE  worker' = worker \/ Worker \/ Crash
BY DEF Next, vars, StoreImg, List, Open, Write, Remove, Return, StoreFails, Forget, Find, Serve

LEMMA KeysStep ==
    ASSUME TypeOK, HasKeys, [Next]_vars
    PROVE  HasKeys'
<1>. USE DEF HasKeys
<1>1. CASE worker' = worker
  BY <1>1 DEF KeysOf
<1>2. CASE TakeTask
  BY <1>2 DEF TakeTask, IdleWorker, KeysOf
<1>3. CASE CheckExists \/ Stored
  BY <1>3 DEF CheckExists, Stored, NextKey, IdleWorker, KeysOf
<1>4. CASE Send
  <2>1. worker.pc = "check" /\ worker'.image = worker.image
    BY <1>4 DEF Send
  <2>. QED  BY <2>1 DEF KeysOf
<1>5. CASE SendTimesOut \/ Crash
  <2>1. worker' = IdleWorker \/ worker' = worker
    BY <1>5 DEF SendTimesOut, Crash
  <2>. QED  BY <1>1, <2>1 DEF IdleWorker
<1>6. CASE WorkerCrash
  BY <1>6 DEF WorkerCrash, Redelivered
<1>. QED  BY WorkerFrame, <1>1, <1>2, <1>3, <1>4, <1>5, <1>6 DEF Worker

LEMMA TypeStep ==
    ASSUME TypeOK, HasKeys, [Next]_vars
    PROVE  TypeOK'
<1>1. CASE UNCHANGED vars
  BY <1>1 DEF vars, TypeOK
<1>2. CASE Find
  <2>1. PICK k \in Keys : \E i \in OnDisk(LoadKey(k)) :
           load' = [pc |-> "found", asked |-> k, key |-> LoadKey(k), image |-> i, raced |-> Meets(k)]
    BY <1>2 DEF Find
  <2>2. Original \in Keys
    BY DEF Keys
  <2>3. LoadKey(k) \in Keys /\ Meets(k) \in BOOLEAN
    BY <2>2 DEF LoadKey, Meets, Storing
  <2>4. load' \in LoadState
    BY <2>1, <2>3 DEF LoadState, OnDisk
  <2>. QED  BY <1>2, <2>4 DEF Find, TypeOK
<1>3. CASE Serve
  BY <1>3 DEF Serve, TypeOK, LoadState
<1>4. CASE Crash
  BY <1>4, WorkerShape DEF Crash, Fault, TypeOK, StoreState, WorkerState, LoadState
<1>. QED  BY <1>1, <1>2, <1>3, <1>4, StoreImgType, WorkerType DEF Next

\* The storage and its clients are type correct; the worker never runs out of the
\* resolutions of a task, and a goroutine touches files of its own key only.
THEOREM TypeCorrect == Spec => [](TypeOK /\ HasKeys)
<1>1. Init => TypeOK /\ HasKeys
  BY TypeInit
<1>2. TypeOK /\ HasKeys /\ [Next]_vars => TypeOK' /\ HasKeys'
  BY TypeStep, KeysStep
<1>. QED  BY <1>1, <1>2, PTL DEF Spec

-----------------------------------------------------------------------------
(* An image is kept through every death of the storage.                    *)

\* Unless a client gave up or the worker died, the only store is the one that the
\* worker waits for.
OneStore ==
    /\ \A s \in Stores : store[s].pc # "idle" =>
          worker.pc = "wait" /\ worker.store = s /\ store[s].key = Key /\ store[s].image = worker.image
    /\ worker.pc = "wait" => store[worker.store].pc # "idle"

\* A store that began because its file was not there removes others only.
RemovesOthers(s) ==
    /\ store[s].pc \in {"list", "open"} => disk[File(s)] = "absent"
    /\ store[s].pc \in {"open", "write", "remove"} => store[s].image \notin store[s].names
    /\ store[s].pc = "remove" => disk[File(s)] = "whole"
    /\ store[s].pc # "unlinked"

NeverItsOwn == \A s \in Stores : RemovesOthers(s)

KeptInv == faults \subseteq {"crash", "store"} => OneStore /\ NeverItsOwn

LEMMA FaultsGrow ==
    ASSUME [Next]_vars
    PROVE  faults \subseteq faults'
BY DEF Next, vars, Worker, StoreImg, List, Open, Write, Remove, Return, StoreFails, Forget, Find, Serve, Crash,
       TakeTask, CheckExists, Send, Stored, SendTimesOut, WorkerCrash, Fault

\* What a step of the only goroutine leaves.
LEMMA StoreFrame ==
    ASSUME TypeOK, OneStore, NEW s \in Stores, Works(s)
    PROVE  /\ store[s] \in Active /\ store[s].pc # "idle" /\ store'[s].pc # "idle"
           /\ store'[s].key = store[s].key /\ store'[s].image = store[s].image
           /\ \A t \in Stores \ {s} : store'[t] = store[t]
           /\ UNCHANGED <<worker, latest, tasks>>
           /\ \A k \in Keys, i \in Images : k # store[s].key => disk'[<<k, i>>] = disk[<<k, i>>]
<1>1. store[s].pc # "idle"
  BY DEF Works, List, Open, Write, Remove, Return, StoreFails
<1>2. store[s] \in Active
  BY <1>1, StoreShape DEF TypeOK
<1>. USE <1>1, <1>2 DEF Active, TypeOK, File, Files
<1>3. CASE List(s)
  BY <1>3 DEF List
<1>4. CASE Open(s)
  BY <1>4 DEF Open, Step
<1>5. CASE Write(s)
  BY <1>5 DEF Write, Step
<1>6. CASE Remove(s)
  <2>1. \A t \in Stores \ {s} : store[t].pc = "idle"
    BY DEF OneStore
  <2>. QED  BY <1>6, <2>1 DEF Remove, Writes
<1>7. CASE Return(s)
  BY <1>7 DEF Return, Step
<1>8. CASE StoreFails(s)
  BY <1>8 DEF StoreFails, Step
<1>. QED  BY <1>3, <1>4, <1>5, <1>6, <1>7, <1>8 DEF Works

\* The step of the only goroutine: still the only one, and with its own file last.
LEMMA KeptStoreStep ==
    ASSUME TypeOK, OneStore, NeverItsOwn,
           NEW s \in Stores, Works(s)
    PROVE  OneStore' /\ NeverItsOwn'
<1>1. OneStore'
  BY StoreFrame DEF OneStore, Key
<1>2. \A t \in Stores \ {s} : store'[t].pc = "idle"
  BY StoreFrame DEF OneStore
<1>3. /\ File(s) \in Files /\ File(s)' = File(s) /\ File(s) = <<store[s].key, store[s].image>>
      /\ store'[s].image = store[s].image /\ store[s].image \in Images
      /\ disk \in [Files -> {"absent", "partial", "whole"}] /\ store \in [Stores -> StoreState]
  BY StoreFrame, StoreShape DEF TypeOK, File, Active
<1>4. RemovesOthers(s)
  BY DEF NeverItsOwn
<1>. SUFFICES RemovesOthers(s)'
  BY <1>1, <1>2 DEF NeverItsOwn, RemovesOthers
<1>. USE DEF RemovesOthers
<1>5. CASE List(s)
  <2>1. store'[s].pc = "open" /\ store'[s].names = OnDisk(store[s].key) /\ disk' = disk
    BY <1>3, <1>5 DEF List
  <2>. QED  BY <1>3, <1>4, <1>5, <2>1 DEF List, OnDisk
<1>6. CASE Open(s)
  <2>1. store'[s].pc = "write" /\ store'[s].names = store[s].names /\ store[s].pc = "open"
    BY <1>3, <1>6 DEF Open, Step
  <2>. QED  BY <1>3, <1>4, <2>1
<1>7. CASE Write(s)
  <2>1. store'[s].pc = "remove" /\ store'[s].names = store[s].names /\ store[s].pc = "write"
    BY <1>3, <1>4, <1>7 DEF Write, Step
  <2>2. disk'[File(s)] = "whole"
    BY <1>3, <1>7, <2>1 DEF Write
  <2>. QED  BY <1>3, <1>4, <2>1, <2>2
<1>8. CASE Remove(s)
  <2>1. PICK i \in store[s].names :
           /\ disk' = [disk EXCEPT ![<<store[s].key, i>>] = "absent"]
           /\ store'[s] = [store[s] EXCEPT !.names = @ \ {i}]
    BY <1>8 DEF Remove
  <2>2. store'[s].pc = "remove" /\ store'[s].names = store[s].names \ {i} /\ store[s].pc = "remove"
    BY <1>3, <1>8, <2>1, StoreShape DEF Remove, Active
  <2>3. disk'[File(s)] = "whole"
    BY <1>3, <1>4, <2>1, <2>2
  <2>. QED  BY <1>3, <1>4, <2>2, <2>3
<1>9. CASE Return(s)
  <2>1. store'[s].pc = "answered" /\ store[s].pc = "remove" /\ disk' = disk
    BY <1>3, <1>9 DEF Return, Step
  <2>. QED  BY <1>3, <1>4, <2>1
<1>10. CASE StoreFails(s)
  BY <1>3, <1>10 DEF StoreFails, Step
<1>. QED  BY <1>5, <1>6, <1>7, <1>8, <1>9, <1>10 DEF Works

LEMMA KeptStep ==
    ASSUME TypeOK, KeptInv, faults' \subseteq {"crash", "store"}, [Next]_vars
    PROVE  OneStore' /\ NeverItsOwn'
<1>. OneStore /\ NeverItsOwn
  BY FaultsGrow DEF KeptInv
<1>1. CASE UNCHANGED <<disk, store, worker>>
  BY <1>1 DEF OneStore, NeverItsOwn, RemovesOthers, File, Key
<1>2. CASE \E s \in Stores : Works(s)
  BY <1>2, KeptStoreStep
<1>3. ASSUME NEW s \in Stores, Forget(s)  PROVE FALSE
  BY <1>3 DEF Forget, OneStore
<1>4. CASE TakeTask
  BY <1>4 DEF TakeTask, OneStore, NeverItsOwn, RemovesOthers, File, IdleWorker
<1>5. CASE CheckExists
  BY <1>5 DEF CheckExists, NextKey, OneStore, NeverItsOwn, RemovesOthers, File, IdleWorker
<1>6. CASE Send
  <2>1. PICK s \in Stores :
           /\ store' = [store EXCEPT ![s] =
                 [pc |-> "list", key |-> Key, image |-> worker.image, names |-> {}]]
           /\ worker' = [pc |-> "wait", image |-> worker.image, keys |-> worker.keys, store |-> s]
    BY <1>6 DEF Send
  <2>2. worker.pc = "check" /\ disk[<<Key, worker.image>>] = "absent" /\ disk' = disk
    BY <1>6 DEF Send, Fault, Exists
  <2>3. \A t \in Stores : store[t].pc = "idle"
    BY <2>2 DEF OneStore
  <2>. QED  BY <2>1, <2>2, <2>3 DEF TypeOK, OneStore, NeverItsOwn, RemovesOthers, File, Key
<1>7. CASE Stored
  <2>1. \A t \in Stores : store'[t].pc = "idle"
    BY <1>7, WorkerShape DEF Stored, OneStore, TypeOK, IdleStore
  <2>2. worker'.pc # "wait"
    BY <1>7 DEF Stored, NextKey, IdleWorker
  <2>. QED  BY <2>1, <2>2 DEF OneStore, NeverItsOwn, RemovesOthers
<1>8. ~SendTimesOut /\ ~WorkerCrash
  BY DEF SendTimesOut, WorkerCrash, Fault
<1>9. CASE Crash
  <2>1. \A t \in Stores : store'[t].pc = "idle"
    BY <1>9 DEF Crash, IdleStore
  <2>2. worker'.pc # "wait"
    BY <1>9 DEF Crash, IdleWorker
  <2>. QED  BY <2>1, <2>2 DEF OneStore, NeverItsOwn, RemovesOthers
<1>. QED
  BY <1>1, <1>2, <1>3, <1>4, <1>5, <1>6, <1>7, <1>8, <1>9
  DEF Next, vars, StoreImg, Works, Worker, Find, Serve

\* No store begins over a file it has listed, unless a check failed, a client gave up
\* or the worker died.
THEOREM KeptInvariant == Spec => []KeptInv
<1>1. Init => KeptInv
  BY DEF Init, KeptInv, OneStore, NeverItsOwn, RemovesOthers, IdleStore, IdleWorker
<1>2. TypeOK /\ KeptInv /\ [Next]_vars => KeptInv'
  BY KeptStep DEF KeptInv
<1>. QED  BY <1>1, <1>2, TypeCorrect, PTL DEF Spec

\* Whenever the storage dies, a resolution that had a complete image has one.
THEOREM ImagesKept == Spec => ImageKept
<1>1. ASSUME TypeOK, KeptInv, [Next]_vars, faults' \subseteq {"crash", "store"}, NEW k \in Keys, HasWhole(k)
      PROVE  HasWhole(k)'
  <2>. NeverItsOwn
    BY <1>1, FaultsGrow DEF KeptInv
  <2>1. PICK i \in Images : disk[<<k, i>>] = "whole"
    BY <1>1 DEF HasWhole
  <2>2. CASE disk' = disk
    BY <2>1, <2>2 DEF HasWhole
  <2>3. ASSUME NEW s \in Stores, Open(s) \/ Write(s)  PROVE HasWhole(k)'
    <3>1. store[s] \in Active /\ File(s) \in Files
      BY <1>1, <2>3, StoreShape DEF TypeOK, Open, Write
    <3>2. Open(s) => disk[File(s)] = "absent"
      BY DEF Open, NeverItsOwn, RemovesOthers
    <3>. QED  BY <1>1, <2>1, <2>3, <3>1, <3>2 DEF Open, Write, HasWhole, TypeOK, Files
  <2>4. ASSUME NEW s \in Stores, Remove(s)  PROVE HasWhole(k)'
    <3>1. store[s] \in Active /\ File(s) \in Files
      BY <1>1, <2>4, StoreShape DEF TypeOK, Remove
    <3>2. PICK n \in store[s].names : disk' = [disk EXCEPT ![<<store[s].key, n>>] = "absent"]
      BY <2>4 DEF Remove
    <3>3. disk[File(s)] = "whole" /\ store[s].image # n
      BY <2>4, <3>2 DEF Remove, NeverItsOwn, RemovesOthers
    <3>4. CASE k = store[s].key
      BY <1>1, <3>1, <3>2, <3>3, <3>4 DEF HasWhole, File, TypeOK, Active
    <3>5. CASE k # store[s].key
      BY <1>1, <2>1, <3>2, <3>5 DEF HasWhole, TypeOK, Files
    <3>. QED  BY <3>4, <3>5
  <2>. QED
    BY <1>1, <2>2, <2>3, <2>4
    DEF Next, vars, StoreImg, Worker, Find, Serve, Crash, List, Return, StoreFails, Forget,
        TakeTask, CheckExists, Send, Stored, SendTimesOut, WorkerCrash
<1>2. TypeOK /\ KeptInv /\ [Next]_vars =>
         [faults' \subseteq {"crash", "store"} => \A k \in Keys : HasWhole(k) => HasWhole(k)']_vars
  BY <1>1
<1>. QED  BY <1>2, TypeCorrect, KeptInvariant, PTL DEF Spec, ImageKept

-----------------------------------------------------------------------------
(* When nothing fails.                                                     *)

\* The file of k is the image last taken for stored, if there is one.
Clean(k) ==
    /\ OnDisk(k) = {latest[k]} \ {NoImage}
    /\ \A i \in OnDisk(k) : disk[<<k, i>>] = "whole"

\* A store at work has, under its key, what it listed and its own file.
TidyAt(s) ==
    /\ store[s].pc \in {"list", "open"} => Clean(store[s].key)
    /\ store[s].pc = "open" => store[s].names = OnDisk(store[s].key)
    /\ store[s].pc \in {"write", "remove"} =>
          OnDisk(store[s].key) = store[s].names \cup {store[s].image}
    /\ store[s].pc = "answered" => OnDisk(store[s].key) = {store[s].image} /\ disk[File(s)] = "whole"

\* Where no store is at work all is clean.
Tidy ==
    /\ \A k \in Keys : ~Storing(k) => Clean(k)
    /\ \A s \in Stores : TidyAt(s)

TidyInv == faults = {} => Tidy

LEMMA NoImageType == NoImage \notin Images
BY ImgAssumption

LEMMA OriginalType == Original \in Keys
BY DEF Keys

\* One goroutine at work: the only key that is being stored is its own.
LEMMA OnlyStoring ==
    ASSUME OneStore, NEW s \in Stores, store[s].pc # "idle"
    PROVE  \A k : Storing(k) <=> k = store[s].key
BY DEF OneStore, Storing

\* A step of the goroutine leaves the other keys as they are.
LEMMA TidyOthers ==
    ASSUME TypeOK, OneStore, OneStore', Tidy,
           NEW s \in Stores, Works(s)
    PROVE  /\ \A k \in Keys : ~Storing(k)' => Clean(k)'
           /\ \A t \in Stores \ {s} : store'[t].pc = "idle"
<1>1. /\ store[s].pc # "idle" /\ store'[s].pc # "idle" /\ store'[s].key = store[s].key
      /\ \A t \in Stores \ {s} : store'[t] = store[t]
      /\ latest' = latest
      /\ \A k \in Keys, i \in Images : k # store[s].key => disk'[<<k, i>>] = disk[<<k, i>>]
  BY StoreFrame
<1>2. \A t \in Stores \ {s} : store'[t].pc = "idle"
  BY <1>1 DEF OneStore
<1>3. ASSUME NEW k \in Keys, ~Storing(k)'  PROVE Clean(k)'
  <2>1. k # store[s].key
    BY <1>1, <1>3 DEF Storing
  <2>2. Clean(k)
    BY <1>1, <2>1, OnlyStoring DEF Tidy
  <2>3. OnDisk(k)' = OnDisk(k) /\ \A i \in OnDisk(k) : disk'[<<k, i>>] = disk[<<k, i>>]
    BY <1>1, <2>1 DEF OnDisk
  <2>. QED  BY <1>1, <2>2, <2>3 DEF Clean
<1>. QED  BY <1>2, <1>3

\* What is on the disk under the key of s after it changed the file f.
LEMMA DiskAfter ==
    ASSUME disk \in [Files -> {"absent", "partial", "whole"}], NEW k \in Keys, NEW i \in Images,
           NEW v \in {"absent", "partial", "whole"}, disk' = [disk EXCEPT ![<<k, i>>] = v]
    PROVE  OnDisk(k)' = IF v = "absent" THEN OnDisk(k) \ {i} ELSE OnDisk(k) \cup {i}
<1>1. \A j \in Images : disk'[<<k, j>>] = IF j = i THEN v ELSE disk[<<k, j>>]
  BY DEF Files
<1>. QED  BY <1>1 DEF OnDisk

LEMMA TidyStoreStep ==
    ASSUME TypeOK, OneStore, OneStore', NeverItsOwn, Tidy, faults' = {},
           NEW s \in Stores, Works(s)
    PROVE  Tidy'
<1>1. /\ store[s] \in Active /\ store'[s].key = store[s].key /\ store'[s].image = store[s].image
      /\ latest' = latest
  BY StoreFrame
<1>2. /\ store[s].key \in Keys /\ store[s].image \in Images /\ store[s].names \subseteq Images
      /\ disk \in [Files -> {"absent", "partial", "whole"}] /\ store \in [Stores -> StoreState]
  BY <1>1 DEF Active, TypeOK
<1>3. TidyAt(s) /\ RemovesOthers(s)
  BY DEF Tidy, NeverItsOwn
<1>. SUFFICES TidyAt(s)'
  BY TidyOthers DEF Tidy, TidyAt
<1>4. CASE List(s)
  <2>1. /\ store[s].pc = "list" /\ disk' = disk
        /\ store'[s].pc = "open" /\ store'[s].names = OnDisk(store[s].key)
    BY <1>1, <1>2, <1>4 DEF List, Active
  <2>2. OnDisk(store[s].key)' = OnDisk(store[s].key)
    BY <1>1, <2>1 DEF OnDisk
  <2>3. Clean(store[s].key)'
    BY <1>1, <1>3, <2>1, <2>2 DEF TidyAt, Clean
  <2>. QED  BY <1>1, <2>1, <2>2, <2>3 DEF TidyAt
<1>5. CASE Open(s)
  <2>1. /\ store[s].pc = "open" /\ disk' = [disk EXCEPT ![<<store[s].key, store[s].image>>] = "partial"]
        /\ store'[s].pc = "write" /\ store'[s].names = store[s].names
    BY <1>1, <1>2, <1>5 DEF Open, Step, File, Active
  <2>2. OnDisk(store[s].key)' = OnDisk(store[s].key) \cup {store[s].image}
    BY <1>1, <1>2, <2>1, DiskAfter
  <2>. QED  BY <1>1, <1>3, <2>1, <2>2 DEF TidyAt
<1>6. CASE Write(s)
  <2>1. /\ store[s].pc = "write" /\ disk' = [disk EXCEPT ![<<store[s].key, store[s].image>>] = "whole"]
        /\ store'[s].pc = "remove" /\ store'[s].names = store[s].names
    BY <1>1, <1>2, <1>3, <1>6 DEF Write, Step, File, Active, RemovesOthers
  <2>2. OnDisk(store[s].key)' = OnDisk(store[s].key) \cup {store[s].image}
    BY <1>1, <1>2, <2>1, DiskAfter
  <2>. QED  BY <1>1, <1>3, <2>1, <2>2 DEF TidyAt
<1>7. CASE Remove(s)
  <2>1. PICK i \in store[s].names :
           /\ disk' = [disk EXCEPT ![<<store[s].key, i>>] = "absent"]
           /\ store'[s] = [store[s] EXCEPT !.names = @ \ {i}]
    BY <1>7 DEF Remove
  <2>2. store[s].pc = "remove" /\ store'[s].pc = "remove" /\ store'[s].names = store[s].names \ {i}
    BY <1>1, <1>2, <1>7, <2>1 DEF Remove, Active
  <2>3. OnDisk(store[s].key)' = OnDisk(store[s].key) \ {i}
    BY <1>1, <1>2, <2>1, DiskAfter
  <2>4. store[s].image # i
    BY <1>3, <2>2 DEF RemovesOthers
  <2>. QED  BY <1>1, <1>3, <2>2, <2>3, <2>4 DEF TidyAt
<1>8. CASE Return(s)
  <2>1. store[s].pc = "remove" /\ disk' = disk /\ store'[s].pc = "answered"
    BY <1>1, <1>2, <1>8 DEF Return, Step, Active
  <2>2. OnDisk(store[s].key)' = OnDisk(store[s].key)
    BY <1>1, <2>1 DEF OnDisk
  <2>3. OnDisk(store[s].key) = store[s].names \cup {store[s].image}
    BY <1>3, <2>1 DEF TidyAt
  <2>4. \A i \in store[s].names : disk[<<store[s].key, i>>] # "absent"
    BY <2>3 DEF OnDisk
  <2>5. store[s].names = {}
    BY <1>8, <2>4 DEF Return
  <2>6. disk'[File(s)'] = "whole"
    BY <1>1, <1>3, <2>1 DEF RemovesOthers, File
  <2>. QED  BY <1>1, <2>1, <2>2, <2>3, <2>5, <2>6 DEF TidyAt, File
<1>. ~StoreFails(s)
  BY DEF StoreFails, Fault
<1>. QED  BY <1>4, <1>5, <1>6, <1>7, <1>8 DEF Works

\* The answer of the check is right: the image it finds is the one last stored.
LEMMA CheckIsRight ==
    ASSUME TypeOK, OneStore, Tidy, CheckExists
    PROVE  latest' = latest
<1>1. /\ Key \in Keys /\ worker.image \in Images /\ worker.pc = "check"
      /\ latest \in [Keys -> Images \cup {NoImage}]
  BY WorkerShape DEF TypeOK, CheckExists
<1>2. worker.image \in OnDisk(Key)
  BY <1>1 DEF CheckExists, Exists, OnDisk
<1>3. Clean(Key)
  BY <1>1 DEF OneStore, Tidy, Storing
<1>4. worker.image = latest[Key]
  BY <1>2, <1>3 DEF Clean
<1>. QED  BY <1>1, <1>4 DEF CheckExists

LEMMA TidyStep ==
    ASSUME TypeOK, OneStore, OneStore', NeverItsOwn, Tidy, [Next]_vars, faults' = {}
    PROVE  Tidy'
<1>1. CASE UNCHANGED <<disk, store, latest>>
  BY <1>1 DEF Tidy, TidyAt, Storing, Clean, OnDisk, File
<1>2. CASE \E s \in Stores : Works(s)
  BY <1>2, TidyStoreStep
<1>3. ASSUME NEW s \in Stores, Forget(s)  PROVE FALSE
  BY <1>3 DEF Forget, OneStore
<1>4. CASE CheckExists
  BY <1>1, <1>4, CheckIsRight DEF CheckExists
<1>5. CASE Send
  <2>1. PICK s \in Stores :
           store' = [store EXCEPT ![s] =
              [pc |-> "list", key |-> Key, image |-> worker.image, names |-> {}]]
    BY <1>5 DEF Send
  <2>2. worker.pc = "check" /\ disk' = disk /\ latest' = latest /\ Key \in Keys
    BY <1>5, WorkerShape DEF Send, TypeOK
  <2>3. \A t \in Stores : store[t].pc = "idle"
    BY <2>2 DEF OneStore
  <2>4. \A k \in Keys : Clean(k)'
    BY <2>2, <2>3 DEF Tidy, Storing, Clean, OnDisk
  <2>5. /\ store'[s].pc = "list" /\ store'[s].key = Key
        /\ \A t \in Stores \ {s} : store'[t].pc = "idle"
    BY <2>1, <2>3 DEF TypeOK
  <2>. QED  BY <2>2, <2>4, <2>5 DEF Tidy, TidyAt
<1>6. CASE Stored
  <2>1. /\ worker.store \in Stores /\ store[worker.store].pc = "answered" /\ worker.pc = "wait"
        /\ store[worker.store].key = Key /\ store[worker.store].image = worker.image
        /\ Key \in Keys /\ worker.image \in Images /\ disk' = disk
        /\ latest' = [latest EXCEPT ![Key] = worker.image]
        /\ latest \in [Keys -> Images \cup {NoImage}]
    BY <1>6, WorkerShape DEF Stored, OneStore, TypeOK
  <2>2. \A t \in Stores : store'[t].pc = "idle"
    BY <1>6, <2>1 DEF Stored, OneStore, TypeOK, IdleStore
  <2>3. OnDisk(Key) = {worker.image} /\ disk[<<Key, worker.image>>] = "whole"
    BY <2>1 DEF Tidy, TidyAt, File
  <2>4. ASSUME NEW k \in Keys  PROVE Clean(k)'
    <3>1. OnDisk(k)' = OnDisk(k)
      BY <2>1 DEF OnDisk
    <3>2. CASE k = Key
      BY <2>1, <2>3, <3>1, <3>2, NoImageType DEF Clean
    <3>3. CASE k # Key
      <4>1. Clean(k)
        BY <2>1, <3>3, OnlyStoring DEF Tidy
      <4>. QED  BY <2>1, <3>1, <3>3, <4>1 DEF Clean
    <3>. QED  BY <3>2, <3>3
  <2>. QED  BY <2>2, <2>4 DEF Tidy, TidyAt
<1>7. CASE TakeTask
  BY <1>1, <1>7 DEF TakeTask
<1>8. ~SendTimesOut /\ ~WorkerCrash /\ ~Crash
  BY DEF SendTimesOut, WorkerCrash, Crash, Fault
<1>. QED
  BY <1>1, <1>2, <1>3, <1>4, <1>5, <1>6, <1>7, <1>8
  DEF Next, vars, StoreImg, Works, Worker, Find, Serve

THEOREM TidyInvariant == Spec => []TidyInv
<1>1. Init => TidyInv
  <2>. SUFFICES ASSUME Init  PROVE Tidy
    BY DEF TidyInv
  <2>1. \A k \in Keys : OnDisk(k) = {} /\ latest[k] = NoImage
    BY DEF Init, OnDisk, Files
  <2>2. \A s \in Stores : store[s].pc = "idle"
    BY DEF Init, IdleStore
  <2>. QED  BY <2>1, <2>2 DEF Tidy, TidyAt, Clean
<1>2. TypeOK /\ KeptInv /\ TidyInv /\ [Next]_vars => TidyInv'
  <2>. SUFFICES ASSUME TypeOK, KeptInv, TidyInv, [Next]_vars, faults' = {}  PROVE Tidy'
    BY DEF TidyInv
  <2>1. faults = {} /\ faults' \subseteq {"crash", "store"}
    BY FaultsGrow
  <2>2. OneStore /\ NeverItsOwn /\ Tidy /\ OneStore'
    BY <2>1, KeptStep DEF KeptInv, TidyInv
  <2>. QED  BY <2>2, TidyStep
<1>. QED  BY <1>1, <1>2, TypeCorrect, KeptInvariant, PTL DEF Spec

\* As long as nothing fails, every resolution that is not being stored has one file, the
\* whole image that was stored there last.
THEOREM LatestOnDisk == Spec => []LastImageStored
<1>1. TidyInv => LastImageStored
  BY DEF TidyInv, Tidy, Clean, LastImageStored
<1>. QED  BY <1>1, TidyInvariant, PTL

Serves ==
    /\ load.key \in {load.asked, Original}
    /\ disk[<<load.key, load.image>>] = "whole" /\ load.image = latest[load.key]
    /\ load.key = load.asked \/ latest[load.asked] = NoImage

\* What a load has found is right as long as it met no store; a store that it has
\* not met yet has done nothing.
LoadInv ==
    faults = {} /\ load.pc = "found" /\ ~load.raced =>
        /\ Serves
        /\ \A s \in Stores :
              store[s].pc # "idle" /\ store[s].key \in {load.asked, Original} => store[s].pc = "list"

\* A load under way outlives a step of the storage, and knows whether it met it.
LEMMA LoadMet ==
    ASSUME load.pc = "found", load \in LoadState, load' = Raced, ~load'.raced
    PROVE  /\ ~load.raced /\ ~Meets(load.asked)
           /\ \A field \in {"asked", "key", "image"} : load'[field] = load[field]
<1>1. load \in [pc : {"found"}, asked : Keys, key : Keys, image : Images, raced : BOOLEAN]
  BY DEF LoadState, IdleLoad
<1>. QED  BY <1>1 DEF Raced

LEMMA LoadInvStep ==
    ASSUME TypeOK, OneStore, Tidy, LoadInv, [Next]_vars, faults = {}, faults' = {}
    PROVE  LoadInv'
<1>. SUFFICES ASSUME load'.pc = "found", ~load'.raced
              PROVE  /\ Serves'
                     /\ \A s \in Stores :
                           store'[s].pc # "idle" /\ store'[s].key \in {load'.asked, Original}
                           => store'[s].pc = "list"
  BY DEF LoadInv
<1>1. CASE UNCHANGED <<disk, store, latest, load>>
  BY <1>1 DEF LoadInv, Serves
<1>2. CASE \E s \in Stores : Works(s)
  <2>1. PICK s \in Stores : Works(s)
    BY <1>2
  <2>2. load' = Raced /\ load \in LoadState
    BY <2>1 DEF Works, List, Open, Write, Remove, Return, StoreFails, TypeOK
  <2>3. load.pc = "found"
    BY <2>2 DEF Raced
  <2>4. /\ ~load.raced /\ ~Meets(load.asked)
        /\ load'.asked = load.asked /\ load'.key = load.key /\ load'.image = load.image
    BY <2>2, <2>3, LoadMet
  <2>5. load.key \in Keys /\ load.image \in Images
    BY <2>2, <2>3 DEF LoadState, IdleLoad
  <2>6. /\ store[s].pc # "idle" /\ store'[s].key = store[s].key
        /\ \A t \in Stores \ {s} : store'[t] = store[t]
        /\ latest' = latest
        /\ \A k \in Keys, i \in Images : k # store[s].key => disk'[<<k, i>>] = disk[<<k, i>>]
    BY <2>1, StoreFrame
  <2>7. store[s].key \notin {load.asked, Original}
    BY <2>4, <2>6 DEF Meets, Storing
  <2>8. Serves /\ \A t \in Stores :
           store[t].pc # "idle" /\ store[t].key \in {load.asked, Original} => store[t].pc = "list"
    BY <2>3, <2>4 DEF LoadInv
  <2>9. Serves'
    BY <2>4, <2>5, <2>6, <2>7, <2>8 DEF Serves
  <2>. QED  BY <2>4, <2>6, <2>7, <2>8, <2>9
<1>3. ASSUME NEW s \in Stores, Forget(s)  PROVE FALSE
  BY <1>3 DEF Forget, OneStore
<1>4. CASE Find
  <2>1. PICK k \in Keys : \E i \in OnDisk(LoadKey(k)) :
           load' = [pc |-> "found", asked |-> k, key |-> LoadKey(k), image |-> i, raced |-> Meets(k)]
    BY <1>4 DEF Find
  <2>2. PICK i \in OnDisk(LoadKey(k)) :
           load' = [pc |-> "found", asked |-> k, key |-> LoadKey(k), image |-> i, raced |-> Meets(k)]
    BY <2>1
  <2>3. ~Storing(k) /\ ~Storing(Original)
    BY <2>2 DEF Meets
  <2>4. Clean(k) /\ Clean(Original)
    BY <2>3, OriginalType DEF Tidy
  <2>5. /\ load'.asked = k /\ load'.key = LoadKey(k) /\ load'.image = i
        /\ UNCHANGED <<disk, store, latest>>
    BY <1>4, <2>2 DEF Find
  <2>6. LoadKey(k) \in {k, Original} /\ (LoadKey(k) = k \/ OnDisk(k) = {})
    BY DEF LoadKey
  <2>7. disk[<<LoadKey(k), i>>] = "whole" /\ i = latest[LoadKey(k)]
    BY <2>4, <2>6 DEF Clean
  <2>8. OnDisk(k) = {} => latest[k] = NoImage
    BY <2>4 DEF Clean
  <2>. QED  BY <2>3, <2>5, <2>6, <2>7, <2>8 DEF Serves, Storing
<1>5. CASE Serve
  BY <1>5 DEF Serve, IdleLoad
<1>6. CASE CheckExists
  BY <1>1, <1>6, CheckIsRight DEF CheckExists
<1>7. CASE TakeTask
  BY <1>1, <1>7 DEF TakeTask
<1>8. CASE Send
  <2>1. PICK s \in Stores :
           store' = [store EXCEPT ![s] =
              [pc |-> "list", key |-> Key, image |-> worker.image, names |-> {}]]
    BY <1>8 DEF Send
  <2>2. UNCHANGED <<disk, latest, load>>
    BY <1>8 DEF Send
  <2>3. store'[s].pc = "list" /\ \A t \in Stores \ {s} : store'[t] = store[t]
    BY <2>1 DEF TypeOK
  <2>. QED  BY <2>2, <2>3 DEF LoadInv, Serves
<1>9. CASE Stored
  <2>1. /\ worker.store \in Stores /\ store[worker.store].pc = "answered"
        /\ store[worker.store].key = Key /\ Key \in Keys
        /\ latest' = [latest EXCEPT ![Key] = worker.image]
        /\ store' = [store EXCEPT ![worker.store] = IdleStore]
        /\ UNCHANGED <<disk, load>>
        /\ latest \in [Keys -> Images \cup {NoImage}] /\ load \in LoadState
    BY <1>9, WorkerShape DEF Stored, OneStore, TypeOK
  <2>2. Serves /\ \A t \in Stores :
           store[t].pc # "idle" /\ store[t].key \in {load.asked, Original} => store[t].pc = "list"
    BY <2>1 DEF LoadInv
  <2>3. Key \notin {load.asked, Original}
    BY <2>1, <2>2
  <2>4. load.asked \in Keys /\ load.key \in {load.asked, Original}
    BY <2>1, <2>2 DEF LoadState, IdleLoad, Serves
  <2>5. latest'[load.key] = latest[load.key] /\ latest'[load.asked] = latest[load.asked]
    BY <2>1, <2>3, <2>4
  <2>6. Serves'
    BY <2>1, <2>2, <2>5 DEF Serves
  <2>7. \A t \in Stores : store'[t] = store[t] \/ store'[t].pc = "idle"
    BY <2>1 DEF TypeOK, IdleStore
  <2>. QED  BY <2>1, <2>2, <2>6, <2>7
<1>10. ~SendTimesOut /\ ~WorkerCrash /\ ~Crash
  BY DEF SendTimesOut, WorkerCrash, Crash, Fault
<1>. QED
  BY <1>1, <1>2, <1>3, <1>4, <1>5, <1>6, <1>7, <1>8, <1>9, <1>10
  DEF Next, vars, StoreImg, Works, Worker

\* As long as nothing fails, a load that met no store serves the image that was stored
\* last for the resolution asked for, or the original if there never was one.
THEOREM UndisturbedLoad == Spec => []LoadUndisturbed
<1>1. Init => LoadInv
  BY DEF Init, LoadInv, IdleLoad
<1>2. TypeOK /\ KeptInv /\ TidyInv /\ LoadInv /\ [Next]_vars => LoadInv'
  <2>1. ASSUME TypeOK, KeptInv, TidyInv, LoadInv, [Next]_vars, faults' = {}  PROVE LoadInv'
    <3>1. faults = {} /\ OneStore /\ Tidy
      BY <2>1, FaultsGrow DEF KeptInv, TidyInv
    <3>. QED  BY <2>1, <3>1, LoadInvStep
  <2>2. faults' # {} => LoadInv'
    BY DEF LoadInv
  <2>. QED  BY <2>1, <2>2
<1>3. LoadInv => LoadUndisturbed
  BY DEF LoadInv, Serves, LoadUndisturbed
<1>. QED  BY <1>1, <1>2, <1>3, TypeCorrect, KeptInvariant, TidyInvariant, PTL DEF Spec

-----------------------------------------------------------------------------
(* No resolution is left out.                                              *)

\* How many keys of its image the worker has done with.
Done == Len(KeysOf(worker.image)) - Len(worker.keys)

\* What the worker has left are the last keys of its image; all before are stored.
KeysInv ==
    worker.pc \in {"check", "wait"} =>
        /\ Done \in Nat
        /\ \A j \in 1 .. Len(worker.keys) : worker.keys[j] = KeysOf(worker.image)[Done + j]
        /\ \A j \in 1 .. Done : latest[KeysOf(worker.image)[j]] = worker.image

\* The first of the keys left is the one after those done; the others are left after it.
LEMMA KeysLeft ==
    ASSUME NEW S, NEW all \in Seq(S), NEW keys \in Seq(S), keys # <<>>,
           NEW d \in Nat, d = Len(all) - Len(keys),
           \A j \in 1 .. Len(keys) : keys[j] = all[d + j]
    PROVE  /\ keys[1] = all[d + 1] /\ d + 1 \in 1 .. Len(all)
           /\ d + 1 = Len(all) - Len(Tail(keys))
           /\ \A j \in 1 .. Len(Tail(keys)) : Tail(keys)[j] = all[(d + 1) + j]
<1>1. Len(all) \in Nat /\ Len(keys) \in Nat /\ Len(keys) >= 1
  BY LenProperties, EmptySeq
<1>2. /\ Len(Tail(keys)) = Len(keys) - 1
      /\ \A j \in 1 .. Len(Tail(keys)) : Tail(keys)[j] = keys[j + 1]
  BY HeadTailProperties
<1>3. ASSUME NEW j \in 1 .. Len(Tail(keys))  PROVE Tail(keys)[j] = all[(d + 1) + j]
  <2>1. j + 1 \in 1 .. Len(keys) /\ d + (j + 1) = (d + 1) + j
    BY <1>1, <1>2
  <2>2. keys[j + 1] = all[d + (j + 1)]
    BY <2>1
  <2>. QED  BY <1>2, <2>1, <2>2
<1>. QED  BY <1>1, <1>2, <1>3

\* The worker is done with one key more, and with the last one it has them all.
LEMMA KeyDone ==
    ASSUME TypeOK, KeysInv, worker.pc \in {"check", "wait"},
           latest' = [latest EXCEPT ![Key] = worker.image], worker' = NextKey
    PROVE  /\ KeysInv'
           /\ worker'.pc = "idle" =>
                 \A j \in DOMAIN KeysOf(worker.image) : latest'[KeysOf(worker.image)[j]] = worker.image
<1>. DEFINE all == KeysOf(worker.image)  keys == worker.keys
<1>1. all \in Seq(Keys) /\ keys \in Seq(Keys) /\ keys # <<>> /\ Key = keys[1]
  BY WorkerShape, KeysOfType DEF TypeOK
<1>2. /\ Done \in Nat /\ Done = Len(all) - Len(keys)
      /\ \A j \in 1 .. Len(keys) : keys[j] = all[Done + j]
      /\ \A j \in 1 .. Done : latest[all[j]] = worker.image
  BY DEF KeysInv, Done
<1>3. /\ keys[1] = all[Done + 1] /\ Done + 1 \in 1 .. Len(all)
      /\ Done + 1 = Len(all) - Len(Tail(keys))
      /\ \A j \in 1 .. Len(Tail(keys)) : Tail(keys)[j] = all[(Done + 1) + j]
  <2>. HIDE DEF all, keys
  <2>. QED  BY <1>1, <1>2, KeysLeft
<1>4. Len(all) \in Nat /\ DOMAIN all = 1 .. Len(all) /\ \A j \in 1 .. Len(all) : all[j] \in Keys
  <2>. HIDE DEF all
  <2>. QED  BY <1>1, LenProperties
<1>5. latest \in [Keys -> Images \cup {NoImage}]
  BY DEF TypeOK
<1>6. \A j \in 1 .. Done + 1 : latest'[all[j]] = worker.image
  <2>. HIDE DEF all, keys
  <2>. TAKE j \in 1 .. Done + 1
  <2>1. j \in 1 .. Len(all) /\ (j = Done + 1 \/ j \in 1 .. Done)
    <3>1. Done \in Nat /\ Len(all) \in Nat /\ Done + 1 \in 1 .. Len(all) /\ j \in 1 .. Done + 1
      BY <1>2, <1>3, <1>4
    <3>. QED  BY <3>1
  <2>2. all[j] \in Keys
    BY <1>4, <2>1
  <2>3. CASE all[j] = Key
    BY <1>5, <2>2, <2>3
  <2>4. CASE all[j] # Key
    <3>1. j # Done + 1
      BY <1>1, <1>3, <2>4
    <3>. QED  BY <1>2, <1>5, <2>1, <2>2, <2>4, <3>1
  <2>. QED  BY <2>3, <2>4
<1>7. CASE Len(keys) = 1
  <2>1. worker' = IdleWorker /\ Done + 1 = Len(all)
    BY <1>1, <1>2, <1>4, <1>7 DEF NextKey
  <2>2. KeysInv'
    BY <2>1 DEF KeysInv, IdleWorker
  <2>. QED  BY <1>4, <1>6, <2>1, <2>2
<1>8. CASE Len(keys) # 1
  <2>1. worker'.image = worker.image /\ worker'.keys = Tail(keys) /\ worker'.pc = "check"
    BY <1>8 DEF NextKey
  <2>2. KeysOf(worker.image)' = all
    BY <2>1 DEF KeysOf
  <2>3. Done' = Done + 1
    BY <1>3, <2>1, <2>2 DEF Done
  <2>. HIDE DEF all, keys
  <2>. QED  BY <1>2, <1>3, <1>6, <2>1, <2>2, <2>3 DEF KeysInv
<1>. QED  BY <1>7, <1>8

\* All keys of an image are left.
LEMMA KeysBegun ==
    ASSUME NEW i, worker'.image = i, worker'.keys = KeysOf(i)
    PROVE  KeysInv'
<1>1. KeysOf(worker.image)' = KeysOf(i) /\ Len(KeysOf(i)) \in Nat
  BY KeysOfType, LenProperties DEF KeysOf
<1>2. Done' = 0
  BY <1>1 DEF Done
<1>. QED  BY <1>1, <1>2 DEF KeysInv

LEMMA KeysInvStep ==
    ASSUME TypeOK, KeysInv, [Next]_vars
    PROVE  KeysInv'
<1>1. CASE UNCHANGED <<worker, latest>>
  BY <1>1 DEF KeysInv, Done, KeysOf
<1>2. CASE worker' = IdleWorker
  BY <1>2 DEF KeysInv, IdleWorker
<1>3. CASE TakeTask
  BY <1>2, <1>3, KeysBegun DEF TakeTask
<1>4. CASE CheckExists \/ Stored
  BY <1>4, KeyDone DEF CheckExists, Stored
<1>5. CASE Send
  <2>1. /\ worker.pc = "check" /\ worker'.image = worker.image /\ worker'.keys = worker.keys
        /\ latest' = latest
    BY <1>5 DEF Send
  <2>. QED  BY <2>1 DEF KeysInv, Done, KeysOf
<1>6. CASE WorkerCrash
  BY <1>6 DEF WorkerCrash, KeysInv, Redelivered
<1>7. CASE Crash
  BY <1>1, <1>2, <1>7 DEF Crash
<1>. QED
  BY <1>1, <1>2, <1>3, <1>4, <1>5, <1>6, <1>7
  DEF Next, vars, Worker, StoreImg, List, Open, Write, Remove, Return, StoreFails, Forget, Find, Serve,
      SendTimesOut

\* A worker that is done with a task, after checks that failed and deaths of its own, has
\* stored every resolution of the image or found it there.
THEOREM NoResolutionLeftOut == Spec => AllResolutionsStored
<1>1. Init => KeysInv
  BY DEF Init, KeysInv, IdleWorker
<1>2. TypeOK /\ KeysInv /\ [Next]_vars => KeysInv'
  BY KeysInvStep
<1>3. ASSUME TypeOK, KeysInv, [Next]_vars, worker.pc \in {"check", "wait"}, worker'.pc = "idle",
             faults' \subseteq {"check", "worker crash"}
      PROVE  \A i \in DOMAIN KeysOf(worker.image) : latest'[KeysOf(worker.image)[i]] = worker.image
  <2>1. worker' # worker /\ "timeout" \notin faults' /\ "crash" \notin faults'
    BY <1>3
  <2>2. ~TakeTask /\ ~Send /\ ~WorkerCrash
    <3>1. ~TakeTask
      BY <1>3 DEF TakeTask
    <3>2. Send => worker'.pc = "wait"
      BY DEF Send
    <3>3. ASSUME WorkerCrash  PROVE worker'.pc = "redelivered"
      <4>1. worker' = [pc |-> "redelivered"]
        BY <3>3 DEF WorkerCrash, Redelivered
      <4>. QED  BY <4>1
    <3>. QED  BY <1>3, <3>1, <3>2, <3>3
  <2>3. ~SendTimesOut /\ ~Crash
    BY <2>1 DEF SendTimesOut, Crash, Fault
  <2>4. CheckExists \/ Stored
    BY <1>3, <2>1, <2>2, <2>3, WorkerFrame DEF Worker
  <2>. QED  BY <1>3, <2>4, KeyDone DEF CheckExists, Stored
<1>4. TypeOK /\ KeysInv /\ [Next]_vars =>
         [/\ worker.pc \in {"check", "wait"} /\ worker'.pc = "idle"
          /\ faults' \subseteq {"check", "worker crash"}
          => \A i \in DOMAIN KeysOf(worker.image) : latest'[KeysOf(worker.image)[i]] = worker.image]_vars
  BY <1>3
<1>. QED  BY <1>1, <1>2, <1>4, TypeCorrect, PTL DEF Spec, AllResolutionsStored
=============================================================================
