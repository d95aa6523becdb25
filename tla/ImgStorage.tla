----------------------------- MODULE ImgStorage -----------------------------
(***************************************************************************)
(* The image storage (x/imgstorage) with its clients: the image worker     *)
(* (x/imgresizer), which checks for and then stores the images of a token  *)
(* in every configured resolution, and a browser that loads them.          *)
(*                                                                         *)
(* A file is named after the owner, the token and the resolution (its key) *)
(* and after the MD5 sum of the image; one owner and one token are         *)
(* modelled.  Every request is a goroutine of the storage, and a client    *)
(* that no longer waits for an answer does not end it.                     *)
(***************************************************************************)
EXTENDS Naturals, Sequences, FiniteSets

CONSTANTS
    Resolutions,    \* the configured resolutions, in order
    Original,       \* the resolution 0x0, under which vector images are stored
    Rasters, Vectors,   \* images; one that is resized counts as the same image
    NoImage,
    Stores,         \* goroutines of StoreHandler
    Faults,         \* which of "check" (the request fails), "timeout" (of a store), "store"
                    \* (it fails), "crash" (of the storage) and "worker crash" may happen,
                    \* each once
    MaxTasks, MaxFaults     \* bounds

Images == Rasters \cup Vectors
Keys   == {Resolutions[i] : i \in DOMAIN Resolutions} \cup {Original}
Files  == Keys \X Images

ASSUME ImgAssumption ==
    /\ Resolutions \in Seq(Keys) /\ Original \notin {Resolutions[i] : i \in DOMAIN Resolutions}
    /\ NoImage \notin Images
    /\ Faults \subseteq {"check", "timeout", "store", "crash", "worker crash"}
    /\ MaxTasks \in Nat /\ MaxFaults \in Nat

VARIABLES
    disk,       \* Files -> absent, partial (WriteFile is at it, failed or died) or whole
    store,      \* per goroutine of StoreHandler: where it is, its file, the names it listed
    worker,     \* the image worker: where it is, its image, the keys it has left, its request
    latest,     \* per key, the image the worker last took for stored
    load,       \* the goroutine of LoadHandler
    tasks,      \* tasks so far
    faults      \* the faults that have happened

vars == <<disk, store, worker, latest, load, tasks, faults>>

KeysOf(i) == IF i \in Vectors THEN <<Original>> ELSE Resolutions

OnDisk(k) == {i \in Images : disk[<<k, i>>] # "absent"}

IdleStore == [pc |-> "idle"]
IdleLoad  == [pc |-> "idle"]
IdleWorker == [pc |-> "idle"]
Redelivered == [pc |-> "redelivered"]

Init ==
    /\ disk = [f \in Files |-> "absent"]
    /\ store = [s \in Stores |-> IdleStore]
    /\ worker = IdleWorker
    /\ latest = [k \in Keys |-> NoImage]
    /\ load = IdleLoad
    /\ tasks = 0 /\ faults = {}

Fault(f) ==
    /\ f \in Faults \ faults /\ Cardinality(faults) < MaxFaults
    /\ faults' = faults \cup {f}

-----------------------------------------------------------------------------
(* storeImg: list the files of the key, write the new one, remove those    *)
(* listed.                                                                 *)

Storing(k) == \E s \in Stores : store[s].pc # "idle" /\ store[s].key = k
\* A load of k may meet a store of k, or of the original it falls back to.
Meets(k)   == Storing(k) \/ Storing(Original)
Raced      == IF load.pc = "found" THEN [load EXCEPT !.raced = @ \/ Meets(load.asked)] ELSE load

Step(s, pc) == store' = [store EXCEPT ![s].pc = pc]
File(s)     == <<store[s].key, store[s].image>>
Writes(t, f) == store[t].pc = "write" /\ File(t) = f

\* Mutant: the old files go first.
ListAndRemove(s) ==
    /\ store[s].pc = "list"
    /\ disk' = [f \in Files |-> IF f[1] = store[s].key THEN "absent" ELSE disk[f]]
    /\ Step(s, "open")
    /\ load' = Raced
    /\ UNCHANGED <<worker, latest, tasks, faults>>

\* filepath.Glob.
List(s) ==
    /\ store[s].pc = "list"
    /\ store' = [store EXCEPT ![s].pc = "open", ![s].names = OnDisk(store[s].key)]
    /\ load' = Raced
    /\ UNCHANGED <<disk, worker, latest, tasks, faults>>

\* ioutil.WriteFile truncates the file and then writes it.  Two stores of one file write
\* the same bytes.
Open(s) ==
    /\ store[s].pc = "open"
    /\ disk' = [disk EXCEPT ![File(s)] = "partial"]
    /\ Step(s, "write")
    /\ load' = Raced
    /\ UNCHANGED <<worker, latest, tasks, faults>>

\* A file that was removed since it was opened ("unlinked") is written, but has no name.
Write(s) ==
    /\ store[s].pc \in {"write", "unlinked"}
    /\ disk' = IF store[s].pc = "write" THEN [disk EXCEPT ![File(s)] = "whole"] ELSE disk
    /\ Step(s, "remove")
    /\ load' = Raced
    /\ UNCHANGED <<worker, latest, tasks, faults>>

\* The order of the names is that of their hashes: any.
Remove(s) ==
    /\ store[s].pc = "remove"
    /\ \E i \in store[s].names :
          /\ disk[<<store[s].key, i>>] # "absent"
          /\ disk' = [disk EXCEPT ![<<store[s].key, i>>] = "absent"]
          /\ store' = [t \in Stores |->
                IF t = s THEN [store[s] EXCEPT !.names = @ \ {i}]
                ELSE IF Writes(t, <<store[s].key, i>>) THEN [store[t] EXCEPT !.pc = "unlinked"]
                ELSE store[t]]
    /\ load' = Raced
    /\ UNCHANGED <<worker, latest, tasks, faults>>

\* Nothing is left to remove, or os.Remove does not find a file.  StoreHandler answers
\* 200 either way.
Return(s) ==
    /\ store[s].pc = "remove"
    /\ store[s].names = {} \/ \E i \in store[s].names : disk[<<store[s].key, i>>] = "absent"
    /\ Step(s, "answered")
    /\ load' = Raced
    /\ UNCHANGED <<disk, worker, latest, tasks, faults>>

\* A directory that cannot be made, a body that is not gzip, a full disk, a file that
\* cannot be removed: storeImg returns at once, and StoreHandler answers 200 as well.
StoreFails(s) ==
    /\ store[s].pc \notin {"idle", "answered"} /\ Fault("store")
    /\ Step(s, "answered")
    /\ load' = Raced
    /\ UNCHANGED <<disk, worker, latest, tasks>>

\* The answer of a goroutine whose client has gone is lost.
Forget(s) ==
    /\ store[s].pc = "answered"
    /\ ~(worker.pc = "wait" /\ worker.store = s)
    /\ store' = [store EXCEPT ![s] = IdleStore]
    /\ UNCHANGED <<disk, worker, latest, load, tasks, faults>>

-----------------------------------------------------------------------------
(* The image worker: ProcessMessage, checkAndSendImage.                    *)

\* Mutant: off by one.
NextKeyPastLast ==
    IF worker.keys = <<>> THEN IdleWorker
    ELSE [pc |-> "check", image |-> worker.image, keys |-> Tail(worker.keys)]

NextKey ==
    IF Len(worker.keys) = 1 THEN IdleWorker
    ELSE [pc |-> "check", image |-> worker.image, keys |-> Tail(worker.keys)]

Key == Head(worker.keys)

\* A task from the image queue, a new one or one delivered again.  An image that cannot
\* be downloaded or decoded is given up, its task acknowledged.
TakeTask ==
    /\ \/ worker.pc = "idle" /\ tasks < MaxTasks /\ tasks' = tasks + 1
       \/ worker.pc = "redelivered" /\ tasks' = tasks
    /\ \/ \E i \in {j \in Images : KeysOf(j) # <<>>} :
             worker' = [pc |-> "check", image |-> i, keys |-> KeysOf(i)]
       \/ worker' = IdleWorker
    /\ UNCHANGED <<disk, store, latest, load, faults>>

\* Mutant: the check does not look at the resolution.
ExistsInAnyResolution(k, i) == \E other \in Keys : disk[<<other, i>>] # "absent"

\* getCheckFile: a file of that name exists, whatever is in it.
Exists(k, i) == disk[<<k, i>>] # "absent"

CheckExists ==
    /\ worker.pc = "check" /\ Exists(Key, worker.image)
    /\ latest' = [latest EXCEPT ![Key] = worker.image]
    /\ worker' = NextKey
    /\ UNCHANGED <<disk, store, load, tasks, faults>>

\* sendImage, when the image is not there, or when the check failed.
Send ==
    /\ worker.pc = "check"
    /\ \/ ~Exists(Key, worker.image) /\ UNCHANGED faults
       \/ Fault("check")
    /\ \E s \in Stores :
          /\ store[s].pc = "idle"
          /\ store' = [store EXCEPT ![s] =
                [pc |-> "list", key |-> Key, image |-> worker.image, names |-> {}]]
          /\ worker' = [pc |-> "wait", image |-> worker.image, keys |-> worker.keys, store |-> s]
    /\ UNCHANGED <<disk, latest, load, tasks>>

Stored ==
    /\ worker.pc = "wait" /\ store[worker.store].pc = "answered"
    /\ latest' = [latest EXCEPT ![Key] = worker.image]
    /\ store' = [store EXCEPT ![worker.store] = IdleStore]
    /\ worker' = NextKey
    /\ UNCHANGED <<disk, load, tasks, faults>>

\* ProcessMessage returns the error, and the task is acknowledged all the same: the other
\* resolutions are dropped.
SendTimesOut ==
    /\ worker.pc = "wait" /\ Fault("timeout")
    /\ worker' = IdleWorker
    /\ UNCHANGED <<disk, store, latest, load, tasks>>

\* Mutant: the queue is consumed with autoAck.
TaskLost ==
    /\ worker.pc \in {"check", "wait"} /\ Fault("worker crash")
    /\ worker' = IdleWorker
    /\ UNCHANGED <<disk, store, latest, load, tasks>>

\* The worker dies.  The broker delivers the task again, its image is downloaded again and
\* may be another by now; a store the worker waited for goes on.  A worker that only
\* loses its channel finishes the task and then takes the same again.
WorkerCrash ==
    /\ worker.pc \in {"check", "wait"} /\ Fault("worker crash")
    /\ worker' = Redelivered
    /\ UNCHANGED <<disk, store, latest, load, tasks>>

-----------------------------------------------------------------------------
(* loadImg, and http.ServeFile after it.                                   *)

\* Mutant: the original is preferred.
LoadOriginal(k) == IF OnDisk(Original) # {} THEN Original ELSE k

LoadKey(k) == IF OnDisk(k) # {} THEN k ELSE Original

\* The first name found, in the order of the hashes: any.  Only one load is followed,
\* the loads do not change the disk.
Find ==
    /\ load.pc = "idle"
    /\ \E k \in Keys : \E i \in OnDisk(LoadKey(k)) :
          load' = [pc |-> "found", asked |-> k, key |-> LoadKey(k), image |-> i,
                   raced |-> Meets(k)]
    /\ UNCHANGED <<disk, store, worker, latest, tasks, faults>>

\* os.Stat and the opening of the file: it is served, or gone by now.
Serve ==
    /\ load.pc = "found"
    /\ load' = IdleLoad
    /\ UNCHANGED <<disk, store, worker, latest, tasks, faults>>

-----------------------------------------------------------------------------
\* The storage dies with all its goroutines; the worker's request fails.
Crash ==
    /\ Fault("crash")
    /\ store' = [s \in Stores |-> IdleStore]
    /\ worker' = IF worker.pc = "wait" THEN IdleWorker ELSE worker
    /\ load' = IdleLoad
    /\ UNCHANGED <<disk, latest, tasks>>

StoreImg == \E s \in Stores :
    List(s) \/ Open(s) \/ Write(s) \/ Remove(s) \/ Return(s) \/ StoreFails(s) \/ Forget(s)
Worker   == TakeTask \/ CheckExists \/ Send \/ Stored \/ SendTimesOut \/ WorkerCrash

Next == StoreImg \/ Worker \/ Find \/ Serve \/ Crash

Spec == Init /\ [][Next]_vars

-----------------------------------------------------------------------------
(* Properties.                                                             *)

StoreState == {IdleStore} \cup
    [pc : {"list", "open", "write", "unlinked", "remove", "answered"},
     key : Keys, image : Images, names : SUBSET Images]

WorkerState == {IdleWorker, Redelivered}
    \cup [pc : {"check"}, image : Images, keys : Seq(Keys) \ {<<>>}]
    \cup [pc : {"wait"},  image : Images, keys : Seq(Keys) \ {<<>>}, store : Stores]

LoadState == {IdleLoad} \cup
    [pc : {"found"}, asked : Keys, key : Keys, image : Images, raced : BOOLEAN]

\* Every variable has its type; a worker that has not finished has a key left, and a
\* goroutine removes files of its own key only.
TypeOK ==
    /\ disk \in [Files -> {"absent", "partial", "whole"}]
    /\ store \in [Stores -> StoreState]
    /\ worker \in WorkerState
    /\ latest \in [Keys -> Images \cup {NoImage}]
    /\ load \in LoadState
    /\ tasks \in 0 .. MaxTasks /\ faults \subseteq Faults

HasWhole(k) == \E i \in Images : disk[<<k, i>>] = "whole"

\* A resolution that has a complete image never loses its last one, even if a store fails
\* at any point, or the storage dies between the writing of the new file and the removal
\* of the old.
ImageKept ==
    [][faults' \subseteq {"crash", "store"} => \A k \in Keys : HasWhole(k) => HasWhole(k)']_vars

\* A store removes old files, as its message for a failed removal calls them, never the one
\* it has just written.
OwnFileLeft ==
    [][\A s \in Stores : Remove(s) => disk'[File(s)] = disk[File(s)]]_vars

\* The worker is done with an image only when every resolution of it was stored or
\* found there, though a check failed or the worker died in between.
AllResolutionsStored ==
    [][/\ worker.pc \in {"check", "wait"} /\ worker'.pc = "idle"
       /\ faults' \subseteq {"check", "worker crash"}
       => \A i \in DOMAIN KeysOf(worker.image) : latest'[KeysOf(worker.image)[i]] = worker.image]_vars

\* When nothing has failed and no store of a resolution is running, its only file is
\* the image the worker last took for stored, and it is complete: the answer of the
\* check can be trusted, and old images do not pile up.
LastImageStored ==
    faults = {} => \A k \in Keys : ~Storing(k) =>
        /\ OnDisk(k) = {latest[k]} \ {NoImage}
        /\ \A i \in OnDisk(k) : disk[<<k, i>>] = "whole"

\* While nothing has failed, a load that met no store serves the newest image of the
\* resolution asked for, and the original only if there is none.
LoadUndisturbed ==
    load.pc = "found" /\ faults = {} /\ ~load.raced /\ ~Meets(load.asked) =>
        /\ disk[<<load.key, load.image>>] = "whole" /\ load.image = latest[load.key]
        /\ load.key = load.asked \/ latest[load.asked] = NoImage
=============================================================================
