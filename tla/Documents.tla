----------------------------- MODULE Documents -----------------------------
(***************************************************************************)
(* What the token metadata worker and the MongoDB daemon share: the        *)
(* collection of token documents and the queue of URI tasks.               *)
(*                                                                         *)
(* A document is the metadata (a JSON object, a function from its fields)  *)
(* with dwhData: token, URI, owner and the time it was last checked.  The  *)
(* times are kept apart, since only their order matters: lastChecked holds *)
(* ranks, 0 being the oldest.                                              *)
(***************************************************************************)
EXTENDS Naturals, FiniteSets, Sequences, TLC

CONSTANTS
    Tokens, Uris, Owners,
    Metadata        \* the JSON objects a metadata server may answer

\* Stands in lastChecked for the time the daemon's batch began; no id of a document.
Batch == << >>

\* A field has a value of the type the schema asks for, or this one.
WrongType == "wrong type"

ASSUME DocumentsAssumption == \A m \in Metadata : DOMAIN m \subseteq STRING

VARIABLES
    docs,           \* the collection, document id -> [token, uri, owner, meta]
    lastChecked,    \* rank of the time of each document, and of Batch while there is one
    uriQueue        \* ready messages of the URI queue, oldest first

collection == <<docs, lastChecked>>

\* dwh_common.ImgQueuePriority
RegularUpdate == 1
TransferTriggered == 2
FreshlyMade == 3
ForcedUpdates == 4

Task == [token : Tokens, uri : Uris, owner : Owners, priority : RegularUpdate .. ForcedUpdates]

InitDocuments ==
    /\ docs = << >>
    /\ lastChecked = << >>
    /\ uriQueue = << >>

\* The documents of a token, the one FindOne and UpdateOne pick, and the id of the next.
Matching(t) == {id \in DOMAIN docs : docs[id].token = t}
Found(t)    == Matching(t) # {}
FirstId(t)  == <<t, 1>>
NextId(t)   == <<t, Cardinality(Matching(t)) + 1>>

\* f with v at x.
Put(f, x, v) == [y \in DOMAIN f \cup {x} |-> IF y = x THEN v ELSE f[y]]

\* Ranks without gaps; time.Now() is later than all of them.
Compact(time) ==
    [x \in DOMAIN time |-> Cardinality({time[y] : y \in {z \in DOMAIN time : time[z] < time[x]}})]
Now == Cardinality(DOMAIN lastChecked)
Stamp(x, time) == lastChecked' = Compact(Put(lastChecked, x, time))

\* RabbitMQ delivers the oldest message of the highest priority.
Foremost(q, i) ==
    \A j \in DOMAIN q : \/ q[j].priority < q[i].priority
                        \/ q[j].priority = q[i].priority /\ i <= j

DocumentsOK ==
    /\ \A id \in DOMAIN docs :
          /\ docs[id].token \in Tokens /\ docs[id].uri \in Uris /\ docs[id].owner \in Owners
          /\ id \in {<<docs[id].token, n>> : n \in 1 .. Cardinality(Matching(docs[id].token))}
    /\ DOMAIN docs \subseteq DOMAIN lastChecked
    /\ DOMAIN lastChecked \subseteq DOMAIN docs \cup {Batch}
    /\ \A x \in DOMAIN lastChecked : lastChecked[x] \in Nat /\ lastChecked[x] < Now
    /\ uriQueue \in Seq(Task)
=============================================================================
