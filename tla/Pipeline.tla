------------------------------ MODULE Pipeline ------------------------------
(***************************************************************************)
(* From the chain to the documents: what the marketplace handler publishes *)
(* for a token, the workers that take it from the URI queue, and the       *)
(* daemon that has every document looked at again.                         *)
(*                                                                         *)
(* Steps of TokenMetadata and of MongoDaemon alternate over the collection *)
(* and the queue they share.  A message of the chain is handled in one     *)
(* step here; module Marketplace has its statements and how they fail.     *)
(***************************************************************************)
EXTENDS Documents, SequencesExt

CONSTANTS
    Workers, Tasks, Faults, MaxTasks, MaxChanges, MaxCrashes, MaxFaults,    \* as in TokenMetadata
    Percent, DaemonFaults, MaxStops, MaxFailures, MaxReady,                 \* as in MongoDaemon
    Kinds           \* which of "edit", "transfer" the chain accepts besides minting

VARIABLES
    web, pc, task, fetched, same, receiving, sending, imgTasks,     \* as in TokenMetadata
    upserted, delivered, published, changes, crashes, faults,
    delayedQ, taskQ, at, connected, batch, starts, stops, failures, \* as in MongoDaemon
    onChain         \* URI and owner of each token that was minted

Worker == INSTANCE TokenMetadata
Daemon == INSTANCE MongoDaemon

ofWorkers == <<web, pc, task, fetched, same, receiving, sending, imgTasks,
               upserted, delivered, published, changes, crashes, faults>>
ofDaemon  == <<delayedQ, taskQ, at, connected, batch, starts, stops, failures>>
vars == <<collection, uriQueue, onChain, ofWorkers, ofDaemon>>

Init ==
    /\ InitDocuments
    /\ Worker!InitPrivate
    /\ Daemon!InitDaemon
    /\ onChain = << >>

-----------------------------------------------------------------------------
(* The chain and the handler.                                              *)

Minted(t) == t \in DOMAIN onChain

Send(t, uri, owner, priority) ==
    /\ Worker!Send([token |-> t, uri |-> uri, owner |-> owner, priority |-> priority])
    /\ UNCHANGED ofDaemon

MintNFT(t, uri, recipient) ==
    /\ ~Minted(t)
    /\ onChain' = (t :> [uri |-> uri, owner |-> recipient]) @@ onChain
    /\ Send(t, uri, recipient, FreshlyMade)

EditNFTMetadata(t, uri) ==
    /\ "edit" \in Kinds /\ Minted(t)
    /\ onChain' = [onChain EXCEPT ![t].uri = uri]
    /\ Send(t, uri, onChain[t].owner, ForcedUpdates)

\* The owner in the task is the sender, who has just ceased to be the owner.
TransferNFT(t, recipient) ==
    /\ "transfer" \in Kinds /\ Minted(t)
    /\ onChain' = [onChain EXCEPT ![t].owner = recipient]
    /\ Send(t, onChain[t].uri, onChain[t].owner, TransferTriggered)

Handle ==
    \E t \in Tokens :
        \/ \E u \in Uris, o \in Owners : MintNFT(t, u, o)
        \/ \E u \in Uris : EditNFTMetadata(t, u)
        \/ \E o \in Owners : TransferNFT(t, o)

-----------------------------------------------------------------------------
(* The composition.                                                        *)

OfWorkers(A) == A /\ UNCHANGED <<onChain, ofDaemon>>
OfDaemon(A)  == A /\ UNCHANGED <<onChain, ofWorkers>>

Next ==
    \/ Handle
    \/ OfWorkers(Worker!WebChanges \/ Worker!WorkerStep)
    \/ OfDaemon(Daemon!Broker \/ Daemon!DaemonStep)

Spec == Init /\ [][Next]_vars

\* The fairness of the two parts.
FairSpec ==
    /\ Spec
    /\ \A w \in Workers : WF_vars(OfWorkers(Worker!Run(w)))
    /\ WF_vars(OfDaemon(Daemon!Expire))
    /\ WF_vars(OfDaemon(Daemon!NewMongoDaemon))
    /\ WF_vars(OfDaemon(Daemon!Run))

-----------------------------------------------------------------------------
(* Properties.                                                             *)

\* The document has what the metadata server answers for its URI.
UpToDate(id) ==
    LET meta == web[docs[id].uri] IN
    \A field \in DOMAIN meta :
        field \in DOMAIN docs[id].meta /\ docs[id].meta[field] = meta[field]

\* A minted token gets a document, through crashes of its worker and whatever tasks
\* of higher priority come before its own, unless a download or MongoDB failed.
Documented == \A t \in Tokens : Minted(t) ~> (Found(t) \/ faults # {})

\* The daemon repairs what was lost: when metadata servers stop changing, each document is at
\* last that of its URI, though a download failed, an update failed, a worker died,
\* or an old task came late.
ContentFollows == <>[](\A id \in DOMAIN docs : UpToDate(id))

\* The documents mirror the chain: again and again each has the URI of its token.
DocumentFollowsChain ==
    \A t \in Tokens : []<>(Minted(t) /\ Found(t) => docs[FirstId(t)].uri = onChain[t].uri)
=============================================================================
