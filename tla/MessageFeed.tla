---------------------------- MODULE MessageFeed ----------------------------
(***************************************************************************)
(* What the indexer promises its readers: the promised messages of the     *)
(* chain appear in the database one by one, in chain order, each exactly   *)
(* when everything before it is there, and a block counts as passed only   *)
(* when all its promised messages are stored.  Crashes, restarts, retries  *)
(* and cursors are not visible here.                                       *)
(*                                                                         *)
(* A message is <<height, transaction index, message index>>.              *)
(***************************************************************************)
EXTENDS Naturals

CONSTANTS NumBlocks, Promised

VARIABLES
    chainHeight,    \* the newest block of the chain
    recorded,       \* the messages stored so far
    height          \* the first block that is not passed

vars == <<chainHeight, recorded, height>>

Earlier(a, b) ==
    \/ a[1] < b[1]
    \/ a[1] = b[1] /\ a[2] < b[2]
    \/ a[1] = b[1] /\ a[2] = b[2] /\ a[3] < b[3]

Init == chainHeight = 0 /\ recorded = {} /\ height = 1

Produce ==
    /\ chainHeight < NumBlocks
    /\ chainHeight' = chainHeight + 1
    /\ UNCHANGED <<recorded, height>>

Record(id) ==
    /\ id \notin recorded
    /\ id[1] = height /\ height <= chainHeight
    /\ \A other \in Promised : Earlier(other, id) => other \in recorded
    /\ recorded' = recorded \cup {id}
    /\ UNCHANGED <<chainHeight, height>>

PassBlock ==
    /\ height <= chainHeight
    /\ \A id \in Promised : id[1] = height => id \in recorded
    /\ height' = height + 1
    /\ UNCHANGED <<chainHeight, recorded>>

Next == Produce \/ PassBlock \/ \E id \in Promised : Record(id)

Spec == Init /\ [][Next]_vars
=============================================================================
