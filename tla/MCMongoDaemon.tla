--------------------------- MODULE MCMongoDaemon ---------------------------
(* The daemon with up to three documents for TLC: a batch is all of them    *)
(* while there are at most two, and one of three.                           *)
EXTENDS MongoDaemon

MCMetadata == {[name |-> "cat"]}
=============================================================================
