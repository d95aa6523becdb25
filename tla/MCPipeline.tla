----------------------------- MODULE MCPipeline -----------------------------
(* One token, one worker and the daemon for TLC.                            *)
EXTENDS Pipeline

MCMetadata == {[name |-> "cat"], [name |-> "dog"]}

\* The metadata servers answer the same for every URI.
OneAnswer == {[name |-> "cat"]}
=============================================================================
