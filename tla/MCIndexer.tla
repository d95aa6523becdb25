----------------------------- MODULE MCIndexer -----------------------------
(* Small chains for TLC. *)
EXTENDS Indexer

ok(msgs) == [code |-> "ok", decodes |-> TRUE, msgs |-> msgs]

\* Several messages in several transactions of a block, every way a transaction
\* can be skipped, and a transaction that failed on chain.
HardChain ==
    << << ok(<<"known", "known">>), ok(<<"unknown", "known">>) >>,
       << [code |-> "unknownRequest", decodes |-> TRUE, msgs |-> <<"known">>],
          [code |-> "ok", decodes |-> FALSE, msgs |-> <<"known">>],
          [code |-> "otherFailure", decodes |-> TRUE, msgs |-> <<"known">>] >> >>

\* Transactions of several messages, and after one no other in its block.
TailChain ==
    << << ok(<<"known">>), ok(<<"known", "unknown", "known">>) >>,
       << >>,
       << [code |-> "unknownRequest", decodes |-> TRUE, msgs |-> <<"known">>],
          ok(<<"known">>) >> >>

\* A block of two transactions, the first of two messages.
CarryChain == << << ok(<<"known", "known">>), ok(<<"known">>) >> >>

\* Three blocks of one message each.
PlainChain == << << ok(<<"known">>) >>, << ok(<<"known">>) >>, << ok(<<"known">>) >> >>
=============================================================================
