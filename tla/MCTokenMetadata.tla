-------------------------- MODULE MCTokenMetadata --------------------------
(* Two workers, as with docker-compose --scale token_meta_data=2, and tasks  *)
(* for one token, of its minting and of an edit after a transfer.            *)
EXTENDS TokenMetadata

MCMetadata == {[name |-> "cat", image |-> "cat.png"], [image |-> WrongType]}

MCTasks == {[token |-> "t1", uri |-> "u1", owner |-> "ann", priority |-> FreshlyMade],
            [token |-> "t1", uri |-> "u1", owner |-> "bob", priority |-> ForcedUpdates]}
=============================================================================
