---------------------------- MODULE Marketplace ----------------------------
(***************************************************************************)
(* The marketplace handler (x/indexer/handlers): how the tables users,     *)
(* nfts, auction_bids, offers and fungible_tokens, and the queue of token  *)
(* URIs, follow the messages of the chain.  The table                      *)
(* fungible_token_transfers does not: every transfer is refused.           *)
(*                                                                         *)
(* Handle runs one SQL statement after the other, each committed on its    *)
(* own, and then tells the metadata worker.  An error ends the message;    *)
(* the indexer notes it and goes on.  A crash restarts the indexer from    *)
(* its cursor, so the message at the cursor and those after it in the      *)
(* block are handled once more.  The chain runs ahead of the handler, and  *)
(* the accounts and tokens the handler asks the node for are those of the  *)
(* chain's newest state.                                                   *)
(*                                                                         *)
(* Prices and commissions are left out, and so is what the tables note of  *)
(* a beneficiary; the account it must have is not.                         *)
(***************************************************************************)
EXTENDS Naturals, Sequences, FiniteSets

CONSTANTS
    Tokens, Uris, Addresses, OfferIds, Denoms,
    NoOne,          \* not an address
    Accounts,       \* the addresses that have an account on chain
    Beneficiaries,  \* the addresses a message may name as its beneficiary
    ReMint,         \* may a burned token be minted again
    Faults,         \* which of "db" (Postgres), "rmq" (RabbitMQ) may fail, each once
    MaxMsgs, MaxLag, MaxCrashes     \* bounds

ASSUME ConstantsAssumption ==
    /\ Accounts \subseteq Addresses /\ Beneficiaries \subseteq Addresses /\ NoOne \notin Addresses
    /\ ReMint \in BOOLEAN /\ Faults \subseteq {"db", "rmq"}
    /\ MaxMsgs \in Nat /\ MaxLag \in Nat /\ MaxCrashes \in Nat

VARIABLES
    \* the chain
    nft,            \* its tokens: those minted, though they may have been burned since
    offered,        \* its offers, OfferId -> [token, buyer, open]
    supply,         \* its fungible tokens
    sent,           \* messages so far
    \* the indexer around the handler
    pending,        \* messages of the chain not handled yet, oldest first
    done,           \* messages since the cursor, the one at it included
    step,           \* 0: between messages; n: at the n-th statement of the first pending one
    \* the database and the URI queue
    users, nfts, bids, offers, fungibles, tasks,
    crashes,
    faults          \* the faults that have happened

chain   == <<nft, offered, supply, sent>>
tables  == <<users, nfts, bids, offers, fungibles>>
vars == <<chain, pending, done, step, tables, tasks, crashes, faults>>

Status == {"default", "market", "auction"}
Empty  == <<>>

Put(f, x, v) == [y \in DOMAIN f \cup {x} |-> IF y = x THEN v ELSE f[y]]

-----------------------------------------------------------------------------
(* The marketplace application: the messages it accepts and what they do   *)
(* to its state.  External: as the handler and gen_marketplace_data.sh     *)
(* use it.                                                                 *)

OnChain(t)  == t \in DOMAIN nft /\ nft[t].exists
Idle(t)     == OnChain(t) /\ nft[t].status = "default"
Listed(t)   == OnChain(t) /\ nft[t].status = "market"
Auctioned(t) == OnChain(t) /\ nft[t].status = "auction"

Send(m) ==
    /\ sent' = sent + 1
    /\ pending' = Append(pending, m)
    /\ UNCHANGED <<done, step, tables, tasks, crashes, faults>>

\* A message about token t, which is then as given.
SendNFT(t, m, token) ==
    /\ Send(m)
    /\ nft' = Put(nft, t, token)
    /\ UNCHANGED <<offered, supply>>

Minted(to, u) ==
    [exists |-> TRUE, owner |-> to, uri |-> u, status |-> "default", bids |-> 0, bidder |-> NoOne]
OffAuction(t, to) ==
    [nft[t] EXCEPT !.owner = to, !.status = "default", !.bids = 0, !.bidder = NoOne]

\* a signs, so it has an account; the receiver b and the beneficiary c need not have one.
SendTokenMsg(t, a, b, c, u) ==
    LET Signed(type) == [type |-> type, token |-> t, by |-> a]
        Shared(type) == [type |-> type, token |-> t, by |-> a, beneficiary |-> c]
        Bid(buyout)  == [type |-> "MakeBidOnAuction", token |-> t, by |-> a, beneficiary |-> c,
                         isBuyout |-> buyout]
    IN
    \/ /\ ~OnChain(t) /\ (t \in DOMAIN nft => ReMint)
       /\ SendNFT(t, [type |-> "MintNFT", token |-> t, by |-> a, to |-> b, uri |-> u], Minted(b, u))
    \/ /\ Idle(t) /\ a = nft[t].owner
       /\ \/ SendNFT(t, Signed("BurnNFT"), [nft[t] EXCEPT !.exists = FALSE])
          \/ SendNFT(t, [type |-> "EditNFTMetadata", token |-> t, by |-> a, uri |-> u],
                     [nft[t] EXCEPT !.uri = u])
          \/ SendNFT(t, [type |-> "TransferNFT", token |-> t, by |-> a, to |-> b],
                     [nft[t] EXCEPT !.owner = b])
          \/ SendNFT(t, Shared("PutNFTOnMarket"), [nft[t] EXCEPT !.status = "market"])
          \/ SendNFT(t, Shared("PutNFTOnAuction"), [nft[t] EXCEPT !.status = "auction"])
    \/ /\ Listed(t)
       /\ IF a = nft[t].owner
          THEN SendNFT(t, Signed("RemoveNFTFromMarket"), [nft[t] EXCEPT !.status = "default"])
          ELSE SendNFT(t, Shared("BuyNFT"), [nft[t] EXCEPT !.owner = a, !.status = "default"])
    \/ /\ Auctioned(t) /\ a = nft[t].owner
       /\ \/ SendNFT(t, Signed("RemoveNFTFromAuction"), OffAuction(t, a))
          \/ LET winner == IF nft[t].bidder = NoOne THEN a ELSE nft[t].bidder
             IN  SendNFT(t, [type |-> "FinishAuction", token |-> t, by |-> a, newOwner |-> winner],
                         OffAuction(t, winner))
    \/ /\ Auctioned(t) /\ a # nft[t].owner
       /\ \/ SendNFT(t, Bid(FALSE), [nft[t] EXCEPT !.bids = @ + 1, !.bidder = a])
          \/ SendNFT(t, Bid(TRUE), OffAuction(t, a))
          \/ SendNFT(t, Shared("BuyoutOnAuction"), OffAuction(t, a))

SendOfferMsg(t, a, c, o) ==
    /\ Idle(t)
    /\ \/ /\ a # nft[t].owner /\ o \notin DOMAIN offered
          /\ offered' = Put(offered, o, [token |-> t, buyer |-> a, open |-> TRUE])
          /\ Send([type |-> "MakeOffer", by |-> a, beneficiary |-> c, token |-> t, offer |-> o])
          /\ UNCHANGED nft
       \/ /\ o \in DOMAIN offered /\ offered[o].token = t /\ offered[o].open
          /\ offered' = [offered EXCEPT ![o].open = FALSE]
          /\ \/ /\ a = nft[t].owner /\ a # offered[o].buyer
                /\ nft' = [nft EXCEPT ![t].owner = offered[o].buyer]
                /\ Send([type |-> "AcceptOffer", by |-> a, beneficiary |-> c, token |-> t, offer |-> o])
             \/ /\ a = offered[o].buyer
                /\ Send([type |-> "RemoveOffer", by |-> a, token |-> t, offer |-> o])
                /\ UNCHANGED nft
    /\ UNCHANGED supply

SendFungibleMsg(d, a, b) ==
    /\ \/ /\ d \notin supply
          /\ supply' = supply \cup {d}
          /\ Send([type |-> "CreateFungibleToken", by |-> a, denom |-> d])
       \/ /\ d \in supply
          /\ UNCHANGED supply
          /\ Send([type |-> "TransferFungibleTokens", by |-> a, to |-> b, denom |-> d])
    /\ UNCHANGED <<nft, offered>>

\* The chain accepts a message, and is a few ahead of the handler at most.
ChainStep ==
    /\ sent < MaxMsgs /\ Len(pending) < MaxLag
    /\ \/ \E t \in Tokens, a \in Accounts, b \in Addresses, c \in Beneficiaries, u \in Uris :
             SendTokenMsg(t, a, b, c, u)
       \/ \E t \in Tokens, a \in Accounts, c \in Beneficiaries, o \in OfferIds :
             SendOfferMsg(t, a, c, o)
       \/ \E d \in Denoms, a \in Accounts, b \in Addresses : SendFungibleMsg(d, a, b)

-----------------------------------------------------------------------------
(* The tables.  gorm marks a deleted row instead of removing it, and       *)
(* updates and deletes only rows that are not marked.                      *)

Exists(t) == t \in DOMAIN nfts         \* a row, deleted or not: token_id is unique among all rows
Live(t)   == Exists(t) /\ nfts[t].live

Init ==
    /\ nft = Empty /\ offered = Empty /\ supply = {} /\ sent = 0
    /\ pending = <<>> /\ done = <<>> /\ step = 0
    /\ users = {} /\ nfts = Empty /\ bids = [t \in Tokens |-> 0]
    /\ offers = Empty /\ fungibles = {}
    /\ tasks = {} /\ crashes = 0 /\ faults = {}

-----------------------------------------------------------------------------
(* Handle: the statements each message type runs, in order.                *)

Msg   == Head(pending)
Token == Msg.token

\* getMsgAddresses: the fields of the message that hold an account address, the
\* beneficiary's included.
MsgAddresses(m) ==
    CASE "to" \in DOMAIN m          -> <<m.by, m.to>>
      [] "beneficiary" \in DOMAIN m -> <<m.by, m.beneficiary>>
      [] OTHER                      -> <<m.by>>

CreateUsers(m) == [i \in DOMAIN MsgAddresses(m) |-> [op |-> "findOrCreateUser", addr |-> MsgAddresses(m)[i]]]
Update(set)    == [op |-> "update", set |-> set]
Listing(s)     == Update([status |-> s])
NoAuction      == Update([status |-> "default", auction |-> FALSE])
\* Mutant: the sale leaves the token on auction.
SoldToOnAuction(a) == Update([owner |-> a])
SoldTo(a)      == Update([owner |-> a, status |-> "default", auction |-> FALSE])
Do(op)         == [op |-> op]
\* The handler looks at the error of its second deletion only: the others are lost.
DeleteBids(checked) == [op |-> "deleteBids", checked |-> checked]
\* Publish the URI the message carries, or the one the node has for the token now.
Publish        == Do("publish")
QueryPublish   == Do("queryPublish")

\* Mutant: the offer stays.
AcceptOfferKeepsIt == <<Do("scanOffer"), Do("updateToBuyer"), QueryPublish>>
AcceptOffer        == <<Do("scanOffer"), Do("updateToBuyer"), Do("deleteOffer"), QueryPublish>>

HandleMsg(m) ==
    CASE m.type = "MintNFT"             -> <<Do("createNFT"), Publish>>
      [] m.type = "BurnNFT"             -> <<Do("deleteNFT")>>
      [] m.type = "EditNFTMetadata"     -> <<Update([uri |-> m.uri]), Publish>>
      [] m.type = "TransferNFT"         -> <<Update([owner |-> m.to]), QueryPublish>>
      [] m.type = "PutNFTOnMarket"      -> <<Listing("market")>>
      [] m.type = "RemoveNFTFromMarket" -> <<Listing("default")>>
      [] m.type = "BuyNFT"              -> <<Update([owner |-> m.by, status |-> "default"]), QueryPublish>>
      [] m.type = "PutNFTOnAuction"     -> <<Update([status |-> "auction", auction |-> TRUE])>>
      [] m.type = "RemoveNFTFromAuction" -> <<NoAuction, DeleteBids(FALSE)>>
      [] m.type = "MakeBidOnAuction"    -> IF m.isBuyout THEN <<SoldTo(m.by), DeleteBids(TRUE)>>
                                                         ELSE <<Do("createBid")>>
      [] m.type = "BuyoutOnAuction"     -> <<SoldTo(m.by), DeleteBids(FALSE), QueryPublish>>
      [] m.type = "FinishAuction"       -> <<SoldTo(m.newOwner), DeleteBids(FALSE), QueryPublish>>
      [] m.type = "MakeOffer"           -> <<Do("createOffer")>>
      [] m.type = "AcceptOffer"         -> AcceptOffer
      [] m.type = "RemoveOffer"         -> <<Do("deleteOffer"), QueryPublish>>
      [] m.type = "CreateFungibleToken" -> <<Do("createFungible")>>
      [] m.type = "TransferFungibleTokens" -> <<Do("findFungible")>>

Statements(m) == CreateUsers(m) \o HandleMsg(m)
Statement     == Statements(Msg)[step]
Running       == step > 0 /\ step <= Len(Statements(Msg))
At(op)        == Running /\ Statement.op = op

NextStatement == step' = step + 1 /\ UNCHANGED <<chain, pending, done, crashes, faults>>

FindOrCreateUser ==
    /\ At("findOrCreateUser")
    /\ Statement.addr \in Accounts
    /\ users' = users \cup {Statement.addr}
    /\ NextStatement /\ UNCHANGED <<nfts, bids, offers, fungibles, tasks>>

\* token_id is unique, owner_address refers to users.
CreateNFT ==
    /\ At("createNFT")
    /\ ~Exists(Token) /\ Msg.to \in users
    /\ nfts' = Put(nfts, Token,
                   [live |-> TRUE, owner |-> Msg.to, uri |-> Msg.uri, status |-> "default", auction |-> FALSE])
    /\ NextStatement /\ UNCHANGED <<users, bids, offers, fungibles, tasks>>

\* The columns an UPDATE sets; the buyer of an accepted offer comes from the offer's row.
Columns == IF Statement.op = "update" THEN Statement.set ELSE [owner |-> offers[Msg.offer].buyer]

Overwrite(row, set) == [c \in DOMAIN row |-> IF c \in DOMAIN set THEN set[c] ELSE row[c]]

OwnerIsUser == "owner" \in DOMAIN Columns => Columns.owner \in users

UpdateNFT ==
    /\ At("update") \/ At("updateToBuyer")
    /\ Live(Token) => OwnerIsUser
    /\ nfts' = IF Live(Token) THEN [nfts EXCEPT ![Token] = Overwrite(@, Columns)] ELSE nfts
    /\ NextStatement /\ UNCHANGED <<users, bids, offers, fungibles, tasks>>

DeleteNFT ==
    /\ At("deleteNFT")
    /\ nfts' = IF Exists(Token) THEN [nfts EXCEPT ![Token].live = FALSE] ELSE nfts
    /\ NextStatement /\ UNCHANGED <<users, bids, offers, fungibles, tasks>>

\* auction_bids.token_id and offers.token_id refer to nfts.
CreateBid ==
    /\ At("createBid") /\ Exists(Token)
    /\ bids' = [bids EXCEPT ![Token] = @ + 1]
    /\ NextStatement /\ UNCHANGED <<users, nfts, offers, fungibles, tasks>>

\* Mutant: only one row.
DeleteOneBid ==
    /\ At("deleteBids")
    /\ bids' = [bids EXCEPT ![Token] = IF @ = 0 THEN 0 ELSE @ - 1]
    /\ NextStatement /\ UNCHANGED <<users, nfts, offers, fungibles, tasks>>

DeleteAllBids ==
    /\ At("deleteBids")
    /\ bids' = [bids EXCEPT ![Token] = 0]
    /\ NextStatement /\ UNCHANGED <<users, nfts, offers, fungibles, tasks>>

CreateOffer ==
    /\ At("createOffer") /\ Exists(Token)
    /\ offers' = Put(offers, Msg.offer, [token |-> Token, buyer |-> Msg.by, live |-> TRUE])
    /\ NextStatement /\ UNCHANGED <<users, nfts, bids, fungibles, tasks>>

\* Deleted rows are found too: the query names the table, not the model.
ScanOffer ==
    /\ At("scanOffer") /\ Msg.offer \in DOMAIN offers
    /\ NextStatement /\ UNCHANGED <<tables, tasks>>

DeleteOffer ==
    /\ At("deleteOffer")
    /\ offers' = [o \in DOMAIN offers |->
                     IF o = Msg.offer THEN [offers[o] EXCEPT !.live = FALSE] ELSE offers[o]]
    /\ NextStatement /\ UNCHANGED <<users, nfts, bids, fungibles, tasks>>

CreateFungible ==
    /\ At("createFungible")
    /\ Msg.denom \notin fungibles /\ Msg.by \in users
    /\ fungibles' = fungibles \cup {Msg.denom}
    /\ NextStatement /\ UNCHANGED <<users, nfts, bids, offers, tasks>>

\* Mutant: the node is asked even for a URI the message carries.
PublishNewestURI ==
    /\ At("publish") \/ At("queryPublish")
    /\ OnChain(Token)
    /\ tasks' = tasks \cup {[token |-> Token, uri |-> nft[Token].uri]}
    /\ NextStatement /\ UNCHANGED tables

\* queryNFT asks the node for the token as it is now, which fails once it is burned.
PublishTask ==
    /\ \/ At("publish") /\ tasks' = tasks \cup {[token |-> Token, uri |-> Msg.uri]}
       \/ /\ At("queryPublish") /\ OnChain(Token)
          /\ tasks' = tasks \cup {[token |-> Token, uri |-> nft[Token].uri]}
    /\ NextStatement /\ UNCHANGED tables

SqlStatement ==
    \/ FindOrCreateUser \/ CreateNFT \/ UpdateNFT \/ DeleteNFT \/ CreateBid \/ DeleteAllBids
    \/ CreateOffer \/ ScanOffer \/ DeleteOffer \/ CreateFungible

-----------------------------------------------------------------------------
(* Errors.                                                                 *)

\* What a statement cannot do, with everything up and running.  The fungible token of a
\* transfer is never found: the handle that the indexer passes on remembers where the
\* indexer scanned the transaction (gorm:query_destination), the row goes there as well,
\* and the ID the handler looks at stays 0.
Refused ==
    \/ At("findOrCreateUser") /\ Statement.addr \notin Accounts
    \/ At("createNFT") /\ (Exists(Token) \/ Msg.to \notin users)
    \/ (At("update") \/ At("updateToBuyer")) /\ Live(Token) /\ ~OwnerIsUser
    \/ (At("createBid") \/ At("createOffer")) /\ ~Exists(Token)
    \/ At("scanOffer") /\ Msg.offer \notin DOMAIN offers
    \/ At("createFungible") /\ (Msg.denom \in fungibles \/ Msg.by \notin users)
    \/ At("findFungible")
    \/ At("queryPublish") /\ ~OnChain(Token)

\* The deletions whose errors the handler never sees.
Unchecked ==
    \/ At("deleteNFT") \/ At("deleteOffer")
    \/ At("deleteBids") /\ ~Statement.checked

Sending == At("publish") \/ At("queryPublish")

Fault ==
    /\ Running
    /\ \E f \in Faults \ faults :
          /\ Sending <=> f = "rmq"
          /\ faults' = faults \cup {f}

\* Mutant: the position in the message is not reset.
EndMsgKeepsStep(ok) ==
    /\ pending' = Tail(pending)
    /\ done' = IF ok THEN <<Msg>> ELSE Append(done, Msg)
    /\ UNCHANGED <<chain, step, tables, tasks, crashes>>

\* processMsg is over and its message leaves the queue; the cursor has moved to it
\* if Handle succeeded.
EndMsg(ok) ==
    /\ pending' = Tail(pending)
    /\ done' = IF ok THEN <<Msg>> ELSE Append(done, Msg)
    /\ step' = 0
    /\ UNCHANGED <<chain, tables, tasks, crashes>>

\* Mutant: a message that fails is handled again.
HandleFailsRetries ==
    /\ Refused /\ step' = 0
    /\ UNCHANGED <<chain, pending, done, tables, tasks, crashes, faults>>

HandleFails ==
    \/ Refused /\ EndMsg(FALSE) /\ UNCHANGED faults
    \/ Fault /\ ~Unchecked /\ EndMsg(FALSE)

ErrorIgnored ==
    /\ Fault /\ Unchecked
    /\ step' = step + 1
    /\ UNCHANGED <<chain, pending, done, tables, tasks, crashes>>

Begin ==
    /\ step = 0 /\ pending # <<>>
    /\ step' = 1
    /\ UNCHANGED <<chain, pending, done, tables, tasks, crashes, faults>>

HandleSucceeds ==
    /\ step > 0 /\ step > Len(Statements(Msg))
    /\ EndMsg(TRUE) /\ UNCHANGED faults

\* The last message of a block is done: the cursor moves to the next block.
EndBlock ==
    /\ step = 0 /\ done # <<>>
    /\ done' = <<>>
    /\ UNCHANGED <<chain, pending, step, tables, tasks, crashes, faults>>

\* Mutant: the restart takes the message it died in for handled.
CrashGoesOn ==
    /\ crashes < MaxCrashes
    /\ crashes' = crashes + 1
    /\ pending' = IF step > 0 THEN Tail(pending) ELSE pending
    /\ done' = <<>> /\ step' = 0
    /\ UNCHANGED <<chain, tables, tasks, faults>>

\* The restarted indexer starts from the cursor.
Crash ==
    /\ crashes < MaxCrashes
    /\ crashes' = crashes + 1
    /\ pending' = done \o pending
    /\ done' = <<>> /\ step' = 0
    /\ UNCHANGED <<chain, tables, tasks, faults>>

-----------------------------------------------------------------------------
Handler == Begin \/ SqlStatement \/ PublishTask \/ HandleFails \/ ErrorIgnored \/ HandleSucceeds

Next == ChainStep \/ Handler \/ EndBlock \/ Crash

Spec == Init /\ [][Next]_vars

\* The indexer's loop keeps calling Handle.
FairSpec == Spec /\ WF_vars(Handler)

-----------------------------------------------------------------------------
(* Properties.                                                             *)

\* Everything the chain did has been handled.
CaughtUp == pending = <<>>

\* The messages, with the fields the handler uses.
Message ==
    [type : {"MintNFT"}, token : Tokens, by : Accounts, to : Addresses, uri : Uris] \cup
    [type : {"EditNFTMetadata"}, token : Tokens, by : Accounts, uri : Uris] \cup
    [type : {"TransferNFT"}, token : Tokens, by : Accounts, to : Addresses] \cup
    [type : {"BurnNFT", "RemoveNFTFromMarket", "RemoveNFTFromAuction"}, token : Tokens, by : Accounts] \cup
    [type : {"PutNFTOnMarket", "BuyNFT", "PutNFTOnAuction", "BuyoutOnAuction"},
     token : Tokens, by : Accounts, beneficiary : Beneficiaries] \cup
    [type : {"MakeBidOnAuction"}, token : Tokens, by : Accounts, beneficiary : Beneficiaries,
     isBuyout : BOOLEAN] \cup
    [type : {"FinishAuction"}, token : Tokens, by : Accounts, newOwner : Addresses] \cup
    [type : {"MakeOffer", "AcceptOffer"}, token : Tokens, by : Accounts, beneficiary : Beneficiaries,
     offer : OfferIds] \cup
    [type : {"RemoveOffer"}, token : Tokens, by : Accounts, offer : OfferIds] \cup
    [type : {"CreateFungibleToken"}, by : Accounts, denom : Denoms] \cup
    [type : {"TransferFungibleTokens"}, by : Accounts, to : Addresses, denom : Denoms]

ChainOK ==
    /\ DOMAIN nft \subseteq Tokens
    /\ \A t \in DOMAIN nft : nft[t] \in
          [exists : BOOLEAN, owner : Addresses, uri : Uris, status : Status, bids : Nat,
           bidder : Accounts \cup {NoOne}]
    /\ DOMAIN offered \subseteq OfferIds
    /\ \A o \in DOMAIN offered : offered[o] \in [token : Tokens, buyer : Accounts, open : BOOLEAN]
    /\ supply \subseteq Denoms

\* Whoever owns a row or made an offer is a user.
TablesOK ==
    /\ users \subseteq Accounts
    /\ DOMAIN nfts \subseteq Tokens
    /\ \A t \in DOMAIN nfts : nfts[t] \in
          [live : BOOLEAN, owner : users, uri : Uris, status : Status, auction : BOOLEAN]
    /\ bids \in [Tokens -> Nat]
    /\ DOMAIN offers \subseteq OfferIds
    /\ \A o \in DOMAIN offers : offers[o] \in [token : Tokens, buyer : users, live : BOOLEAN]
    /\ fungibles \subseteq Denoms
    /\ tasks \subseteq [token : Tokens, uri : Uris]

TypeOK ==
    /\ ChainOK /\ TablesOK
    /\ pending \in Seq(Message) /\ done \in Seq(Message)
    /\ step \in Nat /\ (step > 0 => pending # <<>> /\ step <= Len(Statements(Msg)) + 1)
    /\ sent \in 0 .. MaxMsgs /\ crashes \in 0 .. MaxCrashes /\ faults \subseteq Faults

\* When the handler has caught up, the table nfts shows the chain: which tokens
\* exist, who owns them, their URI, and whether they are on market or on auction,
\* although messages are handled twice after a crash and tasks may not be sent.
MirrorInSync ==
    CaughtUp /\ "db" \notin faults =>
        \A t \in Tokens :
            /\ Live(t) <=> OnChain(t)
            /\ Live(t) => /\ nfts[t].owner = nft[t].owner /\ nfts[t].uri = nft[t].uri
                          /\ nfts[t].status = nft[t].status
                          /\ nfts[t].auction <=> nft[t].status = "auction"

\* When the handler has caught up, the fungible tokens are the chain's: a crash loses none
\* that was to be created, though the cursor was at its message or before it, and a
\* repeated creation, which the unique denomination refuses, does no harm.
FungiblesMirrored == CaughtUp /\ "db" \notin faults => fungibles = supply

\* When the handler has caught up, no bid of a running auction is missing and none
\* of an ended one is left.  A crash repeats at most the message at the cursor and
\* the one that was being handled, so it adds at most two bids.
BidsMirrored ==
    CaughtUp /\ "db" \notin faults => \A t \in Tokens :
        IF Auctioned(t) THEN bids[t] >= nft[t].bids /\ bids[t] <= nft[t].bids + 2 * crashes
                        ELSE bids[t] = 0

\* When the handler has caught up, the offers in the database that are not deleted
\* are the chain's open ones, accepted and withdrawn offers never come back.
OffersMirrored ==
    CaughtUp /\ "db" \notin faults => \A o \in OfferIds :
        (o \in DOMAIN offers /\ offers[o].live) <=> (o \in DOMAIN offered /\ offered[o].open)

\* Between messages, the tokens of the mirror whose current URI the metadata worker was
\* never sent are at most one per crash, as a mint repeated after it is refused before
\* its task, and one for the failed publication.
Unpublished == {t \in DOMAIN nfts : nfts[t].live /\ [token |-> t, uri |-> nfts[t].uri] \notin tasks}
UrisPublished ==
    step = 0 => Cardinality(Unpublished) <= crashes + Cardinality(faults \cap {"rmq"})

\* A message that cannot be handled does not hold up those behind it: the handler
\* catches up with the chain again and again.
NeverStuck == []<>CaughtUp
=============================================================================
