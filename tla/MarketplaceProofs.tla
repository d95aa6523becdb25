------------------------- MODULE MarketplaceProofs -------------------------
(***************************************************************************)
(* Proofs about Marketplace, for any tokens, accounts, offers and number   *)
(* of messages: the statements of a message, type correctness, the URIs in *)
(* the queue, and the tables, which follow the chain.                      *)
(*                                                                         *)
(* For the tables the messages are numbered (Nth).  HistInv relates the    *)
(* chain to those a crash may repeat (Kept), whatever the handler has      *)
(* done; DbInv relates the tables to the chain and to the statements that  *)
(* the messages in the queue have still to run (Todo).                     *)
(***************************************************************************)
EXTENDS Marketplace, SequenceTheorems, FiniteSetTheorems, TLAPS

-----------------------------------------------------------------------------
(* The statements of a message.                                            *)

User(a) == [op |-> "findOrCreateUser", addr |-> a]

ColumnSets ==
    [owner : Addresses] \cup [uri : Uris] \cup [status : Status] \cup
    [owner : Addresses, status : Status] \cup [status : Status, auction : BOOLEAN] \cup
    [owner : Addresses, status : Status, auction : BOOLEAN]

TokenOps    == {"createNFT", "deleteNFT", "updateToBuyer", "createBid", "publish", "queryPublish"}
OfferOps    == {"createOffer", "scanOffer", "deleteOffer"}
FungibleOps == {"createFungible", "findFungible"}

HandleStatement ==
    [op : {"update"}, set : ColumnSets] \cup [op : {"deleteBids"}, checked : BOOLEAN] \cup
    [op : TokenOps \cup OfferOps \cup FungibleOps]

AnyStatement == [op : {"findOrCreateUser"}, addr : Addresses] \cup HandleStatement

Types == {"MintNFT", "EditNFTMetadata", "TransferNFT", "BurnNFT", "PutNFTOnMarket", "RemoveNFTFromMarket",
          "BuyNFT", "PutNFTOnAuction", "RemoveNFTFromAuction", "MakeBidOnAuction", "BuyoutOnAuction",
          "FinishAuction", "MakeOffer", "AcceptOffer", "RemoveOffer", "CreateFungibleToken",
          "TransferFungibleTokens"}

LEMMA MessageTypes ==
    ASSUME NEW m \in Message
    PROVE  m.type \in Types
BY DEF Message, Types

LEMMA HandleMsgType ==
    ASSUME NEW m \in Message
    PROVE  HandleMsg(m) \in Seq(HandleStatement)
<1>0. m.type \in Types
  BY MessageTypes
<1>. USE ConstantsAssumption DEF Message, HandleStatement, ColumnSets, TokenOps, OfferOps, FungibleOps, Status,
           Do, Publish, QueryPublish, Update, Listing, NoAuction, SoldTo, DeleteBids, AcceptOffer
<1>1. CASE m.type = "MintNFT"
  BY <1>1 DEF HandleMsg
<1>2. CASE m.type = "EditNFTMetadata"
  BY <1>2 DEF HandleMsg
<1>3. CASE m.type = "TransferNFT"
  BY <1>3 DEF HandleMsg
<1>4. CASE m.type = "BurnNFT"
  BY <1>4 DEF HandleMsg
<1>5. CASE m.type = "PutNFTOnMarket"
  BY <1>5 DEF HandleMsg
<1>6. CASE m.type = "RemoveNFTFromMarket"
  BY <1>6 DEF HandleMsg
<1>7. CASE m.type = "BuyNFT"
  BY <1>7 DEF HandleMsg
<1>8. CASE m.type = "PutNFTOnAuction"
  BY <1>8 DEF HandleMsg
<1>9. CASE m.type = "RemoveNFTFromAuction"
  BY <1>9 DEF HandleMsg
<1>10. CASE m.type = "MakeBidOnAuction"
  <2>1. HandleMsg(m) = IF m.isBuyout THEN <<SoldTo(m.by), DeleteBids(TRUE)>> ELSE <<Do("createBid")>>
    BY <1>10 DEF HandleMsg
  <2>2. <<SoldTo(m.by), DeleteBids(TRUE)>> \in Seq(HandleStatement) /\ <<Do("createBid")>> \in Seq(HandleStatement)
    BY <1>10
  <2>. QED  BY <2>1, <2>2
<1>11. CASE m.type = "BuyoutOnAuction"
  BY <1>11 DEF HandleMsg
<1>12. CASE m.type = "FinishAuction"
  BY <1>12 DEF HandleMsg
<1>13. CASE m.type = "MakeOffer"
  BY <1>13 DEF HandleMsg
<1>14. CASE m.type = "AcceptOffer"
  BY <1>14 DEF HandleMsg
<1>15. CASE m.type = "RemoveOffer"
  BY <1>15 DEF HandleMsg
<1>16. CASE m.type = "CreateFungibleToken"
  BY <1>16 DEF HandleMsg
<1>17. CASE m.type = "TransferFungibleTokens"
  BY <1>17 DEF HandleMsg
<1>. HIDE DEF Message, HandleStatement
<1>. QED
  BY <1>0, <1>1, <1>2, <1>3, <1>4, <1>5, <1>6, <1>7, <1>8, <1>9, <1>10, <1>11, <1>12, <1>13, <1>14, <1>15, <1>16, <1>17
  DEF Types

\* The messages a statement occurs in, and its place after the creation of the users.
Updating == {"EditNFTMetadata", "TransferNFT", "PutNFTOnMarket", "RemoveNFTFromMarket", "BuyNFT",
             "PutNFTOnAuction", "RemoveNFTFromAuction", "BuyoutOnAuction", "FinishAuction"}

Buyout(m) == m.type = "MakeBidOnAuction" /\ m.isBuyout

EndsAuction(m) ==
    m.type \in {"RemoveNFTFromAuction", "BuyoutOnAuction", "FinishAuction"} \/ Buyout(m)

PlaceOf(m, op, i) ==
    /\ op = "createNFT"  => m.type = "MintNFT" /\ i = 1
    /\ op = "publish"    => m.type \in {"MintNFT", "EditNFTMetadata"} /\ i = 2
    /\ op = "deleteNFT"  => m.type = "BurnNFT" /\ i = 1
    /\ op = "update"     => (m.type \in Updating \/ Buyout(m)) /\ i = 1
    /\ op = "createBid"  => m.type = "MakeBidOnAuction" /\ ~Buyout(m) /\ i = 1
    /\ op = "deleteBids" => EndsAuction(m) /\ i = 2
    /\ op = "createOffer"   => m.type = "MakeOffer" /\ i = 1
    /\ op = "scanOffer"     => m.type = "AcceptOffer" /\ i = 1
    /\ op = "updateToBuyer" => m.type = "AcceptOffer" /\ i = 2
    /\ op = "deleteOffer"   => (m.type = "AcceptOffer" /\ i = 3) \/ (m.type = "RemoveOffer" /\ i = 1)
    /\ op = "createFungible" => m.type = "CreateFungibleToken" /\ i = 1
    /\ op = "findFungible"   => m.type = "TransferFungibleTokens" /\ i = 1
    /\ op = "queryPublish"   =>
          /\ m.type \in {"TransferNFT", "BuyNFT", "BuyoutOnAuction", "FinishAuction", "AcceptOffer", "RemoveOffer"}
          /\ i = Len(HandleMsg(m))
    /\ op \in {"publish", "createFungible"} => i = Len(HandleMsg(m))
    /\ op # "findOrCreateUser"

LEMMA Places ==
    ASSUME NEW m \in Message, NEW i \in DOMAIN HandleMsg(m)
    PROVE  PlaceOf(m, HandleMsg(m)[i].op, i)
<1>0. m.type \in Types
  BY MessageTypes
<1>. USE DEF PlaceOf, Updating, EndsAuction, Buyout, Do, Publish, QueryPublish, Update, Listing, NoAuction, SoldTo,
           DeleteBids, AcceptOffer
<1>1. CASE m.type = "MintNFT"
  BY <1>1 DEF HandleMsg
<1>2. CASE m.type = "EditNFTMetadata"
  BY <1>2 DEF HandleMsg
<1>3. CASE m.type = "TransferNFT"
  BY <1>3 DEF HandleMsg
<1>4. CASE m.type = "BurnNFT"
  BY <1>4 DEF HandleMsg
<1>5. CASE m.type = "PutNFTOnMarket"
  BY <1>5 DEF HandleMsg
<1>6. CASE m.type = "RemoveNFTFromMarket"
  BY <1>6 DEF HandleMsg
<1>7. CASE m.type = "BuyNFT"
  BY <1>7 DEF HandleMsg
<1>8. CASE m.type = "PutNFTOnAuction"
  BY <1>8 DEF HandleMsg
<1>9. CASE m.type = "RemoveNFTFromAuction"
  BY <1>9 DEF HandleMsg
<1>10. CASE m.type = "MakeBidOnAuction"
  <2>1. HandleMsg(m) = IF m.isBuyout THEN <<SoldTo(m.by), DeleteBids(TRUE)>> ELSE <<Do("createBid")>>
    BY <1>10 DEF HandleMsg
  <2>2. CASE m.isBuyout
    BY <1>10, <2>1, <2>2
  <2>3. CASE ~m.isBuyout
    BY <1>10, <2>1, <2>3
  <2>. QED  BY <2>2, <2>3
<1>11. CASE m.type = "BuyoutOnAuction"
  BY <1>11 DEF HandleMsg
<1>12. CASE m.type = "FinishAuction"
  BY <1>12 DEF HandleMsg
<1>13. CASE m.type = "MakeOffer"
  BY <1>13 DEF HandleMsg
<1>14. CASE m.type = "AcceptOffer"
  BY <1>14 DEF HandleMsg
<1>15. CASE m.type = "RemoveOffer"
  BY <1>15 DEF HandleMsg
<1>16. CASE m.type = "CreateFungibleToken"
  BY <1>16 DEF HandleMsg
<1>17. CASE m.type = "TransferFungibleTokens"
  BY <1>17 DEF HandleMsg
<1>. HIDE DEF PlaceOf
<1>. QED
  BY <1>0, <1>1, <1>2, <1>3, <1>4, <1>5, <1>6, <1>7, <1>8, <1>9, <1>10, <1>11, <1>12, <1>13, <1>14, <1>15, <1>16, <1>17
  DEF Types

\* The creation of users comes first.
Creates(m) == Len(CreateUsers(m))

LEMMA UsersFirst ==
    ASSUME NEW m \in Message
    PROVE  /\ CreateUsers(m) \in Seq([op : {"findOrCreateUser"}, addr : Addresses])
           /\ Creates(m) \in Nat /\ Creates(m) >= 1
           /\ CreateUsers(m)[1] = User(m.by)
           /\ "to" \in DOMAIN m => Creates(m) = 2 /\ CreateUsers(m)[2] = User(m.to)
           /\ Creates(m) \in {1, 2}
<1>1. /\ m.by \in Addresses /\ ("to" \in DOMAIN m => m.to \in Addresses)
      /\ "beneficiary" \in DOMAIN m => m.beneficiary \in Addresses
  BY ConstantsAssumption DEF Message
<1>2. CASE "to" \in DOMAIN m
  <2>1. MsgAddresses(m) = <<m.by, m.to>>
    BY <1>1, <1>2 DEF MsgAddresses, Message
  <2>2. CreateUsers(m) = <<User(m.by), User(m.to)>>
    BY <2>1 DEF CreateUsers, User
  <2>. QED  BY <1>1, <1>2, <2>2 DEF User, Creates
<1>3. CASE "to" \notin DOMAIN m /\ "beneficiary" \in DOMAIN m
  <2>1. CreateUsers(m) = <<User(m.by), User(m.beneficiary)>>
    BY <1>3 DEF CreateUsers, MsgAddresses, User
  <2>. QED  BY <1>1, <1>3, <2>1 DEF User, Creates
<1>4. CASE "to" \notin DOMAIN m /\ "beneficiary" \notin DOMAIN m
  <2>1. CreateUsers(m) = <<User(m.by)>>
    BY <1>4 DEF CreateUsers, MsgAddresses, User
  <2>. QED  BY <1>1, <1>4, <2>1 DEF User, Creates
<1>. QED  BY <1>2, <1>3, <1>4

LEMMA StatementsShape ==
    ASSUME NEW m \in Message
    PROVE  /\ Statements(m) \in Seq(AnyStatement)
           /\ Len(HandleMsg(m)) \in Nat
           /\ Len(Statements(m)) = Creates(m) + Len(HandleMsg(m))
           /\ \A i \in 1 .. Creates(m) : Statements(m)[i] = CreateUsers(m)[i]
           /\ \A i \in 1 .. Len(HandleMsg(m)) : Statements(m)[Creates(m) + i] = HandleMsg(m)[i]
           /\ \A i \in (Creates(m) + 1) .. Len(Statements(m)) :
                 Statements(m)[i] = HandleMsg(m)[i - Creates(m)] /\ i - Creates(m) \in 1 .. Len(HandleMsg(m))
<1>1. CreateUsers(m) \in Seq(AnyStatement) /\ HandleMsg(m) \in Seq(AnyStatement)
  BY UsersFirst, HandleMsgType, SeqMonotonic DEF AnyStatement
<1>. QED  BY <1>1, UsersFirst, ConcatProperties, LenProperties DEF Statements, Creates

\* A statement of a message: a user's creation, or one of HandleMsg at its place.
LEMMA StatementPlace ==
    ASSUME NEW m \in Message, NEW i \in 1 .. Len(Statements(m))
    PROVE  /\ Statements(m)[i] \in AnyStatement
           /\ i <= Creates(m) => Statements(m)[i].op = "findOrCreateUser"
           /\ i > Creates(m) => Statements(m)[i] \in HandleStatement
                             /\ PlaceOf(m, Statements(m)[i].op, i - Creates(m))
<1>1. Statements(m)[i] \in AnyStatement
  BY StatementsShape, ElementOfSeq
<1>2. CASE i <= Creates(m)
  <2>1. Statements(m)[i] = CreateUsers(m)[i] /\ i \in 1 .. Creates(m)
    BY <1>2, StatementsShape, UsersFirst
  <2>2. CreateUsers(m)[i] \in [op : {"findOrCreateUser"}, addr : Addresses]
    BY <2>1, UsersFirst, ElementOfSeq DEF Creates
  <2>. QED  BY <1>1, <1>2, <2>1, <2>2, UsersFirst
<1>3. CASE i > Creates(m)
  <2>1. Statements(m)[i] = HandleMsg(m)[i - Creates(m)] /\ i - Creates(m) \in 1 .. Len(HandleMsg(m))
    BY <1>3, StatementsShape, UsersFirst
  <2>2. i - Creates(m) \in DOMAIN HandleMsg(m) /\ HandleMsg(m)[i - Creates(m)] \in HandleStatement
    BY <2>1, HandleMsgType, ElementOfSeq, LenProperties
  <2>. QED  BY <1>1, <1>3, <2>1, <2>2, Places, UsersFirst
<1>. QED  BY <1>2, <1>3, UsersFirst

-----------------------------------------------------------------------------
(* Type correctness.                                                       *)

\* Statements after the creation of a user find it.
UsersKnown ==
    step > 0 =>
        /\ step > 1 => Msg.by \in users
        /\ step > 2 /\ "to" \in DOMAIN Msg => Msg.to \in users

TypeInv == TypeOK /\ UsersKnown

LEMMA MsgType ==
    ASSUME TypeOK, pending # <<>>
    PROVE  /\ Msg \in Message /\ Msg = pending[1] /\ Len(pending) >= 1
           /\ Tail(pending) \in Seq(Message) /\ Len(pending) \in Nat
           /\ Len(Statements(Msg)) \in Nat /\ Creates(Msg) \in Nat /\ Creates(Msg) >= 1
<1>1. pending \in Seq(Message) /\ Len(pending) \in Nat /\ Len(pending) # 0
  BY EmptySeq, LenProperties DEF TypeOK
<1>2. Msg \in Message /\ Tail(pending) \in Seq(Message) /\ Msg = pending[1]
  BY <1>1, HeadTailProperties DEF Msg
<1>3. Len(Statements(Msg)) \in Nat /\ Creates(Msg) \in Nat /\ Creates(Msg) >= 1
  BY <1>2, StatementsShape, UsersFirst
<1>. QED  BY <1>1, <1>2, <1>3

\* Where Handle is when it runs a statement of HandleMsg.
LEMMA AtStatement ==
    ASSUME TypeOK, Running
    PROVE  /\ pending # <<>> /\ Msg \in Message /\ step \in 1 .. Len(Statements(Msg))
           /\ Statement \in AnyStatement
           /\ step <= Creates(Msg) => Statement.op = "findOrCreateUser"
           /\ Statement.op # "findOrCreateUser" =>
                 /\ step > Creates(Msg) /\ Statement \in HandleStatement
                 /\ PlaceOf(Msg, Statement.op, step - Creates(Msg))
<1>1. pending # <<>> /\ Msg \in Message /\ step \in 1 .. Len(Statements(Msg)) /\ Creates(Msg) \in Nat
  BY MsgType DEF TypeOK, Running
<1>. QED  BY <1>1, StatementPlace DEF Statement

\* The messages the chain sends.
LEMMA SendKeeps ==
    ASSUME TypeInv, sent < MaxMsgs, NEW m \in Message, Send(m), ChainOK'
    PROVE  TypeInv'
<1>1. pending \in Seq(Message)
  BY DEF TypeInv, TypeOK
<1>2. /\ pending' \in Seq(Message) /\ pending' # <<>>
      /\ pending # <<>> => pending'[1] = pending[1]
  BY <1>1, AppendProperties, MsgType DEF Send, TypeInv
<1>3. pending # <<>> => Msg' = Msg
  BY <1>1, HeadTailAppend DEF Send, Msg
<1>4. sent' \in 0 .. MaxMsgs
  BY ConstantsAssumption DEF Send, TypeInv, TypeOK
<1>5. TablesOK'
  BY DEF Send, TypeInv, TypeOK, TablesOK, tables
<1>6. (step > 0 => pending # <<>> /\ step <= Len(Statements(Msg)) + 1)' /\ UsersKnown'
  BY <1>2, <1>3 DEF Send, TypeInv, TypeOK, UsersKnown, tables
<1>. QED  BY <1>2, <1>4, <1>5, <1>6 DEF Send, TypeInv, TypeOK

ChainToken ==
    [exists : BOOLEAN, owner : Addresses, uri : Uris, status : Status, bids : Nat, bidder : Accounts \cup {NoOne}]

LEMMA SendNFTKeeps ==
    ASSUME TypeInv, sent < MaxMsgs, NEW t \in Tokens, NEW m \in Message, NEW token \in ChainToken,
           SendNFT(t, m, token)
    PROVE  TypeInv'
<1>1. ChainOK'
  BY DEF SendNFT, TypeInv, TypeOK, ChainOK, ChainToken, Put
<1>. QED  BY <1>1, SendKeeps DEF SendNFT

LEMMA SendTokenMsgKeeps ==
    ASSUME TypeInv, sent < MaxMsgs, NEW t \in Tokens, NEW a \in Accounts, NEW b \in Addresses, NEW c \in Beneficiaries,
           NEW u \in Uris, SendTokenMsg(t, a, b, c, u)
    PROVE  TypeInv'
<1>. DEFINE Signed(type) == [type |-> type, token |-> t, by |-> a]
            Shared(type) == [type |-> type, token |-> t, by |-> a, beneficiary |-> c]
            Bid(buyout)  == [type |-> "MakeBidOnAuction", token |-> t, by |-> a, beneficiary |-> c,
                             isBuyout |-> buyout]
<1>0. a \in Addresses /\ ChainOK
  BY ConstantsAssumption DEF TypeInv, TypeOK
<1>1. OnChain(t) => nft[t] \in ChainToken
  BY <1>0 DEF OnChain, ChainOK, ChainToken
<1>2. OnChain(t) => \A x \in Addresses : OffAuction(t, x) \in ChainToken
  BY <1>1 DEF OffAuction, ChainToken, Status
<1>3. /\ \A type \in {"BurnNFT", "RemoveNFTFromMarket", "RemoveNFTFromAuction"} : Signed(type) \in Message
      /\ \A type \in {"PutNFTOnMarket", "BuyNFT", "PutNFTOnAuction", "BuyoutOnAuction"} :
            Shared(type) \in Message
      /\ \A buyout \in BOOLEAN : Bid(buyout) \in Message
  BY DEF Message
<1>4. CASE SendNFT(t, [type |-> "MintNFT", token |-> t, by |-> a, to |-> b, uri |-> u], Minted(b, u))
  <2>1. [type |-> "MintNFT", token |-> t, by |-> a, to |-> b, uri |-> u] \in Message
    BY DEF Message
  <2>2. Minted(b, u) \in ChainToken
    BY DEF Minted, ChainToken, Status
  <2>. QED  BY <1>4, <2>1, <2>2, SendNFTKeeps
<1>5. CASE Idle(t) /\ \/ SendNFT(t, Signed("BurnNFT"), [nft[t] EXCEPT !.exists = FALSE])
                      \/ SendNFT(t, Shared("PutNFTOnMarket"), [nft[t] EXCEPT !.status = "market"])
                      \/ SendNFT(t, Shared("PutNFTOnAuction"), [nft[t] EXCEPT !.status = "auction"])
  <2>1. /\ [nft[t] EXCEPT !.exists = FALSE] \in ChainToken
        /\ [nft[t] EXCEPT !.status = "market"] \in ChainToken
        /\ [nft[t] EXCEPT !.status = "auction"] \in ChainToken
    BY <1>1, <1>5 DEF Idle, ChainToken, Status
  <2>. HIDE DEF Signed, Shared
  <2>. QED  BY <1>3, <1>5, <2>1, SendNFTKeeps
<1>6. CASE Idle(t) /\ SendNFT(t, [type |-> "EditNFTMetadata", token |-> t, by |-> a, uri |-> u],
                              [nft[t] EXCEPT !.uri = u])
  <2>1. [type |-> "EditNFTMetadata", token |-> t, by |-> a, uri |-> u] \in Message
    BY DEF Message
  <2>2. [nft[t] EXCEPT !.uri = u] \in ChainToken
    BY <1>1, <1>6 DEF Idle, ChainToken
  <2>. QED  BY <1>6, <2>1, <2>2, SendNFTKeeps
<1>7. CASE Idle(t) /\ SendNFT(t, [type |-> "TransferNFT", token |-> t, by |-> a, to |-> b],
                              [nft[t] EXCEPT !.owner = b])
  <2>1. [type |-> "TransferNFT", token |-> t, by |-> a, to |-> b] \in Message
    BY DEF Message
  <2>2. [nft[t] EXCEPT !.owner = b] \in ChainToken
    BY <1>1, <1>7 DEF Idle, ChainToken
  <2>. QED  BY <1>7, <2>1, <2>2, SendNFTKeeps
<1>8. CASE Listed(t) /\ \/ SendNFT(t, Signed("RemoveNFTFromMarket"), [nft[t] EXCEPT !.status = "default"])
                        \/ SendNFT(t, Shared("BuyNFT"), [nft[t] EXCEPT !.owner = a, !.status = "default"])
  <2>1. /\ [nft[t] EXCEPT !.status = "default"] \in ChainToken
        /\ [nft[t] EXCEPT !.owner = a, !.status = "default"] \in ChainToken
    BY <1>0, <1>1, <1>8 DEF Listed, ChainToken, Status
  <2>. HIDE DEF Signed, Shared
  <2>. QED  BY <1>3, <1>8, <2>1, SendNFTKeeps
<1>9. CASE Auctioned(t) /\ \/ SendNFT(t, Signed("RemoveNFTFromAuction"), OffAuction(t, a))
                           \/ SendNFT(t, Shared("BuyoutOnAuction"), OffAuction(t, a))
  <2>1. OffAuction(t, a) \in ChainToken
    BY <1>0, <1>2, <1>9 DEF Auctioned
  <2>. HIDE DEF Signed, Shared
  <2>. QED  BY <1>3, <1>9, <2>1, SendNFTKeeps
<1>10. CASE /\ Auctioned(t)
            /\ LET winner == IF nft[t].bidder = NoOne THEN a ELSE nft[t].bidder
               IN  SendNFT(t, [type |-> "FinishAuction", token |-> t, by |-> a, newOwner |-> winner],
                           OffAuction(t, winner))
  <2>. DEFINE winner == IF nft[t].bidder = NoOne THEN a ELSE nft[t].bidder
  <2>1. winner \in Addresses
    BY <1>0, <1>1, <1>10, ConstantsAssumption DEF Auctioned, ChainToken
  <2>2. SendNFT(t, [type |-> "FinishAuction", token |-> t, by |-> a, newOwner |-> winner], OffAuction(t, winner))
    BY <1>10
  <2>. HIDE DEF winner
  <2>3. [type |-> "FinishAuction", token |-> t, by |-> a, newOwner |-> winner] \in Message
    BY <2>1 DEF Message
  <2>4. OffAuction(t, winner) \in ChainToken
    BY <1>2, <1>10, <2>1 DEF Auctioned
  <2>. QED  BY <2>2, <2>3, <2>4, SendNFTKeeps
<1>11. CASE Auctioned(t) /\ SendNFT(t, Bid(FALSE), [nft[t] EXCEPT !.bids = @ + 1, !.bidder = a])
  <2>1. nft[t] \in ChainToken /\ nft[t].bids + 1 \in Nat
    BY <1>1, <1>11 DEF Auctioned, ChainToken
  <2>2. [nft[t] EXCEPT !.bids = nft[t].bids + 1, !.bidder = a] \in ChainToken
    BY <2>1, Zenon DEF ChainToken
  <2>3. Bid(FALSE) \in Message
    BY <1>3
  <2>. HIDE DEF Bid
  <2>. QED  BY <1>11, <2>2, <2>3, SendNFTKeeps
<1>12. CASE Auctioned(t) /\ SendNFT(t, Bid(TRUE), OffAuction(t, a))
  <2>1. Bid(TRUE) \in Message
    BY <1>3
  <2>. HIDE DEF Bid
  <2>. QED  BY <1>0, <1>2, <1>12, <2>1, SendNFTKeeps DEF Auctioned
<1>. QED
  BY <1>4, <1>5, <1>6, <1>7, <1>8, <1>9, <1>10, <1>11, <1>12 DEF SendTokenMsg

LEMMA ChainSends == ChainStep => \E m : Send(m)
<1>1. ASSUME NEW t, NEW a, NEW b, NEW c, NEW u, SendTokenMsg(t, a, b, c, u)  PROVE \E m : Send(m)
  <2>1. ASSUME NEW m, NEW token, SendNFT(t, m, token)  PROVE \E n : Send(n)
    BY <2>1 DEF SendNFT
  <2>. QED  BY <1>1, <2>1, Zenon DEF SendTokenMsg
<1>2. ASSUME NEW t, NEW a, NEW c, NEW o, SendOfferMsg(t, a, c, o)  PROVE \E m : Send(m)
  BY <1>2, Zenon DEF SendOfferMsg
<1>3. ASSUME NEW d, NEW a, NEW b, SendFungibleMsg(d, a, b)  PROVE \E m : Send(m)
  BY <1>3, Zenon DEF SendFungibleMsg
<1>. QED  BY <1>1, <1>2, <1>3, Zenon DEF ChainStep

LEMMA ChainStepKeeps ==
    ASSUME TypeInv, ChainStep
    PROVE  TypeInv'
<1>0. Accounts \subseteq Addresses /\ ChainOK /\ sent < MaxMsgs
  BY ConstantsAssumption DEF TypeInv, TypeOK, ChainStep
<1>1. CASE \E t \in Tokens, a \in Accounts, b \in Addresses, c \in Beneficiaries, u \in Uris :
              SendTokenMsg(t, a, b, c, u)
  BY <1>0, <1>1, SendTokenMsgKeeps
<1>2. CASE \E t \in Tokens, a \in Accounts, c \in Beneficiaries, o \in OfferIds : SendOfferMsg(t, a, c, o)
  <2>. PICK t \in Tokens, a \in Accounts, c \in Beneficiaries, o \in OfferIds : SendOfferMsg(t, a, c, o)
    BY <1>2
  <2>. DEFINE Offer(type) == [type |-> type, by |-> a, beneficiary |-> c, token |-> t, offer |-> o]
              Withdrawal  == [type |-> "RemoveOffer", by |-> a, token |-> t, offer |-> o]
  <2>1. Offer("MakeOffer") \in Message /\ Offer("AcceptOffer") \in Message /\ Withdrawal \in Message
    BY DEF Message
  <2>2. ChainOK'
    <3>1. CASE offered' = Put(offered, o, [token |-> t, buyer |-> a, open |-> TRUE]) /\ UNCHANGED <<nft, supply>>
      BY <1>0, <3>1 DEF ChainOK, Put
    <3>2. CASE /\ o \in DOMAIN offered /\ offered' = [offered EXCEPT ![o].open = FALSE] /\ UNCHANGED supply
               /\ nft' = nft \/ (nft' = [nft EXCEPT ![t].owner = offered[o].buyer])
      <4>1. offered[o].buyer \in Addresses
        BY <1>0, <3>2 DEF ChainOK
      <4>2. \A x \in DOMAIN offered' : offered'[x] \in [token : Tokens, buyer : Accounts, open : BOOLEAN]
        BY <1>0, <3>2 DEF ChainOK
      <4>3. \A x \in DOMAIN nft' : nft'[x] \in ChainToken
        BY <1>0, <3>2, <4>1 DEF ChainOK, ChainToken
      <4>4. DOMAIN offered' = DOMAIN offered /\ DOMAIN nft' = DOMAIN nft
        BY <3>2
      <4>. QED  BY <1>0, <3>2, <4>2, <4>3, <4>4 DEF ChainOK, ChainToken
    <3>. QED  BY <3>1, <3>2 DEF SendOfferMsg
  <2>3. Send(Offer("MakeOffer")) \/ Send(Offer("AcceptOffer")) \/ Send(Withdrawal)
    BY DEF SendOfferMsg
  <2>. HIDE DEF Offer, Withdrawal
  <2>. QED  BY <1>0, <2>1, <2>2, <2>3, SendKeeps
<1>3. CASE \E d \in Denoms, a \in Accounts, b \in Addresses : SendFungibleMsg(d, a, b)
  <2>. PICK d \in Denoms, a \in Accounts, b \in Addresses : SendFungibleMsg(d, a, b)
    BY <1>3
  <2>1. /\ [type |-> "CreateFungibleToken", by |-> a, denom |-> d] \in Message
        /\ [type |-> "TransferFungibleTokens", by |-> a, to |-> b, denom |-> d] \in Message
    BY DEF Message
  <2>2. ChainOK'
    BY <1>0 DEF SendFungibleMsg, ChainOK
  <2>. QED  BY <1>0, <2>1, <2>2, SendKeeps DEF SendFungibleMsg
<1>. QED  BY <1>1, <1>2, <1>3 DEF ChainStep

LEMMA SameStatements ==
    ASSUME Msg' = Msg
    PROVE  Statements(Msg)' = Statements(Msg)
<1>1. \A m : m = Msg => Statements(m)' = Statements(m)
  BY DEF Statements, CreateUsers, MsgAddresses, HandleMsg
<1>. QED  BY <1>1, Zenon

\* What a statement leaves alone.
LEMMA StatementKeeps ==
    ASSUME TypeInv, Running, NextStatement, users \subseteq users', TablesOK',
           Statement.op = "findOrCreateUser" => users' = users \cup {Statement.addr}
    PROVE  TypeInv'
<1>1. /\ Msg \in Message /\ Msg' = Msg /\ pending # <<>> /\ step \in 1 .. Len(Statements(Msg))
      /\ Len(Statements(Msg)) \in Nat
  BY AtStatement, MsgType DEF TypeInv, NextStatement, Msg
<1>2. ChainOK'
  BY DEF TypeInv, TypeOK, ChainOK, NextStatement, chain
<1>3. Statements(Msg)' = Statements(Msg)
  BY <1>1, SameStatements
<1>4. (step > 0 => pending # <<>> /\ step <= Len(Statements(Msg)) + 1)' /\ step' \in Nat
  BY <1>1, <1>3 DEF NextStatement
<1>5. UsersKnown'
  <2>1. CASE step > Creates(Msg)
    BY <1>1, <2>1, UsersFirst DEF TypeInv, UsersKnown, NextStatement
  <2>2. CASE step <= Creates(Msg)
    <3>1. Statement.op = "findOrCreateUser" /\ Statement = CreateUsers(Msg)[step] /\ step >= 1
      BY <1>1, <2>2, AtStatement, StatementsShape, UsersFirst DEF Statement, TypeInv
    <3>a. Statement.addr \in users'
      BY <3>1
    <3>b. User(Msg.by).addr = Msg.by /\ ("to" \in DOMAIN Msg => User(Msg.to).addr = Msg.to)
      BY DEF User
    <3>2. step = 1 => Msg.by \in users'
      BY <1>1, <3>1, <3>a, <3>b, UsersFirst
    <3>3. step = 2 /\ "to" \in DOMAIN Msg => Msg.to \in users'
      BY <1>1, <3>1, <3>a, <3>b, UsersFirst
    <3>. QED  BY <1>1, <2>2, <3>1, <3>2, <3>3, UsersFirst DEF TypeInv, UsersKnown, NextStatement
  <2>. QED  BY <1>1, <2>1, <2>2, UsersFirst
<1>. QED  BY <1>2, <1>4, <1>5 DEF TypeInv, TypeOK, NextStatement, chain

\* A row stays one when some of its columns are set.
LEMMA OverwriteType ==
    ASSUME NEW row \in [live : BOOLEAN, owner : users, uri : Uris, status : Status, auction : BOOLEAN],
           NEW set \in ColumnSets, "owner" \in DOMAIN set => set.owner \in users
    PROVE  Overwrite(row, set) \in [live : BOOLEAN, owner : users, uri : Uris, status : Status, auction : BOOLEAN]
BY DEF Overwrite, ColumnSets

LEMMA SqlStatementKeeps ==
    ASSUME TypeInv, SqlStatement
    PROVE  TypeInv'
<1>0. Running /\ NextStatement /\ TablesOK /\ TypeOK
  BY DEF TypeInv, TypeOK, SqlStatement, At, FindOrCreateUser, CreateNFT, UpdateNFT, DeleteNFT, CreateBid,
         DeleteAllBids, CreateOffer, ScanOffer, DeleteOffer, CreateFungible
<1>a. /\ Msg \in Message /\ Statement \in AnyStatement
      /\ Statement.op # "findOrCreateUser" =>
            /\ step > Creates(Msg) /\ Statement \in HandleStatement
            /\ PlaceOf(Msg, Statement.op, step - Creates(Msg))
  BY <1>0, AtStatement DEF TypeInv
<1>. SUFFICES TablesOK' /\ users \subseteq users'
              /\ (Statement.op = "findOrCreateUser" => users' = users \cup {Statement.addr})
  BY <1>0, StatementKeeps
<1>1. CASE FindOrCreateUser
  BY <1>0, <1>1 DEF FindOrCreateUser, TablesOK
<1>2. CASE CreateNFT
  <2>1. Token \in Tokens /\ Msg.uri \in Uris /\ Statement.op # "findOrCreateUser"
    BY <1>a, <1>2 DEF CreateNFT, At, PlaceOf, Message, Token
  <2>. QED  BY <1>0, <1>2, <2>1 DEF CreateNFT, TablesOK, Put, Status
<1>3. CASE UpdateNFT
  <2>. USE <1>3 DEF UpdateNFT
  <2>1. Statement.op \in {"update", "updateToBuyer"}
    BY DEF At
  <2>2. CASE ~Live(Token)
    BY <1>0, <2>1, <2>2 DEF TablesOK
  <2>3. CASE Live(Token)
    <3>2. Columns \in ColumnSets
      <4>1. CASE Statement.op = "update"
        BY <1>a, <4>1 DEF Columns, HandleStatement, TokenOps, OfferOps, FungibleOps
      <4>2. CASE Statement.op = "updateToBuyer"
        <5>1. Columns = [owner |-> offers[Msg.offer].buyer]
          BY <4>2 DEF Columns
        <5>2. Columns.owner \in users
          BY <2>3, <5>1 DEF OwnerIsUser
        <5>. QED  BY <1>0, <5>1, <5>2, ConstantsAssumption DEF ColumnSets, TablesOK
      <4>. QED  BY <2>1, <4>1, <4>2
    <3>3. Token \in DOMAIN nfts
      BY <2>3 DEF Live, Exists
    <3>4. "owner" \in DOMAIN Columns => Columns.owner \in users
      BY <2>3 DEF OwnerIsUser
    <3>5. /\ users' = users /\ bids' = bids /\ offers' = offers /\ fungibles' = fungibles /\ tasks' = tasks
          /\ nfts' = [nfts EXCEPT ![Token] = Overwrite(nfts[Token], Columns)]
      BY <2>3
    <3>6. Overwrite(nfts[Token], Columns) \in
             [live : BOOLEAN, owner : users, uri : Uris, status : Status, auction : BOOLEAN]
      BY <1>0, <3>2, <3>3, <3>4, OverwriteType DEF TablesOK
    <3>. QED  BY <1>0, <2>1, <3>3, <3>5, <3>6 DEF TablesOK
  <2>. QED  BY <2>2, <2>3
<1>4. CASE DeleteNFT
  BY <1>0, <1>4 DEF DeleteNFT, At, TablesOK, Exists
<1>5. CASE CreateBid \/ DeleteAllBids
  BY <1>0, <1>5 DEF CreateBid, DeleteAllBids, At, TablesOK
<1>6. CASE CreateOffer
  <2>1. Token \in Tokens /\ Msg.offer \in OfferIds /\ Statement.op # "findOrCreateUser"
    BY <1>a, <1>6 DEF CreateOffer, At, PlaceOf, Message, Token
  <2>2. Msg.by \in users
    BY <1>a, <2>1, UsersFirst, MsgType DEF TypeInv, TypeOK, UsersKnown
  <2>. QED  BY <1>0, <1>6, <2>1, <2>2 DEF CreateOffer, TablesOK, Put
<1>7. CASE DeleteOffer
  BY <1>0, <1>7 DEF DeleteOffer, At, TablesOK
<1>8. CASE CreateFungible
  <2>1. Msg.denom \in Denoms /\ Statement.op # "findOrCreateUser"
    BY <1>a, <1>8 DEF CreateFungible, At, PlaceOf, Message
  <2>. QED  BY <1>0, <1>8, <2>1 DEF CreateFungible, TablesOK
<1>9. CASE ScanOffer
  BY <1>0, <1>9 DEF ScanOffer, At, TablesOK, tables
<1>. QED
  BY <1>1, <1>2, <1>3, <1>4, <1>5, <1>6, <1>7, <1>8, <1>9 DEF SqlStatement

LEMMA PublishTaskKeeps ==
    ASSUME TypeInv, PublishTask
    PROVE  TypeInv'
<1>0. Running /\ NextStatement /\ TablesOK /\ ChainOK /\ TypeOK /\ Statement.op \in {"publish", "queryPublish"}
      /\ UNCHANGED tables
  BY DEF TypeInv, TypeOK, PublishTask, At
<1>1. Msg \in Message /\ PlaceOf(Msg, Statement.op, step - Creates(Msg))
  BY <1>0, AtStatement DEF TypeInv
<1>2. tasks' \subseteq [token : Tokens, uri : Uris]
  <2>1. CASE At("publish") /\ tasks' = tasks \cup {[token |-> Token, uri |-> Msg.uri]}
    <3>1. Token \in Tokens /\ Msg.uri \in Uris
      BY <1>1, <2>1 DEF At, PlaceOf, Message, Token
    <3>. QED  BY <1>0, <2>1, <3>1 DEF TablesOK
  <2>2. CASE OnChain(Token) /\ tasks' = tasks \cup {[token |-> Token, uri |-> nft[Token].uri]}
    <3>1. Token \in Tokens /\ nft[Token].uri \in Uris
      BY <1>0, <2>2 DEF OnChain, ChainOK
    <3>. QED  BY <1>0, <2>2, <3>1 DEF TablesOK
  <2>. QED  BY <2>1, <2>2 DEF PublishTask
<1>. QED  BY <1>0, <1>2, StatementKeeps DEF tables, TablesOK

LEMMA EndMsgKeeps ==
    ASSUME TypeInv, pending # <<>>, NEW ok \in BOOLEAN, EndMsg(ok), faults' \subseteq Faults
    PROVE  TypeInv'
<1>1. Msg \in Message /\ Tail(pending) \in Seq(Message)
  BY MsgType DEF TypeInv
<1>2. pending' \in Seq(Message) /\ done' \in Seq(Message)
  BY <1>1, AppendProperties DEF EndMsg, TypeInv, TypeOK
<1>. QED
  BY <1>2 DEF EndMsg, TypeInv, TypeOK, ChainOK, TablesOK, UsersKnown, chain, tables

LEMMA FaultType ==
    ASSUME TypeInv, Fault
    PROVE  faults' \subseteq Faults /\ Running /\ pending # <<>>
BY DEF Fault, TypeInv, TypeOK, Running

LEMMA RestKeeps ==
    ASSUME TypeInv, \/ HandleFails \/ ErrorIgnored \/ Begin \/ HandleSucceeds \/ EndBlock \/ Crash
    PROVE  TypeInv'
<1>0. TypeOK
  BY DEF TypeInv
<1>1. CASE HandleFails \/ HandleSucceeds
  <2>1. pending # <<>> /\ faults' \subseteq Faults
    BY <1>1, FaultType DEF HandleFails, HandleSucceeds, Refused, At, Running, TypeInv, TypeOK
  <2>. QED  BY <1>1, <2>1, EndMsgKeeps DEF HandleFails, HandleSucceeds
<1>2. CASE ErrorIgnored
  <2>. USE <1>2 DEF ErrorIgnored
  <2>1. Running /\ faults' \subseteq Faults /\ pending # <<>> /\ Msg' = Msg
    BY FaultType DEF Msg
  <2>2. /\ Msg \in Message /\ step \in 1 .. Len(Statements(Msg)) /\ Len(Statements(Msg)) \in Nat
        /\ Creates(Msg) \in Nat /\ step > Creates(Msg)
    BY <1>0, <2>1, AtStatement, MsgType DEF Unchecked, At
  <2>3. Statements(Msg)' = Statements(Msg)
    BY <2>1, SameStatements
  <2>4. UsersKnown'
    BY <2>1, <2>2, UsersFirst DEF TypeInv, UsersKnown, tables
  <2>. QED  BY <2>1, <2>2, <2>3, <2>4 DEF TypeInv, TypeOK, ChainOK, TablesOK, chain, tables
<1>3. CASE Begin
  <2>. USE <1>3 DEF Begin
  <2>1. Msg' = Msg /\ Msg \in Message /\ Len(Statements(Msg)) \in Nat
    BY <1>0, MsgType DEF Msg
  <2>2. Statements(Msg)' = Statements(Msg)
    BY <2>1, SameStatements
  <2>. QED  BY <2>1, <2>2 DEF TypeInv, TypeOK, ChainOK, TablesOK, UsersKnown, chain, tables
<1>4. CASE EndBlock
  <2>1. done' \in Seq(Message)
    BY <1>4, EmptySeq DEF EndBlock
  <2>. QED  BY <1>4, <2>1 DEF EndBlock, TypeInv, TypeOK, ChainOK, TablesOK, UsersKnown, chain, tables
<1>5. CASE Crash
  <2>1. done' \in Seq(Message) /\ pending' \in Seq(Message)
    BY <1>0, <1>5, EmptySeq, ConcatProperties DEF Crash, TypeOK
  <2>2. crashes' \in 0 .. MaxCrashes
    BY <1>0, <1>5, ConstantsAssumption DEF Crash, TypeOK
  <2>. QED  BY <1>5, <2>1, <2>2 DEF Crash, TypeInv, TypeOK, ChainOK, TablesOK, UsersKnown, chain, tables
<1>. QED  BY <1>1, <1>2, <1>3, <1>4, <1>5

LEMMA InitType ==
    ASSUME Init
    PROVE  TypeInv
<1>1. Empty \in Seq(Message) /\ DOMAIN Empty = {}
  BY DEF Empty
<1>. QED  BY <1>1, ConstantsAssumption DEF Init, TypeInv, TypeOK, ChainOK, TablesOK, UsersKnown, Empty

LEMMA NextType == TypeInv /\ [Next]_vars => TypeInv'
<1>. SUFFICES ASSUME TypeInv, [Next]_vars  PROVE TypeInv'
  OBVIOUS
<1>1. CASE UNCHANGED vars
  <2>1. \A m : Statements(m)' = Statements(m)
    BY DEF Statements, CreateUsers, MsgAddresses, HandleMsg
  <2>. QED  BY <1>1, <2>1 DEF vars, chain, tables, TypeInv, TypeOK, ChainOK, TablesOK, UsersKnown, Msg
<1>. QED
  BY <1>1, ChainStepKeeps, SqlStatementKeeps, PublishTaskKeeps, RestKeeps DEF Next, Handler

\* Every reachable state has its type, and a message's users exist once their statements ran.
THEOREM TypeInvariant == Spec => []TypeInv
BY InitType, NextType, PTL DEF Spec

\* Owners of rows and buyers of offers are users, and Handle is always at a statement of a
\* message that is there, whatever is refused, fails or is repeated.
THEOREM TypeCorrect == Spec => []TypeOK
<1>1. TypeInv => TypeOK
  BY DEF TypeInv
<1>. QED  BY <1>1, TypeInvariant, PTL

-----------------------------------------------------------------------------
(* URIs reach the queue.                                                   *)

\* Only a mint and an edit give a row its URI, and they publish it next.
LEMMA UriSetters ==
    ASSUME NEW m \in Message, HandleMsg(m)[1].op = "update", "uri" \in DOMAIN HandleMsg(m)[1].set
    PROVE  m.type = "EditNFTMetadata" /\ HandleMsg(m)[1].set = [uri |-> m.uri]
<1>0. m.type \in Updating \/ Buyout(m)
  <2>1. 1 \in DOMAIN HandleMsg(m) \/ HandleMsg(m) = <<>>
    BY HandleMsgType, LenProperties, EmptySeq
  <2>2. HandleMsg(m) # <<>>
    BY MessageTypes DEF HandleMsg, Types, AcceptOffer
  <2>. QED  BY <2>1, <2>2, Places DEF PlaceOf
<1>. USE DEF Updating, Update, Listing, NoAuction, SoldTo
<1>1. CASE m.type = "EditNFTMetadata"
  BY <1>1 DEF HandleMsg
<1>2. CASE m.type = "TransferNFT"
  BY <1>2 DEF HandleMsg
<1>3. CASE m.type = "PutNFTOnMarket"
  BY <1>3 DEF HandleMsg
<1>4. CASE m.type = "RemoveNFTFromMarket"
  BY <1>4 DEF HandleMsg
<1>5. CASE m.type = "BuyNFT"
  BY <1>5 DEF HandleMsg
<1>6. CASE m.type = "PutNFTOnAuction"
  BY <1>6 DEF HandleMsg
<1>7. CASE m.type = "RemoveNFTFromAuction"
  BY <1>7 DEF HandleMsg
<1>8. CASE m.type = "BuyoutOnAuction"
  BY <1>8 DEF HandleMsg
<1>9. CASE m.type = "FinishAuction"
  BY <1>9 DEF HandleMsg
<1>10. CASE Buyout(m)
  <2>1. HandleMsg(m) = <<SoldTo(m.by), DeleteBids(TRUE)>>
    BY <1>10 DEF HandleMsg, Buyout
  <2>. QED  BY <1>10, <2>1
<1>. QED  BY <1>0, <1>1, <1>2, <1>3, <1>4, <1>5, <1>6, <1>7, <1>8, <1>9, <1>10

LEMMA PublishFollows ==
    ASSUME NEW m \in Message, m.type \in {"MintNFT", "EditNFTMetadata"}
    PROVE  Len(Statements(m)) = Creates(m) + 2 /\ Statements(m)[Creates(m) + 2] = Publish
<1>1. Len(HandleMsg(m)) = 2 /\ HandleMsg(m)[2] = Publish
  <2>1. CASE m.type = "MintNFT"
    BY <2>1 DEF HandleMsg
  <2>2. CASE m.type = "EditNFTMetadata"
    BY <2>2 DEF HandleMsg
  <2>. QED  BY <2>1, <2>2
<1>2. 2 \in 1 .. Len(HandleMsg(m))
  BY <1>1
<1>3. Len(Statements(m)) = Creates(m) + Len(HandleMsg(m))
      /\ \A i \in 1 .. Len(HandleMsg(m)) : Statements(m)[Creates(m) + i] = HandleMsg(m)[i]
  BY StatementsShape
<1>. QED  BY <1>1, <1>2, <1>3

\* The statement about to run publishes the URI of t.
Telling(t) == At("publish") /\ Token = t /\ Msg.uri = nfts[t].uri

\* The tokens whose URI was not published, and will not be by the message at hand.
Lost   == {t \in Unpublished : ~Telling(t)}
Losses == crashes + Cardinality(faults \cap {"rmq"})

UriInv == IsFiniteSet(Lost) /\ Cardinality(Lost) <= Losses

\* RabbitMQ fails when a URI is to be published.
PublishFails == HandleFails /\ At("publish")

\* At the publication, with a row that has the URI of the message.
LEMMA WriterPublishes ==
    ASSUME TypeInv, Running, NextStatement, step = Creates(Msg) + 1,
           Msg.type \in {"MintNFT", "EditNFTMetadata"}
    PROVE  At("publish")' /\ Msg' = Msg /\ Token' = Token
<1>1. Msg \in Message /\ Msg' = Msg /\ Creates(Msg) \in Nat
  BY AtStatement, UsersFirst DEF TypeInv, NextStatement, Msg
<1>2. Statements(Msg)' = Statements(Msg)
  BY <1>1, SameStatements
<1>3. step' = Creates(Msg) + 2 /\ Len(Statements(Msg)) = Creates(Msg) + 2
      /\ Statements(Msg)[Creates(Msg) + 2].op = "publish"
  BY <1>1, PublishFollows DEF NextStatement, Publish, Do
<1>. QED  BY <1>1, <1>2, <1>3 DEF At, Running, Statement, Token

LEMMA UriStep ==
    ASSUME TypeInv, [Next]_vars, ~Crash, ~PublishFails, NEW t, t \notin Lost, Live(t)'
    PROVE  [token |-> t, uri |-> nfts[t].uri]' \in tasks' \/ Telling(t)'
<1>. DEFINE Told == [token |-> t, uri |-> nfts[t].uri] \in tasks
<1>0. tasks \subseteq tasks'
  <2>1. CASE ChainStep
    BY <2>1, ChainSends DEF Send
  <2>2. CASE SqlStatement
    BY <2>2 DEF SqlStatement, FindOrCreateUser, CreateNFT, UpdateNFT, DeleteNFT, CreateBid, DeleteAllBids, CreateOffer,
           ScanOffer, DeleteOffer, CreateFungible, NextStatement
  <2>3. CASE PublishTask
    BY <2>3 DEF PublishTask, NextStatement
  <2>4. CASE HandleFails \/ ErrorIgnored \/ HandleSucceeds
    BY <2>4 DEF HandleFails, ErrorIgnored, HandleSucceeds, EndMsg
  <2>5. CASE Begin \/ EndBlock \/ UNCHANGED vars
    BY <2>5 DEF Begin, EndBlock, vars
  <2>. QED  BY <2>1, <2>2, <2>3, <2>4, <2>5 DEF Next, Handler
<1>1. Live(t) => Told \/ Telling(t)
  BY DEF Lost, Unpublished, Live, Exists
<1>2. CASE Told /\ nfts'[t].uri = nfts[t].uri
  BY <1>0, <1>2
<1>3. CASE CreateNFT
  <2>1. Msg.type = "MintNFT" /\ step = Creates(Msg) + 1 /\ Running /\ NextStatement /\ TypeOK /\ ~At("publish")
    BY <1>3, AtStatement, UsersFirst DEF CreateNFT, At, PlaceOf, TypeInv, TypeOK
  <2>2. At("publish")' /\ Msg' = Msg /\ Token' = Token
    BY <2>1, WriterPublishes
  <2>3. nfts' = Put(nfts, Token, [live |-> TRUE, owner |-> Msg.to, uri |-> Msg.uri, status |-> "default", auction |-> FALSE])
    BY <1>3 DEF CreateNFT
  <2>4. CASE t = Token
    BY <2>2, <2>3, <2>4 DEF Put, Telling
  <2>5. CASE t # Token
    <3>1. Live(t) /\ nfts'[t] = nfts[t]
      BY <2>3, <2>5 DEF Put, Live, Exists
    <3>. QED  BY <1>1, <1>2, <2>1, <3>1 DEF Telling
  <2>. QED  BY <2>4, <2>5
<1>4. CASE UpdateNFT
  <2>1. /\ Running /\ NextStatement /\ TypeOK /\ ~At("publish") /\ Msg \in Message
        /\ Statement.op \in {"update", "updateToBuyer"} /\ Creates(Msg) \in Nat
        /\ PlaceOf(Msg, Statement.op, step - Creates(Msg)) /\ step > Creates(Msg)
        /\ Len(HandleMsg(Msg)) \in Nat /\ step \in 1 .. Len(Statements(Msg))
    BY <1>4, AtStatement, UsersFirst, StatementsShape DEF UpdateNFT, At, TypeInv, TypeOK
  <2>2. nfts' = IF Live(Token) THEN [nfts EXCEPT ![Token] = Overwrite(nfts[Token], Columns)] ELSE nfts
    BY <1>4 DEF UpdateNFT
  <2>3. Live(t)
    BY <2>2 DEF Live, Exists, Overwrite
  <2>4. CASE ~Live(Token) \/ t # Token \/ "uri" \notin DOMAIN Columns
    <3>1. nfts'[t].uri = nfts[t].uri
      <4>1. CASE ~Live(Token) \/ t # Token
        BY <2>2, <4>1
      <4>2. CASE Live(Token) /\ t = Token /\ "uri" \notin DOMAIN Columns
        <5>1. nfts'[t] = Overwrite(nfts[t], Columns) /\ t \in DOMAIN nfts
          BY <2>2, <4>2 DEF Live, Exists
        <5>2. "uri" \in DOMAIN nfts[t]
          BY <2>1, <5>1 DEF TypeOK, TablesOK
        <5>. QED  BY <4>2, <5>1, <5>2 DEF Overwrite
      <4>. QED  BY <2>4, <4>1, <4>2
    <3>. QED  BY <1>1, <1>2, <2>1, <2>3, <3>1 DEF Telling
  <2>5. CASE Live(Token) /\ t = Token /\ "uri" \in DOMAIN Columns
    <3>1. Statement.op = "update" /\ step = Creates(Msg) + 1
      BY <2>1, <2>5 DEF Columns, PlaceOf
    <3>2. Statement = HandleMsg(Msg)[1]
      <4>1. step \in (Creates(Msg) + 1) .. Len(Statements(Msg)) /\ step - Creates(Msg) = 1
        BY <2>1, <3>1
      <4>. QED  BY <2>1, <4>1, StatementsShape DEF Statement
    <3>3. Columns = HandleMsg(Msg)[1].set
      BY <3>1, <3>2 DEF Columns
    <3>4. Msg.type = "EditNFTMetadata" /\ Columns = [uri |-> Msg.uri]
      BY <2>1, <2>5, <3>1, <3>2, <3>3, UriSetters
    <3>5. At("publish")' /\ Msg' = Msg /\ Token' = Token
      BY <2>1, <3>1, <3>4, WriterPublishes
    <3>6. nfts'[t] = Overwrite(nfts[t], Columns) /\ "uri" \in DOMAIN nfts[t]
      BY <2>1, <2>2, <2>5 DEF Live, Exists, TypeOK, TablesOK
    <3>7. nfts'[t].uri = Msg.uri
      BY <3>4, <3>6 DEF Overwrite
    <3>. QED  BY <2>5, <3>5, <3>7 DEF Telling
  <2>. QED  BY <2>4, <2>5
<1>5. CASE DeleteNFT
  <2>1. ~At("publish") /\ Live(t) /\ nfts'[t].uri = nfts[t].uri
    BY <1>5 DEF DeleteNFT, At, Live, Exists
  <2>. QED  BY <1>1, <1>2, <2>1 DEF Telling
<1>6. CASE PublishTask
  <2>1. Live(t) /\ nfts'[t] = nfts[t]
    BY <1>6 DEF PublishTask, tables, Live, Exists
  <2>2. CASE Telling(t)
    <3>1. tasks' = tasks \cup {[token |-> Token, uri |-> Msg.uri]}
      BY <1>6, <2>2 DEF PublishTask, At, Telling
    <3>. QED  BY <2>1, <2>2, <3>1 DEF Telling
  <2>. QED  BY <1>1, <1>2, <2>1, <2>2
<1>7. CASE nfts' = nfts /\ ~At("publish")
  BY <1>1, <1>2, <1>7 DEF Live, Exists, Telling
<1>8. CASE nfts' = nfts /\ Msg' = Msg /\ step' = step
  <2>1. Statements(Msg)' = Statements(Msg)
    BY <1>8, SameStatements
  <2>2. Telling(t) => Telling(t)'
    BY <1>8, <2>1 DEF Telling, At, Running, Statement, Token
  <2>. QED  BY <1>1, <1>2, <1>8, <2>2 DEF Live, Exists
<1>9. CASE ChainStep
  <2>1. nfts' = nfts /\ step' = step /\ \E m : pending' = Append(pending, m)
    BY <1>9, ChainSends DEF Send, tables
  <2>2. CASE pending = <<>>
    <3>1. ~At("publish")
      BY <2>2 DEF At, Running, TypeInv, TypeOK
    <3>. QED  BY <1>7, <2>1, <3>1
  <2>3. CASE pending # <<>>
    <3>1. Msg' = Msg
      BY <2>1, <2>3, HeadTailAppend DEF Msg, TypeInv, TypeOK
    <3>. QED  BY <1>8, <2>1, <3>1
  <2>. QED  BY <2>2, <2>3
<1>10. CASE SqlStatement /\ ~CreateNFT /\ ~UpdateNFT /\ ~DeleteNFT
  BY <1>7, <1>10 DEF SqlStatement, FindOrCreateUser, CreateBid, DeleteAllBids, CreateOffer, ScanOffer, DeleteOffer,
                     CreateFungible, At, tables
<1>11. CASE HandleFails \/ HandleSucceeds \/ Begin \/ EndBlock
  <2>1. nfts' = nfts
    BY <1>11 DEF HandleFails, HandleSucceeds, EndMsg, Begin, EndBlock, tables
  <2>2. ~At("publish")
    <3>1. CASE HandleFails
      BY <3>1 DEF PublishFails
    <3>2. CASE HandleSucceeds \/ Begin \/ EndBlock
      <4>1. CASE HandleSucceeds
        <5>1. step \in Nat /\ Len(Statements(Msg)) \in Nat /\ step > Len(Statements(Msg))
          BY <4>1, MsgType DEF HandleSucceeds, TypeInv, TypeOK
        <5>. QED  BY <5>1 DEF At, Running
      <4>2. CASE step = 0
        BY <4>2 DEF At, Running
      <4>. QED  BY <3>2, <4>1, <4>2 DEF Begin, EndBlock
    <3>. QED  BY <1>11, <3>1, <3>2
  <2>. QED  BY <1>7, <2>1, <2>2
<1>12. CASE ErrorIgnored
  BY <1>7, <1>12 DEF ErrorIgnored, Unchecked, At, tables
<1>13. CASE UNCHANGED vars
  BY <1>8, <1>13 DEF vars, tables, Msg
<1>. QED
  BY <1>3, <1>4, <1>5, <1>6, <1>9, <1>10, <1>11, <1>12, <1>13 DEF Next, Handler

\* Every loss is one of a crash or of the failure of RabbitMQ.
LEMMA LossesGrow ==
    ASSUME TypeInv, [Next]_vars
    PROVE  Losses \in Nat /\ Losses' \in Nat /\ Losses' >= IF Crash \/ PublishFails THEN Losses + 1 ELSE Losses
<1>1. \A S : /\ Cardinality(S \cap {"rmq"}) = IF "rmq" \in S THEN 1 ELSE 0
  <2>. TAKE S
  <2>1. S \cap {"rmq"} = IF "rmq" \in S THEN {"rmq"} ELSE {}
    OBVIOUS
  <2>. QED  BY <2>1, FS_EmptySet, FS_Singleton
<1>2. crashes \in Nat /\ crashes' \in Nat
  BY NextType, ConstantsAssumption DEF TypeInv, TypeOK
<1>3. CASE Crash
  <2>1. crashes' = crashes + 1 /\ faults' = faults
    BY <1>3 DEF Crash
  <2>2. Cardinality(faults \cap {"rmq"}) \in Nat /\ Losses' = Losses + 1
    BY <1>1, <1>2, <2>1 DEF Losses
  <2>. QED  BY <1>2, <1>3, <2>2 DEF Losses
<1>4. CASE HandleFails
  <2>1. crashes' = crashes /\ faults \subseteq faults'
    BY <1>4 DEF HandleFails, EndMsg, Fault
  <2>2. ~Crash
    BY <1>2, <2>1 DEF Crash
  <2>3. PublishFails => "rmq" \in faults' /\ "rmq" \notin faults
    BY DEF PublishFails, HandleFails, Refused, Fault, Sending, At
  <2>. QED  BY <1>1, <1>2, <2>1, <2>2, <2>3 DEF Losses
<1>5. CASE ~Crash /\ ~HandleFails
  <2>1. crashes' = crashes /\ faults \subseteq faults'
    <3>1. CASE ChainStep
      BY <3>1, ChainSends DEF Send
    <3>2. CASE SqlStatement \/ PublishTask
      BY <3>2 DEF SqlStatement, FindOrCreateUser, CreateNFT, UpdateNFT, DeleteNFT, CreateBid, DeleteAllBids,
             CreateOffer, ScanOffer, DeleteOffer, CreateFungible, PublishTask, NextStatement
    <3>3. CASE ErrorIgnored \/ HandleSucceeds
      BY <3>3 DEF ErrorIgnored, HandleSucceeds, EndMsg, Fault
    <3>4. CASE Begin \/ EndBlock \/ UNCHANGED vars
      BY <3>4 DEF Begin, EndBlock, vars
    <3>. QED  BY <1>5, <3>1, <3>2, <3>3, <3>4 DEF Next, Handler
  <2>. QED  BY <1>1, <1>2, <1>5, <2>1 DEF Losses, PublishFails
<1>. QED  BY <1>3, <1>4, <1>5

\* A crash or a failed publication loses the URI of the message at hand only.
LEMMA LostOne ==
    ASSUME Crash \/ PublishFails
    PROVE  Lost' \subseteq Lost \cup {Token}
<1>1. nfts' = nfts /\ tasks' = tasks
  BY DEF Crash, PublishFails, HandleFails, EndMsg, tables
<1>. QED  BY <1>1 DEF Lost, Unpublished, Telling

\* Between messages, the tokens of the mirror whose current URI the metadata worker was never
\* sent are at most one per crash and one for the failed publication: each statement that
\* gives a row its URI is followed by the publication, and nothing that the database or the
\* node refuses comes between.
THEOREM UrisReachQueue == Spec => []UrisPublished
<1>1. Init => UriInv
  <2>1. Init => Lost = {} /\ Losses = 0
    BY FS_EmptySet DEF Init, Lost, Unpublished, Losses, Empty
  <2>. QED  BY <2>1, FS_EmptySet DEF UriInv
<1>2. TypeInv /\ UriInv /\ [Next]_vars => UriInv'
  <2>. SUFFICES ASSUME TypeInv, UriInv, [Next]_vars  PROVE UriInv'
    OBVIOUS
  <2>0. IsFiniteSet(Lost) /\ Cardinality(Lost) \in Nat /\ Cardinality(Lost) <= Losses
    BY FS_CardinalityType DEF UriInv
  <2>1. CASE Crash \/ PublishFails
    <3>1. Lost' \subseteq Lost \cup {Token} /\ IsFiniteSet(Lost \cup {Token})
          /\ Cardinality(Lost \cup {Token}) <= Cardinality(Lost) + 1
      <4>1. IsFiniteSet(Lost \cup {Token})
            /\ Cardinality(Lost \cup {Token}) = IF Token \in Lost THEN Cardinality(Lost) ELSE Cardinality(Lost) + 1
        BY <2>0, FS_AddElement
      <4>2. Lost' \subseteq Lost \cup {Token}
        BY <2>1, LostOne
      <4>. QED  BY <2>0, <4>1, <4>2
    <3>2. IsFiniteSet(Lost') /\ Cardinality(Lost') <= Cardinality(Lost \cup {Token})
      BY <3>1, FS_Subset
    <3>3. Cardinality(Lost') \in Nat /\ Cardinality(Lost \cup {Token}) \in Nat
      BY <3>1, <3>2, FS_CardinalityType
    <3>. QED  BY <2>0, <2>1, <3>1, <3>2, <3>3, LossesGrow DEF UriInv
  <2>2. CASE ~Crash /\ ~PublishFails
    <3>1. Lost' \subseteq Lost
      <4>. SUFFICES ASSUME NEW t, t \in Lost', t \notin Lost  PROVE FALSE
        OBVIOUS
      <4>1. Live(t)'
        BY DEF Lost, Unpublished, Live, Exists
      <4>2. [token |-> t, uri |-> nfts[t].uri]' \in tasks' \/ Telling(t)'
        BY <2>2, <4>1, UriStep
      <4>. QED  BY <4>2 DEF Lost, Unpublished
    <3>2. IsFiniteSet(Lost') /\ Cardinality(Lost') <= Cardinality(Lost)
      BY <2>0, <3>1, FS_Subset
    <3>3. Cardinality(Lost') \in Nat
      BY <3>2, FS_CardinalityType
    <3>. QED  BY <2>0, <2>2, <3>2, <3>3, LossesGrow DEF UriInv
  <2>. QED  BY <2>1, <2>2
<1>3. UriInv => UrisPublished
  <2>1. step = 0 => Lost = Unpublished
    BY DEF Lost, Telling, At, Running
  <2>. QED  BY <2>1 DEF UriInv, UrisPublished, Losses
<1>. QED  BY <1>1, <1>2, <1>3, TypeInvariant, PTL DEF Spec

-----------------------------------------------------------------------------
(* The messages by number.                                                 *)

\* The messages before the cursor, and those handled since, which a restart repeats.
Cursor  == sent - Len(pending) - Len(done)
Handled == sent - Len(pending)
Nth(n) == IF n <= Handled THEN done[n - Cursor] ELSE pending[n - Handled]
Kept    == Cursor + 1 .. sent
Queue   == Handled + 1 .. sent

\* The i-th statement of HandleMsg for the n-th message is still to be run.
Ahead(n, i) == n > Handled + 1 \/ step <= Creates(Msg) + i

LEMMA NumberTypes ==
    ASSUME TypeOK
    PROVE  /\ sent \in Nat /\ Len(pending) \in Nat /\ Len(done) \in Nat
           /\ Cursor \in Int /\ Handled \in Int /\ Cursor <= Handled /\ Handled <= sent
           /\ Queue \subseteq Kept /\ Queue \subseteq Int /\ Kept \subseteq Int
<1>1. sent \in Nat /\ Len(pending) \in Nat /\ Len(done) \in Nat
  BY LenProperties, ConstantsAssumption DEF TypeOK
<1>. QED  BY <1>1 DEF Cursor, Handled, Queue, Kept

LEMMA NthType ==
    ASSUME TypeOK, NEW n \in Kept
    PROVE  Nth(n) \in Message /\ n \in Int
<1>1. n \in Int /\ n <= sent /\ n > Cursor
  BY NumberTypes DEF Kept
<1>2. CASE n <= Handled
  <2>1. n - Cursor \in 1 .. Len(done)
    BY <1>1, <1>2, NumberTypes DEF Cursor, Handled
  <2>. QED  BY <1>1, <1>2, <2>1, ElementOfSeq DEF Nth, TypeOK
<1>3. CASE ~(n <= Handled)
  <2>1. n - Handled \in 1 .. Len(pending)
    BY <1>1, <1>3, NumberTypes DEF Cursor, Handled
  <2>. QED  BY <1>1, <1>3, <2>1, ElementOfSeq DEF Nth, TypeOK
<1>. QED  BY <1>2, <1>3

LEMMA HeadNumber ==
    ASSUME TypeOK, pending # <<>>
    PROVE  Handled + 1 \in Queue /\ Nth(Handled + 1) = Msg
<1>0. Handled \in Int /\ Handled + 1 <= sent
  BY MsgType, NumberTypes DEF Handled
<1>1. Handled + 1 \in Queue /\ ~(Handled + 1 <= Handled) /\ (Handled + 1) - Handled = 1
  BY <1>0, NumberTypes DEF Queue
<1>. QED  BY <1>1, MsgType DEF Nth

LEMMA SameNumbers ==
    ASSUME UNCHANGED <<pending, done, sent>>
    PROVE  /\ Cursor' = Cursor /\ Handled' = Handled /\ sent' = sent /\ Msg' = Msg /\ Kept' = Kept /\ Queue' = Queue
           /\ \A n : Nth(n)' = Nth(n)
BY DEF Cursor, Handled, Nth, Msg, Kept, Queue

LEMMA SendNumbers ==
    ASSUME TypeOK, NEW m \in Message, Send(m)
    PROVE  /\ sent' = sent + 1 /\ Cursor' = Cursor /\ Handled' = Handled
           /\ \A n \in Kept : Nth(n)' = Nth(n)
           /\ \A n : n = sent + 1 => Nth(n)' = m
           /\ pending # <<>> => Msg' = Msg
<1>0. /\ sent' = sent + 1 /\ pending' = Append(pending, m) /\ done' = done
      /\ pending \in Seq(Message) /\ Len(pending') = Len(pending) + 1
  BY AppendProperties DEF Send, TypeOK
<1>1. Cursor' = Cursor /\ Handled' = Handled
  BY <1>0, NumberTypes DEF Cursor, Handled
<1>2. ASSUME NEW n \in Kept  PROVE Nth(n)' = Nth(n)
  <2>1. n \in Int /\ n <= sent /\ n > Cursor
    BY NumberTypes DEF Kept
  <2>2. CASE n <= Handled
    BY <1>0, <1>1, <2>2 DEF Nth
  <2>3. CASE ~(n <= Handled)
    <3>1. n - Handled \in 1 .. Len(pending)
      BY <2>1, <2>3, NumberTypes DEF Handled
    <3>. QED  BY <1>0, <1>1, <2>3, <3>1, AppendProperties DEF Nth
  <2>. QED  BY <2>2, <2>3
<1>3. \A n : n = sent + 1 => Nth(n)' = m
  <2>1. ~(sent + 1 <= Handled) /\ sent + 1 - Handled = Len(pending) + 1
    BY NumberTypes DEF Handled
  <2>2. pending'[Len(pending) + 1] = m
    BY <1>0, AppendProperties
  <2>3. ASSUME NEW n, n = sent + 1  PROVE Nth(n)' = m
    <3>1. ~(n <= Handled') /\ n - Handled' = Len(pending) + 1
      BY <1>1, <2>1, <2>3, NumberTypes
    <3>. QED  BY <2>2, <3>1 DEF Nth
  <2>. QED  BY <2>3
<1>4. pending # <<>> => Msg' = Msg
  BY <1>0, HeadTailAppend DEF Msg
<1>. QED  BY <1>0, <1>1, <1>2, <1>3, <1>4

LEMMA EndMsgNumbers ==
    ASSUME TypeOK, pending # <<>>, NEW ok \in BOOLEAN, EndMsg(ok)
    PROVE  /\ sent' = sent /\ Cursor' = (IF ok THEN Handled ELSE Cursor) /\ Handled' = Handled + 1
           /\ \A n \in Kept' : n \in Kept /\ Nth(n)' = Nth(n)
<1>0. /\ sent' = sent /\ pending' = Tail(pending) /\ done' = IF ok THEN <<Msg>> ELSE Append(done, Msg)
      /\ pending \in Seq(Message) /\ done \in Seq(Message) /\ Msg \in Message /\ Len(pending) \in Nat /\ Len(pending) >= 1
  BY MsgType DEF EndMsg, chain, TypeOK
<1>1. Len(pending') = Len(pending) - 1 /\ Len(done') = IF ok THEN 1 ELSE Len(done) + 1
  BY <1>0, HeadTailProperties, AppendProperties
<1>2. Cursor' = (IF ok THEN Handled ELSE Cursor) /\ Handled' = Handled + 1
  BY <1>0, <1>1, NumberTypes DEF Cursor, Handled
<1>3. ASSUME NEW n \in Kept'  PROVE n \in Kept /\ Nth(n)' = Nth(n)
  <2>1. n \in Int /\ n <= sent /\ n > Cursor /\ n > Cursor'
    BY <1>0, <1>2, NumberTypes DEF Kept
  <2>2. n \in Kept
    BY <2>1, NumberTypes DEF Kept
  <2>3. CASE n <= Handled
    <3>1. n - Cursor \in 1 .. Len(done)
      BY <2>1, <2>3, NumberTypes DEF Cursor, Handled
    <3>2. ~ok
      BY <1>2, <2>1, <2>3, NumberTypes
    <3>3. n <= Handled' /\ done' = Append(done, Msg) /\ Cursor' = Cursor
      BY <1>0, <1>2, <2>1, <2>3, <3>2, NumberTypes
    <3>. QED  BY <1>0, <2>2, <2>3, <3>1, <3>3, AppendProperties DEF Nth
  <2>4. CASE n = Handled + 1
    <3>1. Nth(n) = Msg
      BY <2>4, HeadNumber
    <3>2. n <= Handled' /\ n - Cursor' = (IF ok THEN 1 ELSE Len(done) + 1)
      <4>0. sent \in Int /\ Len(pending) \in Int /\ Len(done) \in Int
        BY NumberTypes
      <4>1. Handled - Cursor = Len(done)
        BY <4>0 DEF Cursor, Handled
      <4>. QED  BY <1>2, <2>4, <4>1, NumberTypes
    <3>3. done'[IF ok THEN 1 ELSE Len(done) + 1] = Msg
      BY <1>0, AppendProperties
    <3>. QED  BY <2>2, <3>1, <3>2, <3>3 DEF Nth
  <2>5. CASE n > Handled + 1
    <3>0. n \in Int /\ sent \in Int /\ Len(pending) \in Int /\ Handled = sent - Len(pending) /\ n <= sent
      BY <2>1, NumberTypes DEF Handled
    <3>1. ~(n <= Handled) /\ ~(n <= Handled') /\ n - Handled = (n - Handled') + 1 /\ n - Handled' \in 1 .. Len(pending')
      BY <1>1, <1>2, <2>5, <3>0
    <3>2. \A i \in 1 .. Len(pending') : pending'[i] = pending[i + 1]
      BY <1>0, HeadTailProperties
    <3>3. pending'[n - Handled'] = pending[n - Handled]
      BY <3>1, <3>2
    <3>. QED  BY <2>2, <3>1, <3>3 DEF Nth
  <2>. QED  BY <2>1, <2>3, <2>4, <2>5, NumberTypes
<1>. QED  BY <1>0, <1>2, <1>3

LEMMA EndBlockNumbers ==
    ASSUME TypeOK, EndBlock
    PROVE  /\ sent' = sent /\ Cursor' = Handled /\ Handled' = Handled /\ Msg' = Msg
           /\ \A n \in Kept' : n \in Kept /\ Nth(n)' = Nth(n)
<1>0. sent' = sent /\ pending' = pending /\ done' = <<>> /\ Len(done') = 0
  BY EmptySeq DEF EndBlock, chain
<1>1. Cursor' = Handled /\ Handled' = Handled
  BY <1>0, NumberTypes DEF Cursor, Handled
<1>2. ASSUME NEW n \in Kept'  PROVE n \in Kept /\ Nth(n)' = Nth(n)
  BY <1>0, <1>1, NumberTypes DEF Kept, Nth
<1>. QED  BY <1>0, <1>1, <1>2 DEF Msg

LEMMA CrashNumbers ==
    ASSUME TypeOK, Crash
    PROVE  /\ sent' = sent /\ Cursor' = Cursor /\ Handled' = Cursor
           /\ \A n \in Kept' : n \in Kept /\ Nth(n)' = Nth(n)
<1>0. /\ sent' = sent /\ pending' = done \o pending /\ done' = <<>> /\ Len(done') = 0
      /\ pending \in Seq(Message) /\ done \in Seq(Message)
  BY EmptySeq DEF Crash, chain, TypeOK
<1>1. Len(pending') = Len(done) + Len(pending)
  BY <1>0, ConcatProperties
<1>2. Cursor' = Cursor /\ Handled' = Cursor
  BY <1>0, <1>1, NumberTypes DEF Cursor, Handled
<1>3. ASSUME NEW n \in Kept'  PROVE n \in Kept /\ Nth(n)' = Nth(n)
  <2>1. n \in Int /\ n <= sent /\ n > Cursor /\ n \in Kept /\ ~(n <= Handled')
    BY <1>0, <1>2, NumberTypes DEF Kept
  <2>2. n - Cursor \in 1 .. Len(done) + Len(pending)
    BY <2>1, NumberTypes DEF Cursor
  <2>3. pending'[n - Cursor] = IF n - Cursor <= Len(done) THEN done[n - Cursor] ELSE pending[n - Cursor - Len(done)]
    BY <1>0, <2>2, ConcatProperties
  <2>4. (n - Cursor <= Len(done) <=> n <= Handled) /\ n - Cursor - Len(done) = n - Handled
    BY <2>1, NumberTypes DEF Cursor, Handled
  <2>. QED  BY <1>2, <2>1, <2>3, <2>4 DEF Nth
<1>. QED  BY <1>0, <1>2, <1>3

-----------------------------------------------------------------------------
(* What the chain has done and the messages kept say the same.             *)

Of(m, t)     == "token" \in DOMAIN m /\ m.token = t
OfOffer(m, o) == "offer" \in DOMAIN m /\ m.offer = o
OfDenom(m, d) == "denom" \in DOMAIN m /\ m.denom = d
Closes(m, o) == OfOffer(m, o) /\ m.type # "MakeOffer"
BidOn(m, t)  == m.type = "MakeBidOnAuction" /\ ~m.isBuyout /\ m.token = t
Ends(m, t)   == EndsAuction(m) /\ m.token = t

Fields == {"owner", "uri", "status", "auction"}

\* The columns a message leaves in the row of its token.
NewColumns(m) ==
    IF m.type = "MintNFT" THEN [owner |-> m.to, uri |-> m.uri, status |-> "default", auction |-> FALSE]
    ELSE IF m.type = "AcceptOffer" THEN [owner |-> offered[m.offer].buyer]
    ELSE IF m.type \in Updating \/ Buyout(m) THEN HandleMsg(m)[1].set
    ELSE <<>>

Sets(m, t, f) == Of(m, t) /\ f \in DOMAIN NewColumns(m)

\* The row of a token as it is on chain.
RowOf(token) ==
    [owner |-> token.owner, uri |-> token.uri, status |-> token.status, auction |-> token.status = "auction"]
ChainRow(t) == RowOf(nft[t])

\* A token has the columns of the last message that sets them.
LastSetter ==
    \A n \in Kept, t \in Tokens, f \in Fields :
        Sets(Nth(n), t, f) /\ (\A k \in n + 1 .. sent : ~Sets(Nth(k), t, f))
            => NewColumns(Nth(n))[f] = ChainRow(t)[f]

TokenMessages ==
    /\ \A n \in Kept, t \in Tokens : Of(Nth(n), t) => t \in DOMAIN nft
    /\ \A n, k \in Kept : Nth(n).type = "MintNFT" /\ Of(Nth(k), Nth(n).token) => n <= k
    /\ \A n \in Kept : Nth(n).type = "BurnNFT" => ~nft[Nth(n).token].exists

OfferMessages ==
    /\ \A n \in Kept, o \in OfferIds : OfOffer(Nth(n), o) =>
          /\ o \in DOMAIN offered /\ offered[o].token = Nth(n).token
          /\ Nth(n).type = "MakeOffer" => offered[o].buyer = Nth(n).by
          /\ Nth(n).type # "MakeOffer" => ~offered[o].open
    /\ \A n, k \in Kept : Nth(n).type = "MakeOffer" /\ OfOffer(Nth(k), Nth(n).offer) => n <= k
    /\ \A n \in Kept : Nth(n).type = "MakeOffer" /\ ~offered[Nth(n).offer].open =>
          \E k \in n + 1 .. sent : Closes(Nth(k), Nth(n).offer)

Bids(t) == IF t \in DOMAIN nft THEN nft[t].bids ELSE 0

\* The bids among the messages kept that no later one puts an end to.
Recent(t) == {k \in Kept : BidOn(Nth(k), t) /\ \A j \in k + 1 .. sent : ~Ends(Nth(j), t)}

BidMessages ==
    \A t \in Tokens :
        /\ ~Auctioned(t) => Bids(t) = 0
        /\ (\E n \in Kept : Ends(Nth(n), t)) => Cardinality(Recent(t)) = Bids(t)
        /\ Recent(t) # {} => Auctioned(t)

FungibleMessages ==
    /\ \A n \in Kept, d \in Denoms : OfDenom(Nth(n), d) => d \in supply
    /\ \A n, k \in Kept : Nth(n).type = "CreateFungibleToken" /\ OfDenom(Nth(k), Nth(n).denom) => n <= k

HistInv == LastSetter /\ TokenMessages /\ OfferMessages /\ BidMessages /\ FungibleMessages

-----------------------------------------------------------------------------
(* What the chain sends keeps HistInv.                                     *)

LEMMA ColumnsOf ==
    ASSUME NEW m \in Message
    PROVE  /\ m.type = "MintNFT" =>
                NewColumns(m) = [owner |-> m.to, uri |-> m.uri, status |-> "default", auction |-> FALSE]
           /\ m.type = "EditNFTMetadata" => NewColumns(m) = [uri |-> m.uri]
           /\ m.type = "TransferNFT" => NewColumns(m) = [owner |-> m.to]
           /\ m.type = "PutNFTOnMarket" => NewColumns(m) = [status |-> "market"]
           /\ m.type = "RemoveNFTFromMarket" => NewColumns(m) = [status |-> "default"]
           /\ m.type = "BuyNFT" => NewColumns(m) = [owner |-> m.by, status |-> "default"]
           /\ m.type = "PutNFTOnAuction" => NewColumns(m) = [status |-> "auction", auction |-> TRUE]
           /\ m.type = "RemoveNFTFromAuction" => NewColumns(m) = [status |-> "default", auction |-> FALSE]
           /\ m.type = "BuyoutOnAuction" \/ Buyout(m) =>
                NewColumns(m) = [owner |-> m.by, status |-> "default", auction |-> FALSE]
           /\ m.type = "FinishAuction" =>
                NewColumns(m) = [owner |-> m.newOwner, status |-> "default", auction |-> FALSE]
           /\ m.type = "AcceptOffer" => NewColumns(m) = [owner |-> offered[m.offer].buyer]
           /\ m.type = "BurnNFT" => NewColumns(m) = <<>>
           /\ m.type \in {"MakeOffer", "RemoveOffer", "CreateFungibleToken", "TransferFungibleTokens"}
              \/ (m.type = "MakeBidOnAuction" /\ ~Buyout(m)) => NewColumns(m) = <<>>
<1>. USE DEF NewColumns, Updating, Update, Listing, NoAuction, SoldTo
<1>1. m.type = "MintNFT" =>
                NewColumns(m) = [owner |-> m.to, uri |-> m.uri, status |-> "default", auction |-> FALSE]
  OBVIOUS
<1>2. m.type = "EditNFTMetadata" => NewColumns(m) = [uri |-> m.uri]
  BY DEF HandleMsg
<1>3. m.type = "TransferNFT" => NewColumns(m) = [owner |-> m.to]
  BY DEF HandleMsg
<1>4. m.type = "PutNFTOnMarket" => NewColumns(m) = [status |-> "market"]
  BY DEF HandleMsg
<1>5. m.type = "RemoveNFTFromMarket" => NewColumns(m) = [status |-> "default"]
  BY DEF HandleMsg
<1>6. m.type = "BuyNFT" => NewColumns(m) = [owner |-> m.by, status |-> "default"]
  BY DEF HandleMsg
<1>7. m.type = "PutNFTOnAuction" => NewColumns(m) = [status |-> "auction", auction |-> TRUE]
  BY DEF HandleMsg
<1>8. m.type = "RemoveNFTFromAuction" => NewColumns(m) = [status |-> "default", auction |-> FALSE]
  BY DEF HandleMsg
<1>9. m.type = "BuyoutOnAuction" \/ Buyout(m) =>
        NewColumns(m) = [owner |-> m.by, status |-> "default", auction |-> FALSE]
  <2>1. Buyout(m) => HandleMsg(m) = <<SoldTo(m.by), DeleteBids(TRUE)>>
    BY DEF HandleMsg, Buyout
  <2>. QED  BY <2>1 DEF HandleMsg, Buyout
<1>10. m.type = "FinishAuction" =>
        NewColumns(m) = [owner |-> m.newOwner, status |-> "default", auction |-> FALSE]
  BY DEF HandleMsg
<1>11. m.type = "AcceptOffer" => NewColumns(m) = [owner |-> offered[m.offer].buyer]
  OBVIOUS
<1>13. m.type = "BurnNFT" => NewColumns(m) = <<>>
  BY DEF Buyout
<1>12. m.type \in {"MakeOffer", "RemoveOffer", "CreateFungibleToken", "TransferFungibleTokens"}
       \/ (m.type = "MakeBidOnAuction" /\ ~Buyout(m)) => NewColumns(m) = <<>>
  BY DEF Buyout
<1>. HIDE DEF NewColumns
<1>. QED  BY <1>1, <1>2, <1>3, <1>4, <1>5, <1>6, <1>7, <1>8, <1>9, <1>10, <1>11, <1>12, <1>13

\* What a message about token t does to it, and what Handle will do to its row, are the same.
SameColumns(t, m, token) ==
    \A f \in Fields : IF f \in DOMAIN NewColumns(m) THEN RowOf(token)[f] = NewColumns(m)[f]
                                                    ELSE t \in DOMAIN nft /\ RowOf(token)[f] = ChainRow(t)[f]

LEMMA ByField ==
    ASSUME NEW t, NEW m, NEW token,
           IF "owner" \in DOMAIN NewColumns(m) THEN RowOf(token).owner = NewColumns(m).owner
                                               ELSE t \in DOMAIN nft /\ RowOf(token).owner = ChainRow(t).owner,
           IF "uri" \in DOMAIN NewColumns(m) THEN RowOf(token).uri = NewColumns(m).uri
                                             ELSE t \in DOMAIN nft /\ RowOf(token).uri = ChainRow(t).uri,
           IF "status" \in DOMAIN NewColumns(m) THEN RowOf(token).status = NewColumns(m).status
                                                ELSE t \in DOMAIN nft /\ RowOf(token).status = ChainRow(t).status,
           IF "auction" \in DOMAIN NewColumns(m) THEN RowOf(token).auction = NewColumns(m).auction
                                                 ELSE t \in DOMAIN nft /\ RowOf(token).auction = ChainRow(t).auction
    PROVE  SameColumns(t, m, token)
<1>. SUFFICES ASSUME NEW f \in Fields
              PROVE  IF f \in DOMAIN NewColumns(m) THEN RowOf(token)[f] = NewColumns(m)[f]
                                                    ELSE t \in DOMAIN nft /\ RowOf(token)[f] = ChainRow(t)[f]
  BY DEF SameColumns
<1>1. CASE f = "owner"
  BY <1>1
<1>2. CASE f = "uri"
  BY <1>2
<1>3. CASE f = "status"
  BY <1>3
<1>4. CASE f = "auction"
  BY <1>4
<1>. QED  BY <1>1, <1>2, <1>3, <1>4 DEF Fields

\* The columns a message sets in the shapes they have: of a status, of a purchase, of an
\* auction's begin and end, of an auction's sale.
LEMMA ByShape ==
    ASSUME NEW t \in DOMAIN nft, NEW m, NEW token, NEW o, NEW u, NEW s, NEW c, NEW p, NEW r, NEW d,
           RowOf(token) = [owner |-> o, uri |-> u, status |-> s, auction |-> c],
           ChainRow(t) = [owner |-> p, uri |-> u, status |-> r, auction |-> d],
           \/ NewColumns(m) = [status |-> s] /\ o = p /\ c = d
           \/ NewColumns(m) = [owner |-> o, status |-> s] /\ c = d
           \/ NewColumns(m) = [status |-> s, auction |-> c] /\ o = p
           \/ NewColumns(m) = [owner |-> o, status |-> s, auction |-> c]
    PROVE  SameColumns(t, m, token)
<1>1. IF "owner" \in DOMAIN NewColumns(m) THEN RowOf(token).owner = NewColumns(m).owner
                                   ELSE t \in DOMAIN nft /\ RowOf(token).owner = ChainRow(t).owner
  OBVIOUS
<1>2. IF "uri" \in DOMAIN NewColumns(m) THEN RowOf(token).uri = NewColumns(m).uri
                                   ELSE t \in DOMAIN nft /\ RowOf(token).uri = ChainRow(t).uri
  OBVIOUS
<1>3. IF "status" \in DOMAIN NewColumns(m) THEN RowOf(token).status = NewColumns(m).status
                                   ELSE t \in DOMAIN nft /\ RowOf(token).status = ChainRow(t).status
  OBVIOUS
<1>4. IF "auction" \in DOMAIN NewColumns(m) THEN RowOf(token).auction = NewColumns(m).auction
                                   ELSE t \in DOMAIN nft /\ RowOf(token).auction = ChainRow(t).auction
  OBVIOUS
<1>. QED  BY <1>1, <1>2, <1>3, <1>4, ByField

Lifetime(t, m, token) ==
    /\ m.type = "MintNFT" <=> t \notin DOMAIN nft
    /\ m.type = "BurnNFT" <=> ~token.exists
    /\ t \in DOMAIN nft => nft[t].exists

Auctioning(t, m, token) ==
    /\ BidOn(m, t) => Auctioned(t) /\ token.bids = Bids(t) + 1
    /\ Ends(m, t) => token.bids = 0
    /\ ~BidOn(m, t) /\ ~Ends(m, t) => token.bids = Bids(t)
    /\ Auctioned(t) /\ ~Ends(m, t) => token.exists /\ token.status = "auction"
    /\ ~(token.exists /\ token.status = "auction") => token.bids = 0
    /\ token.bidder \in {NoOne, m.by} \/ (t \in DOMAIN nft /\ token.bidder = nft[t].bidder)
    /\ m.type = "FinishAuction" =>
          m.newOwner = m.by \/ (t \in DOMAIN nft /\ m.newOwner = nft[t].bidder /\ nft[t].bidder # NoOne)

Effect(t, m, token) ==
    /\ m \in Message /\ token \in ChainToken
    /\ "token" \in DOMAIN m /\ m.token = t /\ "offer" \notin DOMAIN m /\ "denom" \notin DOMAIN m
    /\ SameColumns(t, m, token) /\ Lifetime(t, m, token) /\ Auctioning(t, m, token)

LEMMA MintEffect ==
    ASSUME TypeOK, BidMessages, ReMint = FALSE, NEW t \in Tokens, NEW a \in Accounts, NEW b \in Addresses, NEW u \in Uris,
           ~OnChain(t), t \in DOMAIN nft => ReMint
    PROVE  Effect(t, [type |-> "MintNFT", token |-> t, by |-> a, to |-> b, uri |-> u], Minted(b, u))
<1>. DEFINE m == [type |-> "MintNFT", token |-> t, by |-> a, to |-> b, uri |-> u]
<1>1. m \in Message /\ Minted(b, u) \in ChainToken
  BY DEF Message, Minted, ChainToken, Status
<1>2. m.type = "MintNFT" /\ m.token = t /\ "token" \in DOMAIN m /\ "offer" \notin DOMAIN m /\ "denom" \notin DOMAIN m
      /\ m.to = b /\ m.uri = u
  OBVIOUS
<1>. HIDE DEF m
<1>3. SameColumns(t, m, Minted(b, u))
  BY <1>1, <1>2, ColumnsOf DEF SameColumns, Fields, Minted, RowOf
<1>4. Lifetime(t, m, Minted(b, u)) /\ Auctioning(t, m, Minted(b, u))
  BY <1>2 DEF Lifetime, Auctioning, Minted, Bids, BidOn, Ends, EndsAuction, Buyout, Auctioned, OnChain
<1>. QED  BY <1>1, <1>2, <1>3, <1>4 DEF Effect, m

LEMMA IdleEffect ==
    ASSUME TypeOK, BidMessages, NEW t \in Tokens, NEW a \in Accounts, NEW b \in Addresses, NEW u \in Uris,
           NEW c \in Beneficiaries, Idle(t), a = nft[t].owner
    PROVE  /\ Effect(t, [type |-> "BurnNFT", token |-> t, by |-> a], [nft[t] EXCEPT !.exists = FALSE])
           /\ Effect(t, [type |-> "EditNFTMetadata", token |-> t, by |-> a, uri |-> u], [nft[t] EXCEPT !.uri = u])
           /\ Effect(t, [type |-> "TransferNFT", token |-> t, by |-> a, to |-> b], [nft[t] EXCEPT !.owner = b])
           /\ Effect(t, [type |-> "PutNFTOnMarket", token |-> t, by |-> a, beneficiary |-> c], [nft[t] EXCEPT !.status = "market"])
           /\ Effect(t, [type |-> "PutNFTOnAuction", token |-> t, by |-> a, beneficiary |-> c], [nft[t] EXCEPT !.status = "auction"])
<1>0. t \in DOMAIN nft /\ nft[t] \in ChainToken /\ nft[t].exists /\ nft[t].status = "default" /\ ~Auctioned(t)
      /\ Bids(t) = nft[t].bids /\ Bids(t) = 0
  BY DEF TypeOK, ChainOK, ChainToken, Idle, OnChain, Auctioned, Bids, BidMessages
<1>1. ASSUME NEW m \in Message, NEW token \in ChainToken, m.token = t, "token" \in DOMAIN m,
             "offer" \notin DOMAIN m, "denom" \notin DOMAIN m,
             m.type \in {"BurnNFT", "EditNFTMetadata", "TransferNFT", "PutNFTOnMarket", "PutNFTOnAuction"},
             m.type = "BurnNFT" <=> ~token.exists,
             token.bids = nft[t].bids, token.bidder = nft[t].bidder, SameColumns(t, m, token)
      PROVE  Effect(t, m, token)
  BY <1>0, <1>1 DEF Effect, Lifetime, Auctioning, BidOn, Ends, EndsAuction, Buyout
<1>2. Effect(t, [type |-> "BurnNFT", token |-> t, by |-> a], [nft[t] EXCEPT !.exists = FALSE])
  <2>. DEFINE m == [type |-> "BurnNFT", token |-> t, by |-> a]
              token == [nft[t] EXCEPT !.exists = FALSE]
  <2>1. m \in Message /\ token \in ChainToken
    BY <1>0 DEF Message, ChainToken
  <2>2. NewColumns(m) = <<>>
    <3>1. m.type = "BurnNFT"
      OBVIOUS
    <3>2. m \in Message
      BY <2>1
    <3>. HIDE DEF m, token
    <3>. QED  BY <3>1, <3>2, ColumnsOf
  <2>3. SameColumns(t, m, token)
    BY <1>0, <2>2, ByField DEF RowOf, ChainRow, ChainToken
  <2>. QED  BY <1>0, <1>1, <2>1, <2>3 DEF ChainToken
<1>3. Effect(t, [type |-> "EditNFTMetadata", token |-> t, by |-> a, uri |-> u], [nft[t] EXCEPT !.uri = u])
  <2>. DEFINE m == [type |-> "EditNFTMetadata", token |-> t, by |-> a, uri |-> u]
              token == [nft[t] EXCEPT !.uri = u]
  <2>1. m \in Message /\ token \in ChainToken
    BY <1>0 DEF Message, ChainToken
  <2>2. NewColumns(m) = [uri |-> u]
    BY <2>1, ColumnsOf
  <2>3. SameColumns(t, m, token)
    BY <1>0, <2>2, ByField DEF RowOf, ChainRow, ChainToken
  <2>. QED  BY <1>0, <1>1, <2>1, <2>3 DEF ChainToken
<1>4. Effect(t, [type |-> "TransferNFT", token |-> t, by |-> a, to |-> b], [nft[t] EXCEPT !.owner = b])
  <2>. DEFINE m == [type |-> "TransferNFT", token |-> t, by |-> a, to |-> b]
              token == [nft[t] EXCEPT !.owner = b]
  <2>1. m \in Message /\ token \in ChainToken
    BY <1>0 DEF Message, ChainToken
  <2>2. NewColumns(m) = [owner |-> b]
    BY <2>1, ColumnsOf
  <2>3. SameColumns(t, m, token)
    BY <1>0, <2>2, ByField DEF RowOf, ChainRow, ChainToken
  <2>. QED  BY <1>0, <1>1, <2>1, <2>3 DEF ChainToken
<1>5. Effect(t, [type |-> "PutNFTOnMarket", token |-> t, by |-> a, beneficiary |-> c], [nft[t] EXCEPT !.status = "market"])
  <2>. DEFINE m == [type |-> "PutNFTOnMarket", token |-> t, by |-> a, beneficiary |-> c]
              token == [nft[t] EXCEPT !.status = "market"]
  <2>1. m \in Message /\ token \in ChainToken
    BY <1>0 DEF Message, ChainToken, Status
  <2>2. NewColumns(m) = [status |-> "market"]
    BY <2>1, ColumnsOf
  <2>3. /\ ChainRow(t) = [owner |-> nft[t].owner, uri |-> nft[t].uri, status |-> "default", auction |-> FALSE]
        /\ RowOf(token) = [owner |-> nft[t].owner, uri |-> nft[t].uri, status |-> "market", auction |-> FALSE]
    BY <1>0 DEF RowOf, ChainRow, ChainToken
  <2>4. SameColumns(t, m, token)
    <3>. HIDE DEF m, token
    <3>. QED  BY <1>0, <2>2, <2>3, ByShape
  <2>. QED  BY <1>0, <1>1, <2>1, <2>4 DEF ChainToken
<1>6. Effect(t, [type |-> "PutNFTOnAuction", token |-> t, by |-> a, beneficiary |-> c], [nft[t] EXCEPT !.status = "auction"])
  <2>. DEFINE m == [type |-> "PutNFTOnAuction", token |-> t, by |-> a, beneficiary |-> c]
              token == [nft[t] EXCEPT !.status = "auction"]
  <2>1. m \in Message /\ token \in ChainToken
    BY <1>0 DEF Message, ChainToken, Status
  <2>2. NewColumns(m) = [status |-> "auction", auction |-> TRUE]
    BY <2>1, ColumnsOf
  <2>3. /\ ChainRow(t) = [owner |-> nft[t].owner, uri |-> nft[t].uri, status |-> "default", auction |-> FALSE]
        /\ RowOf(token) = [owner |-> nft[t].owner, uri |-> nft[t].uri, status |-> "auction", auction |-> TRUE]
    BY <1>0 DEF RowOf, ChainRow, ChainToken
  <2>4. SameColumns(t, m, token)
    <3>. HIDE DEF m, token
    <3>. QED  BY <1>0, <2>2, <2>3, ByShape
  <2>. QED  BY <1>0, <1>1, <2>1, <2>4 DEF ChainToken
<1>. QED  BY <1>2, <1>3, <1>4, <1>5, <1>6

LEMMA ListedEffect ==
    ASSUME TypeOK, BidMessages, NEW t \in Tokens, NEW a \in Accounts, NEW c \in Beneficiaries, Listed(t)
    PROVE  /\ Effect(t, [type |-> "RemoveNFTFromMarket", token |-> t, by |-> a], [nft[t] EXCEPT !.status = "default"])
           /\ Effect(t, [type |-> "BuyNFT", token |-> t, by |-> a, beneficiary |-> c],
                     [nft[t] EXCEPT !.owner = a, !.status = "default"])
<1>0. t \in DOMAIN nft /\ nft[t] \in ChainToken /\ nft[t].exists /\ nft[t].status = "market" /\ ~Auctioned(t)
      /\ Bids(t) = nft[t].bids /\ Bids(t) = 0
  BY DEF TypeOK, ChainOK, ChainToken, Listed, OnChain, Auctioned, Bids, BidMessages
<1>a. a \in Addresses
  BY ConstantsAssumption
<1>1. ASSUME NEW m \in Message, NEW token \in ChainToken, m.token = t, "token" \in DOMAIN m,
             "offer" \notin DOMAIN m, "denom" \notin DOMAIN m,
             m.type \in {"RemoveNFTFromMarket", "BuyNFT"}, token.exists,
             token.bids = nft[t].bids, token.bidder = nft[t].bidder, SameColumns(t, m, token)
      PROVE  Effect(t, m, token)
  BY <1>0, <1>1 DEF Effect, Lifetime, Auctioning, BidOn, Ends, EndsAuction, Buyout
<1>2. Effect(t, [type |-> "RemoveNFTFromMarket", token |-> t, by |-> a], [nft[t] EXCEPT !.status = "default"])
  <2>. DEFINE m == [type |-> "RemoveNFTFromMarket", token |-> t, by |-> a]
              token == [nft[t] EXCEPT !.status = "default"]
  <2>1. m \in Message /\ token \in ChainToken
    BY <1>0 DEF Message, ChainToken, Status
  <2>2. NewColumns(m) = [status |-> "default"]
    BY <2>1, ColumnsOf
  <2>3. SameColumns(t, m, token)
    BY <1>0, <2>2, ByField DEF RowOf, ChainRow, ChainToken
  <2>. QED  BY <1>0, <1>1, <2>1, <2>3 DEF ChainToken
<1>3. Effect(t, [type |-> "BuyNFT", token |-> t, by |-> a, beneficiary |-> c], [nft[t] EXCEPT !.owner = a, !.status = "default"])
  <2>. DEFINE m == [type |-> "BuyNFT", token |-> t, by |-> a, beneficiary |-> c]
              token == [nft[t] EXCEPT !.owner = a, !.status = "default"]
  <2>1. m \in Message /\ token \in ChainToken
    BY <1>0, <1>a DEF Message, ChainToken, Status
  <2>2. NewColumns(m) = [owner |-> a, status |-> "default"]
    BY <2>1, ColumnsOf
  <2>3. /\ ChainRow(t) = [owner |-> nft[t].owner, uri |-> nft[t].uri, status |-> "market", auction |-> FALSE]
        /\ RowOf(token) = [owner |-> a, uri |-> nft[t].uri, status |-> "default", auction |-> FALSE]
    BY <1>0 DEF RowOf, ChainRow, ChainToken
  <2>4. SameColumns(t, m, token)
    BY <1>0, <2>2, <2>3, ByShape
  <2>. QED  BY <1>0, <1>1, <2>1, <2>4 DEF ChainToken
<1>. QED  BY <1>2, <1>3

LEMMA AuctionEffect ==
    ASSUME TypeOK, BidMessages, NEW t \in Tokens, NEW a \in Accounts, NEW c \in Beneficiaries, Auctioned(t)
    PROVE  /\ a = nft[t].owner =>
                Effect(t, [type |-> "RemoveNFTFromAuction", token |-> t, by |-> a], OffAuction(t, a))
           /\ LET winner == IF nft[t].bidder = NoOne THEN a ELSE nft[t].bidder
              IN  Effect(t, [type |-> "FinishAuction", token |-> t, by |-> a, newOwner |-> winner],
                         OffAuction(t, winner))
           /\ Effect(t, [type |-> "MakeBidOnAuction", token |-> t, by |-> a, beneficiary |-> c, isBuyout |-> FALSE],
                     [nft[t] EXCEPT !.bids = nft[t].bids + 1, !.bidder = a])
           /\ Effect(t, [type |-> "MakeBidOnAuction", token |-> t, by |-> a, beneficiary |-> c, isBuyout |-> TRUE], OffAuction(t, a))
           /\ Effect(t, [type |-> "BuyoutOnAuction", token |-> t, by |-> a, beneficiary |-> c], OffAuction(t, a))
<1>0. t \in DOMAIN nft /\ nft[t] \in ChainToken /\ nft[t].exists /\ nft[t].status = "auction"
      /\ Bids(t) = nft[t].bids
  BY DEF TypeOK, ChainOK, ChainToken, OnChain, Auctioned, Bids
<1>c. ChainRow(t) = [owner |-> nft[t].owner, uri |-> nft[t].uri, status |-> "auction", auction |-> TRUE]
  BY <1>0 DEF ChainRow, RowOf
<1>a. a \in Addresses
  BY ConstantsAssumption
<1>b. ASSUME NEW x \in Addresses
      PROVE  /\ OffAuction(t, x) \in ChainToken /\ OffAuction(t, x).exists /\ OffAuction(t, x).bids = 0
             /\ OffAuction(t, x).bidder = NoOne
             /\ RowOf(OffAuction(t, x)) = [owner |-> x, uri |-> nft[t].uri, status |-> "default", auction |-> FALSE]
  BY <1>0 DEF OffAuction, ChainToken, Status, RowOf
<1>1. ASSUME NEW m \in Message, NEW x \in Addresses, m.token = t, "token" \in DOMAIN m,
             "offer" \notin DOMAIN m, "denom" \notin DOMAIN m, Ends(m, t),
             m.type = "FinishAuction" => m.newOwner = m.by \/ (m.newOwner = nft[t].bidder /\ nft[t].bidder # NoOne),
             SameColumns(t, m, OffAuction(t, x))
      PROVE  Effect(t, m, OffAuction(t, x))
  <2>1. Lifetime(t, m, OffAuction(t, x))
    BY <1>0, <1>1, <1>b DEF Lifetime, Ends, EndsAuction, Buyout
  <2>2. Auctioning(t, m, OffAuction(t, x))
    BY <1>0, <1>1, <1>b DEF Auctioning, Ends, EndsAuction, Buyout, BidOn
  <2>. QED  BY <1>1, <1>b, <2>1, <2>2 DEF Effect
<1>2. ASSUME a = nft[t].owner
      PROVE  Effect(t, [type |-> "RemoveNFTFromAuction", token |-> t, by |-> a], OffAuction(t, a))
  <2>. DEFINE m == [type |-> "RemoveNFTFromAuction", token |-> t, by |-> a]
  <2>1. m \in Message /\ Ends(m, t)
    BY DEF Message, Ends, EndsAuction
  <2>2. NewColumns(m) = [status |-> "default", auction |-> FALSE]
    BY <2>1, ColumnsOf
  <2>3. SameColumns(t, m, OffAuction(t, a))
    BY <1>0, <1>2, <1>a, <1>b, <1>c, <2>2, ByShape
  <2>. QED  BY <1>1, <1>a, <2>1, <2>3
<1>3. ASSUME NEW winner, winner = IF nft[t].bidder = NoOne THEN a ELSE nft[t].bidder
      PROVE  Effect(t, [type |-> "FinishAuction", token |-> t, by |-> a, newOwner |-> winner],
                    OffAuction(t, winner))
  <2>. DEFINE m == [type |-> "FinishAuction", token |-> t, by |-> a, newOwner |-> winner]
  <2>0. winner \in Addresses
    BY <1>0, <1>3, <1>a, ConstantsAssumption DEF ChainToken
  <2>1. m \in Message /\ Ends(m, t)
    BY <2>0 DEF Message, Ends, EndsAuction
  <2>2. NewColumns(m) = [owner |-> winner, status |-> "default", auction |-> FALSE]
    BY <2>1, ColumnsOf
  <2>3. SameColumns(t, m, OffAuction(t, winner))
    BY <1>0, <2>0, <1>b, <1>c, <2>2, ByShape
  <2>. QED  BY <1>1, <1>3, <2>0, <2>1, <2>3
<1>4. Effect(t, [type |-> "MakeBidOnAuction", token |-> t, by |-> a, beneficiary |-> c, isBuyout |-> FALSE],
             [nft[t] EXCEPT !.bids = nft[t].bids + 1, !.bidder = a])
  <2>. DEFINE m == [type |-> "MakeBidOnAuction", token |-> t, by |-> a, beneficiary |-> c, isBuyout |-> FALSE]
              token == [nft[t] EXCEPT !.bids = nft[t].bids + 1, !.bidder = a]
  <2>1. m \in Message /\ ~Buyout(m) /\ BidOn(m, t) /\ ~Ends(m, t)
    BY DEF Message, Buyout, BidOn, Ends, EndsAuction
  <2>2. NewColumns(m) = <<>>
    BY <2>1, ColumnsOf
  <2>3. nft[t].bids + 1 \in Nat
    BY <1>0 DEF ChainToken
  <2>4. token \in ChainToken
    BY <1>0, <2>3, Zenon DEF ChainToken
  <2>5. RowOf(token) = ChainRow(t) /\ token.exists /\ token.status = "auction"
        /\ token.bids = nft[t].bids + 1 /\ token.bidder = a
    BY <1>0 DEF RowOf, ChainRow, ChainToken
  <2>. HIDE DEF token
  <2>6. SameColumns(t, m, token)
    BY <1>0, <2>2, <2>5 DEF SameColumns
  <2>7. Lifetime(t, m, token) /\ Auctioning(t, m, token)
    BY <1>0, <2>1, <2>5 DEF Lifetime, Auctioning
  <2>. QED  BY <2>1, <2>4, <2>6, <2>7 DEF Effect, token
<1>5. /\ Effect(t, [type |-> "MakeBidOnAuction", token |-> t, by |-> a, beneficiary |-> c, isBuyout |-> TRUE], OffAuction(t, a))
      /\ Effect(t, [type |-> "BuyoutOnAuction", token |-> t, by |-> a, beneficiary |-> c], OffAuction(t, a))
  <2>1. ASSUME NEW m \in Message, m.token = t, "token" \in DOMAIN m, "offer" \notin DOMAIN m, "denom" \notin DOMAIN m,
               Buyout(m) \/ m.type = "BuyoutOnAuction", m.by = a
        PROVE  Effect(t, m, OffAuction(t, a))
    <3>1. NewColumns(m) = [owner |-> a, status |-> "default", auction |-> FALSE]
      BY <2>1, ColumnsOf
    <3>0. t \in DOMAIN nft
          /\ RowOf(OffAuction(t, a)) = [owner |-> a, uri |-> nft[t].uri, status |-> "default", auction |-> FALSE]
      BY <1>0, <1>a, <1>b
    <3>2. SameColumns(t, m, OffAuction(t, a))
      BY <1>c, <3>0, <3>1, ByShape
    <3>3. Ends(m, t) /\ m.type # "FinishAuction"
      BY <2>1 DEF Ends, EndsAuction, Buyout
    <3>. QED  BY <1>1, <1>a, <2>1, <3>2, <3>3
  <2>. DEFINE buyout == [type |-> "MakeBidOnAuction", token |-> t, by |-> a, beneficiary |-> c, isBuyout |-> TRUE]
              bought == [type |-> "BuyoutOnAuction", token |-> t, by |-> a, beneficiary |-> c]
  <2>2. buyout \in Message /\ Buyout(buyout) /\ bought \in Message
    BY DEF Message, Buyout
  <2>3. Effect(t, buyout, OffAuction(t, a))
    BY <2>1, <2>2
  <2>4. Effect(t, bought, OffAuction(t, a))
    BY <2>1, <2>2
  <2>. QED  BY <2>3, <2>4
<1>. QED  BY <1>2, <1>3, <1>4, <1>5

LEMMA TokenEffect ==
    ASSUME TypeOK, BidMessages, ReMint = FALSE, NEW t \in Tokens, NEW a \in Accounts, NEW b \in Addresses, NEW u \in Uris,
           NEW c \in Beneficiaries, SendTokenMsg(t, a, b, c, u)
    PROVE  \E m, token : SendNFT(t, m, token) /\ Effect(t, m, token)
<1>1. CASE ~OnChain(t) /\ (t \in DOMAIN nft => ReMint)
           /\ SendNFT(t, [type |-> "MintNFT", token |-> t, by |-> a, to |-> b, uri |-> u], Minted(b, u))
  BY <1>1, MintEffect, Zenon
<1>2. CASE /\ Idle(t) /\ a = nft[t].owner
           /\ \/ SendNFT(t, [type |-> "BurnNFT", token |-> t, by |-> a], [nft[t] EXCEPT !.exists = FALSE])
              \/ SendNFT(t, [type |-> "EditNFTMetadata", token |-> t, by |-> a, uri |-> u], [nft[t] EXCEPT !.uri = u])
              \/ SendNFT(t, [type |-> "TransferNFT", token |-> t, by |-> a, to |-> b], [nft[t] EXCEPT !.owner = b])
              \/ SendNFT(t, [type |-> "PutNFTOnMarket", token |-> t, by |-> a, beneficiary |-> c], [nft[t] EXCEPT !.status = "market"])
              \/ SendNFT(t, [type |-> "PutNFTOnAuction", token |-> t, by |-> a, beneficiary |-> c], [nft[t] EXCEPT !.status = "auction"])
  <2>1. Idle(t) /\ a = nft[t].owner
    BY <1>2
  <2>2. /\ Effect(t, [type |-> "BurnNFT", token |-> t, by |-> a], [nft[t] EXCEPT !.exists = FALSE])
        /\ Effect(t, [type |-> "EditNFTMetadata", token |-> t, by |-> a, uri |-> u], [nft[t] EXCEPT !.uri = u])
        /\ Effect(t, [type |-> "TransferNFT", token |-> t, by |-> a, to |-> b], [nft[t] EXCEPT !.owner = b])
        /\ Effect(t, [type |-> "PutNFTOnMarket", token |-> t, by |-> a, beneficiary |-> c], [nft[t] EXCEPT !.status = "market"])
        /\ Effect(t, [type |-> "PutNFTOnAuction", token |-> t, by |-> a, beneficiary |-> c], [nft[t] EXCEPT !.status = "auction"])
    BY <2>1, IdleEffect
  <2>. QED  BY <1>2, <2>2, Zenon
<1>3. CASE /\ Listed(t)
           /\ \/ SendNFT(t, [type |-> "RemoveNFTFromMarket", token |-> t, by |-> a], [nft[t] EXCEPT !.status = "default"])
              \/ SendNFT(t, [type |-> "BuyNFT", token |-> t, by |-> a, beneficiary |-> c], [nft[t] EXCEPT !.owner = a, !.status = "default"])
  BY <1>3, ListedEffect, Zenon
<1>4. CASE /\ Auctioned(t)
           /\ \/ a = nft[t].owner /\ SendNFT(t, [type |-> "RemoveNFTFromAuction", token |-> t, by |-> a], OffAuction(t, a))
              \/ LET winner == IF nft[t].bidder = NoOne THEN a ELSE nft[t].bidder
                 IN  SendNFT(t, [type |-> "FinishAuction", token |-> t, by |-> a, newOwner |-> winner],
                             OffAuction(t, winner))
              \/ SendNFT(t, [type |-> "MakeBidOnAuction", token |-> t, by |-> a, beneficiary |-> c, isBuyout |-> FALSE],
                         [nft[t] EXCEPT !.bids = nft[t].bids + 1, !.bidder = a])
              \/ SendNFT(t, [type |-> "MakeBidOnAuction", token |-> t, by |-> a, beneficiary |-> c, isBuyout |-> TRUE], OffAuction(t, a))
              \/ SendNFT(t, [type |-> "BuyoutOnAuction", token |-> t, by |-> a, beneficiary |-> c], OffAuction(t, a))
  BY <1>4, AuctionEffect, Zenon
<1>. QED  BY <1>1, <1>2, <1>3, <1>4 DEF SendTokenMsg

\* What the chain did when it sent m, in terms of m alone.
DidColumns(m) ==
    \A t \in Tokens, f \in Fields :
        IF Sets(m, t, f)' THEN ChainRow(t)'[f] = NewColumns(m)'[f]
                          ELSE t \in DOMAIN nft => ChainRow(t)'[f] = ChainRow(t)[f]

DidTokens(m) ==
    /\ DOMAIN nft \subseteq DOMAIN nft'
    /\ m.type = "MintNFT" => m.token \notin DOMAIN nft
    /\ \A t \in Tokens : Of(m, t) => t \in DOMAIN nft'
    /\ \A t \in DOMAIN nft' :
          /\ t \notin DOMAIN nft => m.type = "MintNFT" /\ m.token = t
          /\ nft'[t].exists <=> (t \in DOMAIN nft => nft[t].exists) /\ ~(m.type = "BurnNFT" /\ m.token = t)

DidOffers(m) ==
    /\ DOMAIN offered \subseteq DOMAIN offered'
    /\ \A o \in DOMAIN offered' :
          /\ o \notin DOMAIN offered => m.type = "MakeOffer" /\ m.offer = o
          /\ o \in DOMAIN offered =>
                offered'[o].token = offered[o].token /\ offered'[o].buyer = offered[o].buyer
          /\ offered'[o].open <=> (o \in DOMAIN offered => offered[o].open) /\ ~Closes(m, o)
    /\ \A o \in OfferIds : OfOffer(m, o) =>
          /\ o \in DOMAIN offered' /\ offered'[o].token = m.token
          /\ m.type = "MakeOffer" => offered'[o].buyer = m.by /\ o \notin DOMAIN offered

DidBids(m) ==
    /\ \A t \in Tokens :
          /\ BidOn(m, t) => Auctioned(t) /\ Auctioned(t)' /\ Bids(t)' = Bids(t) + 1
          /\ Ends(m, t) => Bids(t)' = 0
          /\ ~BidOn(m, t) /\ ~Ends(m, t) => Bids(t)' = Bids(t) /\ (Auctioned(t) => Auctioned(t)')
          /\ ~Auctioned(t)' => Bids(t)' = 0
    /\ \A t \in DOMAIN nft' :
          nft'[t].bidder \in {NoOne, m.by} \/ (t \in DOMAIN nft /\ nft'[t].bidder = nft[t].bidder)
    /\ m.type = "FinishAuction" =>
          m.newOwner = m.by \/ \E t \in DOMAIN nft : m.newOwner = nft[t].bidder /\ nft[t].bidder # NoOne

DidFungibles(m) ==
    /\ supply \subseteq supply'
    /\ m.type = "CreateFungibleToken" => m.denom \notin supply
    /\ \A d \in Denoms : OfDenom(m, d) => d \in supply'
    /\ \A d \in supply' : d \notin supply => m.type = "CreateFungibleToken" /\ m.denom = d

Did(m) == DidColumns(m) /\ DidTokens(m) /\ DidOffers(m) /\ DidBids(m) /\ DidFungibles(m)

\* A message that is not about this is as if nothing had been sent.
LEMMA DidNoOffer ==
    ASSUME NEW m \in Message, "offer" \notin DOMAIN m, offered' = offered
    PROVE  DidOffers(m)
<1>1. m.type # "MakeOffer" /\ \A o : ~Closes(m, o) /\ ~OfOffer(m, o)
  BY DEF Message, Closes, OfOffer
<1>. QED  BY <1>1 DEF DidOffers

LEMMA DidNoFungible ==
    ASSUME NEW m \in Message, "denom" \notin DOMAIN m, supply' = supply
    PROVE  DidFungibles(m)
<1>1. m.type # "CreateFungibleToken" /\ \A d : ~OfDenom(m, d)
  BY DEF Message, OfDenom
<1>. QED  BY <1>1 DEF DidFungibles

LEMMA TokenDid ==
    ASSUME TypeOK, BidMessages, NEW t \in Tokens, NEW m, NEW token, SendNFT(t, m, token), Effect(t, m, token)
    PROVE  Did(m)
<1>0. /\ m \in Message /\ token \in ChainToken /\ m.token = t /\ \A x : Of(m, x) <=> x = t
      /\ "offer" \notin DOMAIN m /\ "denom" \notin DOMAIN m
      /\ offered' = offered /\ supply' = supply
  BY DEF Effect, SendNFT, Of
<1>1. /\ DOMAIN nft' = DOMAIN nft \cup {t} /\ nft'[t] = token
      /\ \A x \in DOMAIN nft : x # t => nft'[x] = nft[x]
  BY DEF SendNFT, Put
<1>2. DidColumns(m)
  <2>1. NewColumns(m)' = NewColumns(m)
    BY <1>0 DEF NewColumns, HandleMsg
  <2>2. ASSUME NEW x \in Tokens, NEW f \in Fields
        PROVE  IF Sets(m, x, f)' THEN ChainRow(x)'[f] = NewColumns(m)'[f]
                                 ELSE x \in DOMAIN nft => ChainRow(x)'[f] = ChainRow(x)[f]
    <3>1. CASE x = t
      <4>1. ChainRow(x)' = RowOf(token)
        BY <1>1, <3>1 DEF ChainRow, RowOf
      <4>2. Sets(m, x, f)' <=> f \in DOMAIN NewColumns(m)
        BY <1>0, <2>1, <3>1 DEF Sets
      <4>3. IF f \in DOMAIN NewColumns(m) THEN RowOf(token)[f] = NewColumns(m)[f]
                                          ELSE t \in DOMAIN nft /\ RowOf(token)[f] = ChainRow(t)[f]
        BY DEF Effect, SameColumns
      <4>. QED  BY <2>1, <3>1, <4>1, <4>2, <4>3
    <3>2. CASE x # t
      <4>1. ~Sets(m, x, f)'
        BY <1>0, <3>2 DEF Sets
      <4>2. x \in DOMAIN nft => ChainRow(x)' = ChainRow(x)
        BY <1>1, <3>2 DEF ChainRow, RowOf
      <4>. QED  BY <4>1, <4>2
    <3>. QED  BY <3>1, <3>2
  <2>. QED  BY <2>2 DEF DidColumns
<1>3. DidTokens(m)
  BY <1>0, <1>1 DEF DidTokens, Effect, Lifetime
<1>4. DidBids(m)
  <2>1. ASSUME NEW x \in Tokens
        PROVE  /\ BidOn(m, x) => Auctioned(x) /\ Auctioned(x)' /\ Bids(x)' = Bids(x) + 1
               /\ Ends(m, x) => Bids(x)' = 0
               /\ ~BidOn(m, x) /\ ~Ends(m, x) => Bids(x)' = Bids(x) /\ (Auctioned(x) => Auctioned(x)')
               /\ ~Auctioned(x)' => Bids(x)' = 0
    <3>1. CASE x = t
      <4>1. Bids(x)' = token.bids /\ (Auctioned(x)' <=> token.exists /\ token.status = "auction")
        BY <1>1, <3>1 DEF Bids, Auctioned, OnChain
      <4>2. BidOn(m, t) => ~Ends(m, t)
        BY DEF BidOn, Ends, EndsAuction, Buyout
      <4>. QED  BY <3>1, <4>1, <4>2 DEF Effect, Auctioning
    <3>2. CASE x # t
      <4>1. Bids(x)' = Bids(x) /\ (Auctioned(x)' <=> Auctioned(x)) /\ ~BidOn(m, x) /\ ~Ends(m, x)
        BY <1>0, <1>1, <3>2 DEF Bids, Auctioned, OnChain, BidOn, Ends
      <4>. QED  BY <4>1 DEF BidMessages
    <3>. QED  BY <3>1, <3>2
  <2>2. \A x \in DOMAIN nft' :
          nft'[x].bidder \in {NoOne, m.by} \/ (x \in DOMAIN nft /\ nft'[x].bidder = nft[x].bidder)
    BY <1>1 DEF Effect, Auctioning
  <2>3. m.type = "FinishAuction" =>
          m.newOwner = m.by \/ \E x \in DOMAIN nft : m.newOwner = nft[x].bidder /\ nft[x].bidder # NoOne
    BY DEF Effect, Auctioning
  <2>. QED  BY <2>1, <2>2, <2>3 DEF DidBids
<1>. QED  BY <1>0, <1>2, <1>3, <1>4, DidNoOffer, DidNoFungible DEF Did

\* The tokens' state is the same but for owners.
LEMMA DidNoBid ==
    ASSUME TypeOK, BidMessages, NEW m \in Message,
           m.type \in {"MakeOffer", "AcceptOffer", "RemoveOffer", "CreateFungibleToken", "TransferFungibleTokens"},
           DOMAIN nft' = DOMAIN nft,
           \A t \in DOMAIN nft : /\ nft'[t].exists = nft[t].exists /\ nft'[t].status = nft[t].status
                                 /\ nft'[t].bids = nft[t].bids /\ nft'[t].bidder = nft[t].bidder
    PROVE  DidBids(m)
<1>1. \A t : ~BidOn(m, t) /\ ~Ends(m, t)
  BY DEF BidOn, Ends, EndsAuction, Buyout
<1>2. \A t : Bids(t)' = Bids(t) /\ (Auctioned(t)' <=> Auctioned(t))
  BY DEF Bids, Auctioned, OnChain
<1>3. m.type # "FinishAuction" /\ \A t \in Tokens : ~Auctioned(t) => Bids(t) = 0
  BY DEF BidMessages
<1>. QED  BY <1>1, <1>2, <1>3 DEF DidBids

LEMMA OfferDid ==
    ASSUME TypeOK, BidMessages, NEW t \in Tokens, NEW a \in Accounts, NEW c \in Beneficiaries, NEW o \in OfferIds,
           SendOfferMsg(t, a, c, o)
    PROVE  \E m \in Message : Send(m) /\ Did(m)
<1>. DEFINE Offer(type) == IF type = "RemoveOffer" THEN [type |-> type, by |-> a, token |-> t, offer |-> o]
                           ELSE [type |-> type, by |-> a, beneficiary |-> c, token |-> t, offer |-> o]
<1>0. /\ t \in DOMAIN nft /\ nft[t].exists /\ supply' = supply
      /\ DOMAIN offered \subseteq OfferIds
      /\ \A x \in DOMAIN nft : nft[x] \in ChainToken
      /\ \A x \in DOMAIN offered : offered[x] \in [token : Tokens, buyer : Accounts, open : BOOLEAN]
  BY DEF SendOfferMsg, Idle, OnChain, TypeOK, ChainOK, ChainToken
<1>1. ASSUME NEW type \in {"MakeOffer", "AcceptOffer", "RemoveOffer"}
      PROVE  /\ Offer(type) \in Message /\ Offer(type).type = type /\ Offer(type).by = a /\ Offer(type).token = t
             /\ Offer(type).offer = o /\ \A x : Of(Offer(type), x) <=> x = t
             /\ \A x : OfOffer(Offer(type), x) <=> x = o
             /\ "denom" \notin DOMAIN Offer(type)
  BY DEF Message, Of, OfOffer
<1>. HIDE DEF Offer
<1>2. ASSUME NEW m \in Message, m = Offer("MakeOffer") \/ m = Offer("RemoveOffer"), nft' = nft
      PROVE  DidColumns(m)
  <2>1. NewColumns(m)' = <<>>
    <3>1. m.type = "MakeOffer" \/ m.type = "RemoveOffer"
      BY <1>1, <1>2
    <3>. QED  BY <3>1 DEF NewColumns, Updating, Buyout
  <2>2. \A x : ChainRow(x)' = ChainRow(x)
    BY <1>2 DEF ChainRow, RowOf
  <2>3. \A x, f : f \in Fields => ~Sets(m, x, f)'
    BY <2>1 DEF Sets, Fields
  <2>. QED  BY <2>2, <2>3 DEF DidColumns
<1>3. CASE /\ o \notin DOMAIN offered /\ offered' = Put(offered, o, [token |-> t, buyer |-> a, open |-> TRUE])
           /\ Send(Offer("MakeOffer")) /\ nft' = nft
  <2>1. /\ DOMAIN offered' = DOMAIN offered \cup {o} /\ offered'[o] = [token |-> t, buyer |-> a, open |-> TRUE]
        /\ \A x \in DOMAIN offered : offered'[x] = offered[x]
    BY <1>3 DEF Put
  <2>. DEFINE m == Offer("MakeOffer")
  <2>2. m \in Message /\ m.type = "MakeOffer" /\ m.token = t /\ m.by = a /\ m.offer = o
        /\ (\A x : OfOffer(m, x) <=> x = o) /\ (\A x : Of(m, x) <=> x = t) /\ "denom" \notin DOMAIN m
    BY <1>1
  <2>. HIDE DEF m
  <2>3. DidOffers(m)
    <3>1. /\ DOMAIN offered \subseteq DOMAIN offered' /\ \A x : ~Closes(m, x)
          /\ \A x \in DOMAIN offered' : x \notin DOMAIN offered => x = o
          /\ offered'[o].open /\ offered'[o].token = t /\ offered'[o].buyer = a
      BY <2>1, <2>2 DEF Closes
    <3>. QED  BY <1>0, <1>3, <2>1, <2>2, <3>1 DEF DidOffers
  <2>4. DidTokens(m)
    BY <1>0, <1>3, <2>2 DEF DidTokens
  <2>5. DidBids(m)
    BY <1>3, <2>2, DidNoBid
  <2>6. DidColumns(m) /\ DidFungibles(m)
    BY <1>0, <1>2, <1>3, <2>2, DidNoFungible DEF m
  <2>7. Send(m)
    BY <1>3 DEF m
  <2>. QED  BY <2>2, <2>3, <2>4, <2>5, <2>6, <2>7 DEF Did
<1>4. CASE /\ o \in DOMAIN offered /\ offered[o].token = t /\ offered[o].open
           /\ offered' = [offered EXCEPT ![o].open = FALSE]
           /\ \/ nft' = [nft EXCEPT ![t].owner = offered[o].buyer] /\ Send(Offer("AcceptOffer"))
              \/ Send(Offer("RemoveOffer")) /\ nft' = nft
  <2>. PICK type \in {"AcceptOffer", "RemoveOffer"} :
              /\ Send(Offer(type))
              /\ type = "AcceptOffer" => nft' = [nft EXCEPT ![t].owner = offered[o].buyer]
              /\ type = "RemoveOffer" => nft' = nft
    BY <1>4
  <2>1. /\ DOMAIN offered' = DOMAIN offered /\ ~offered'[o].open
        /\ \A x \in DOMAIN offered : /\ offered'[x].token = offered[x].token /\ offered'[x].buyer = offered[x].buyer
                                     /\ x # o => offered'[x].open = offered[x].open
    BY <1>0, <1>4
  <2>. DEFINE m == Offer(type)
  <2>2. m \in Message /\ m.type = type /\ m.token = t /\ m.by = a /\ m.offer = o
        /\ (\A x : OfOffer(m, x) <=> x = o) /\ (\A x : Of(m, x) <=> x = t) /\ "denom" \notin DOMAIN m
    BY <1>1
  <2>a. /\ DOMAIN nft' = DOMAIN nft
        /\ \A x \in DOMAIN nft : /\ nft'[x].exists = nft[x].exists /\ nft'[x].status = nft[x].status
                                 /\ nft'[x].bids = nft[x].bids /\ nft'[x].bidder = nft[x].bidder
                                 /\ nft'[x].uri = nft[x].uri
                                 /\ ~(x = t /\ type = "AcceptOffer") => nft'[x] = nft[x]
    BY <1>0 DEF ChainToken
  <2>. HIDE DEF m
  <2>3. DidOffers(m)
    BY <1>4, <2>1, <2>2 DEF DidOffers, Closes
  <2>4. DidTokens(m)
    BY <1>0, <2>2, <2>a DEF DidTokens
  <2>5. DidBids(m)
    BY <2>2, <2>a, DidNoBid
  <2>6. DidColumns(m)
    <3>1. CASE type = "RemoveOffer"
      BY <1>2, <2>2, <3>1 DEF m
    <3>2. CASE type = "AcceptOffer"
      <4>1. NewColumns(m)' = [owner |-> offered[o].buyer]
        BY <1>4, <2>1, <2>2, <3>2 DEF NewColumns
      <4>2. nft'[t].owner = offered[o].buyer
        BY <1>0, <3>2 DEF ChainToken
      <4>3. ASSUME NEW x \in Tokens, NEW f \in Fields
            PROVE  IF Sets(m, x, f)' THEN ChainRow(x)'[f] = NewColumns(m)'[f]
                                     ELSE x \in DOMAIN nft => ChainRow(x)'[f] = ChainRow(x)[f]
        <5>1. Sets(m, x, f)' <=> x = t /\ f = "owner"
          BY <2>2, <4>1 DEF Sets
        <5>2. CASE x = t /\ f = "owner"
          BY <4>1, <4>2, <5>1, <5>2 DEF ChainRow, RowOf
        <5>3. CASE ~(x = t /\ f = "owner") /\ x \in DOMAIN nft
          <6>1. CASE x # t
            BY <2>a, <5>1, <5>3, <6>1 DEF ChainRow, RowOf
          <6>2. CASE x = t /\ f # "owner"
            <7>1. ChainRow(x)'.uri = ChainRow(x).uri /\ ChainRow(x)'.status = ChainRow(x).status
                  /\ ChainRow(x)'.auction = ChainRow(x).auction
              BY <2>a, <5>3 DEF ChainRow, RowOf
            <7>2. f = "uri" \/ f = "status" \/ f = "auction"
              BY <6>2 DEF Fields
            <7>. QED  BY <5>1, <6>2, <7>1, <7>2
          <6>. QED  BY <5>3, <6>1, <6>2
        <5>. QED  BY <5>1, <5>2, <5>3
      <4>. QED  BY <4>3 DEF DidColumns
    <3>. QED  BY <3>1, <3>2
  <2>7. DidFungibles(m)
    BY <1>0, <2>2, DidNoFungible
  <2>8. Did(m)
    BY <2>3, <2>4, <2>5, <2>6, <2>7 DEF Did
  <2>9. Send(m)
    BY DEF m
  <2>. QED  BY <2>2, <2>8, <2>9
<1>. QED  BY <1>3, <1>4 DEF SendOfferMsg, Offer

LEMMA FungibleDid ==
    ASSUME TypeOK, BidMessages, NEW d \in Denoms, NEW a \in Accounts, NEW b \in Addresses, SendFungibleMsg(d, a, b)
    PROVE  \E m \in Message : Send(m) /\ Did(m)
<1>0. nft' = nft /\ offered' = offered
  BY DEF SendFungibleMsg
<1>. PICK m : /\ m \in Message /\ m.type \in {"CreateFungibleToken", "TransferFungibleTokens"} /\ m.denom = d
              /\ "denom" \in DOMAIN m /\ Send(m) /\ supply' = supply \cup {d}
              /\ m.type = "CreateFungibleToken" <=> d \notin supply
  <2>1. CASE /\ d \notin supply /\ supply' = supply \cup {d}
             /\ Send([type |-> "CreateFungibleToken", by |-> a, denom |-> d])
    <3>. DEFINE m == [type |-> "CreateFungibleToken", by |-> a, denom |-> d]
    <3>1. m \in Message /\ m.type = "CreateFungibleToken" /\ m.denom = d /\ "denom" \in DOMAIN m
      BY DEF Message
    <3>. HIDE DEF m
    <3>2. Send(m)
      BY <2>1 DEF m
    <3>. QED  BY <2>1, <3>1, <3>2
  <2>2. CASE /\ d \in supply /\ supply' = supply
             /\ Send([type |-> "TransferFungibleTokens", by |-> a, to |-> b, denom |-> d])
    <3>. DEFINE m == [type |-> "TransferFungibleTokens", by |-> a, to |-> b, denom |-> d]
    <3>1. m \in Message /\ m.type = "TransferFungibleTokens" /\ m.denom = d /\ "denom" \in DOMAIN m
      BY DEF Message
    <3>. HIDE DEF m
    <3>2. Send(m)
      BY <2>2 DEF m
    <3>. QED  BY <2>2, <3>1, <3>2
  <2>. QED  BY <2>1, <2>2 DEF SendFungibleMsg
<1>1. "token" \notin DOMAIN m /\ "offer" \notin DOMAIN m
  BY DEF Message
<1>2. (\A x : ~Of(m, x)) /\ (\A x, f : ~Sets(m, x, f)') /\ (\A x : ChainRow(x)' = ChainRow(x))
  BY <1>0, <1>1 DEF Of, Sets, ChainRow, RowOf
<1>3. DidColumns(m) /\ DidTokens(m)
  BY <1>0, <1>2 DEF DidColumns, DidTokens
<1>4. DidFungibles(m)
  BY DEF DidFungibles, OfDenom
<1>. QED  BY <1>0, <1>1, <1>3, <1>4, DidNoOffer, DidNoBid DEF Did

LEMMA ChainDid ==
    ASSUME TypeOK, BidMessages, ReMint = FALSE, ChainStep
    PROVE  \E m \in Message : Send(m) /\ Did(m)
<1>1. ASSUME NEW t \in Tokens, NEW a \in Accounts, NEW b \in Addresses, NEW c \in Beneficiaries, NEW u \in Uris,
             SendTokenMsg(t, a, b, c, u)
      PROVE  \E m \in Message : Send(m) /\ Did(m)
  <2>1. PICK m, token : SendNFT(t, m, token) /\ Effect(t, m, token)
    BY <1>1, TokenEffect
  <2>. QED  BY <2>1, TokenDid DEF SendNFT, Effect
<1>. QED  BY <1>1, OfferDid, FungibleDid DEF ChainStep

-----------------------------------------------------------------------------
(* HistInv is an invariant.                                                *)

\* The messages kept after one was sent.
LEMMA KeptSent ==
    ASSUME TypeOK, NEW m \in Message, Send(m)
    PROVE  /\ \A n \in Kept' : n \in Int /\ n <= sent + 1 /\ (n \in Kept \/ n = sent + 1)
           /\ \A n \in Kept : n <= sent /\ n \in Kept' /\ Nth(n)' = Nth(n) /\ Nth(n) \in Message
           /\ \A n : n = sent + 1 => Nth(n)' = m
           /\ sent + 1 \in Kept' /\ sent' = sent + 1 /\ sent \in Nat
           /\ \A n \in Kept : \A k \in n + 1 .. sent : k \in Kept /\ k \in n + 1 .. sent' /\ k > n
           /\ \A n \in Kept : sent + 1 \in n + 1 .. sent'
BY SendNumbers, NumberTypes, NthType DEF Kept

LEMMA LastSetterSent ==
    ASSUME TypeOK, LastSetter, OfferMessages, TokenMessages, NEW m \in Message, Send(m),
           DidColumns(m), DidOffers(m)
    PROVE  LastSetter'
<1>1. ASSUME NEW n \in Kept  PROVE NewColumns(Nth(n))' = NewColumns(Nth(n))
  <2>1. Nth(n)' = Nth(n) /\ Nth(n) \in Message
    BY KeptSent
  <2>2. CASE Nth(n).type = "AcceptOffer"
    <3>1. OfOffer(Nth(n), Nth(n).offer) /\ Nth(n).offer \in OfferIds
      BY <2>1, <2>2 DEF Message, OfOffer
    <3>2. Nth(n).offer \in DOMAIN offered /\ offered'[Nth(n).offer].buyer = offered[Nth(n).offer].buyer
      BY <3>1 DEF OfferMessages, DidOffers
    <3>. QED  BY <2>1, <2>2, <3>2 DEF NewColumns
  <2>3. CASE Nth(n).type # "AcceptOffer"
    <3>1. \A x : HandleMsg(x)' = HandleMsg(x)
      BY DEF HandleMsg
    <3>. QED  BY <2>1, <2>3, <3>1 DEF NewColumns
  <2>. QED  BY <2>2, <2>3
<1>2. ASSUME NEW n \in Kept', NEW t \in Tokens, NEW f \in Fields,
             Sets(Nth(n), t, f)', \A k \in n + 1 .. sent' : ~Sets(Nth(k), t, f)'
      PROVE  NewColumns(Nth(n))'[f] = ChainRow(t)'[f]
  <2>1. CASE n = sent + 1
    <3>1. Nth(n)' = m
      BY <2>1, KeptSent
    <3>2. Sets(m, t, f)'
      BY <1>2, <3>1
    <3>. QED  BY <3>1, <3>2 DEF DidColumns
  <2>2. CASE n \in Kept
    <3>1. Nth(n)' = Nth(n) /\ NewColumns(Nth(n))' = NewColumns(Nth(n))
      BY <1>1, <2>2, KeptSent
    <3>2. Sets(Nth(n), t, f)
      BY <1>2, <3>1 DEF Sets
    <3>3. ASSUME NEW k \in n + 1 .. sent  PROVE ~Sets(Nth(k), t, f)
      <4>1. k \in Kept /\ k \in n + 1 .. sent'
        BY <2>2, <3>3, KeptSent
      <4>2. Nth(k)' = Nth(k) /\ NewColumns(Nth(k))' = NewColumns(Nth(k)) /\ ~Sets(Nth(k), t, f)'
        BY <1>1, <1>2, <4>1, KeptSent
      <4>. QED  BY <4>2 DEF Sets
    <3>4. ~Sets(m, t, f)'
      BY <1>2, <2>2, KeptSent
    <3>5. t \in DOMAIN nft
      BY <2>2, <3>2 DEF Sets, TokenMessages
    <3>6. ChainRow(t)'[f] = ChainRow(t)[f]
      BY <3>4, <3>5 DEF DidColumns
    <3>7. NewColumns(Nth(n))[f] = ChainRow(t)[f]
      BY <2>2, <3>2, <3>3 DEF LastSetter
    <3>. QED  BY <3>1, <3>6, <3>7
  <2>. QED  BY <2>1, <2>2, KeptSent
<1>. QED  BY <1>2 DEF LastSetter

LEMMA TokenMessagesSent ==
    ASSUME TypeOK, TokenMessages, NEW m \in Message, Send(m), DidTokens(m)
    PROVE  TokenMessages'
<1>1. ASSUME NEW n \in Kept', NEW t \in Tokens, Of(Nth(n), t)'
      PROVE  t \in DOMAIN nft'
  <2>1. CASE n \in Kept
    BY <1>1, <2>1, KeptSent DEF TokenMessages, DidTokens, Of
  <2>2. CASE n = sent + 1
    BY <1>1, <2>2, KeptSent DEF DidTokens, Of
  <2>. QED  BY <2>1, <2>2, KeptSent
<1>2. ASSUME NEW n \in Kept', NEW k \in Kept', Nth(n)'.type = "MintNFT", Of(Nth(k), Nth(n).token)'
      PROVE  n <= k
  <2>1. CASE n \in Kept /\ k \in Kept
    BY <1>2, <2>1, KeptSent DEF TokenMessages, Of
  <2>2. CASE n = sent + 1 /\ k \in Kept
    <3>1. m.type = "MintNFT" /\ Of(Nth(k), m.token) /\ m.token \in Tokens
      BY <1>2, <2>2, KeptSent DEF Of, Message
    <3>2. m.token \in DOMAIN nft
      BY <2>2, <3>1 DEF TokenMessages
    <3>. QED  BY <3>1, <3>2 DEF DidTokens
  <2>3. CASE k = sent + 1
    BY <2>3, KeptSent
  <2>. QED  BY <2>1, <2>2, <2>3, KeptSent
<1>3. ASSUME NEW n \in Kept', Nth(n)'.type = "BurnNFT"
      PROVE  (~nft[Nth(n).token].exists)'
  <2>1. Nth(n)' \in Message
    BY KeptSent
  <2>2. Of(Nth(n), Nth(n).token)' /\ Nth(n)'.token \in Tokens
    BY <1>3, <2>1 DEF Message, Of
  <2>3. Nth(n)'.token \in DOMAIN nft'
    BY <1>1, <2>2
  <2>4. CASE n \in Kept
    <3>1. ~nft[Nth(n).token].exists /\ Nth(n).token \in DOMAIN nft /\ Nth(n)' = Nth(n)
      BY <1>3, <2>2, <2>4, KeptSent DEF TokenMessages, Of
    <3>. QED  BY <2>3, <3>1 DEF DidTokens
  <2>5. CASE n = sent + 1
    <3>1. Nth(n)' = m
      BY <2>5, KeptSent
    <3>. QED  BY <1>3, <2>3, <3>1 DEF DidTokens
  <2>. QED  BY <2>4, <2>5, KeptSent
<1>. QED  BY <1>1, <1>2, <1>3 DEF TokenMessages

LEMMA OfferMessagesSent ==
    ASSUME TypeOK, OfferMessages, NEW m \in Message, Send(m), DidOffers(m)
    PROVE  OfferMessages'
<1>a. \A x \in Message : \A o : OfOffer(x, o) <=> "offer" \in DOMAIN x /\ x.offer = o
  BY DEF OfOffer
<1>b. \A x \in Message : x.type = "MakeOffer" => x.offer \in OfferIds /\ OfOffer(x, x.offer)
  BY DEF Message, OfOffer
<1>1. ASSUME NEW n \in Kept', NEW o \in OfferIds, OfOffer(Nth(n), o)'
      PROVE  /\ o \in DOMAIN offered' /\ offered'[o].token = Nth(n)'.token
             /\ Nth(n)'.type = "MakeOffer" => offered'[o].buyer = Nth(n)'.by
             /\ Nth(n)'.type # "MakeOffer" => ~offered'[o].open
  <2>1. CASE n \in Kept
    <3>1. Nth(n)' = Nth(n) /\ OfOffer(Nth(n), o)
      BY <1>1, <2>1, KeptSent
    <3>2. /\ o \in DOMAIN offered /\ offered[o].token = Nth(n).token
          /\ Nth(n).type = "MakeOffer" => offered[o].buyer = Nth(n).by
          /\ Nth(n).type # "MakeOffer" => ~offered[o].open
      BY <2>1, <3>1 DEF OfferMessages
    <3>. QED  BY <3>1, <3>2 DEF DidOffers
  <2>2. CASE n = sent + 1
    <3>1. Nth(n)' = m /\ OfOffer(m, o)
      BY <1>1, <2>2, KeptSent
    <3>2. o \in DOMAIN offered' /\ offered'[o].token = m.token
          /\ (m.type = "MakeOffer" => offered'[o].buyer = m.by)
      BY <3>1 DEF DidOffers
    <3>3. m.type # "MakeOffer" => Closes(m, o)
      BY <3>1 DEF Closes
    <3>. QED  BY <3>1, <3>2, <3>3 DEF DidOffers
  <2>. QED  BY <2>1, <2>2, KeptSent
<1>2. ASSUME NEW n \in Kept', NEW k \in Kept', Nth(n)'.type = "MakeOffer", OfOffer(Nth(k), Nth(n).offer)'
      PROVE  n <= k
  <2>1. CASE n \in Kept /\ k \in Kept
    BY <1>2, <2>1, KeptSent DEF OfferMessages
  <2>2. CASE n = sent + 1 /\ k \in Kept
    <3>1. m.type = "MakeOffer" /\ OfOffer(Nth(k), m.offer) /\ m.offer \in OfferIds /\ OfOffer(m, m.offer)
      BY <1>2, <2>2, <1>b, KeptSent
    <3>2. m.offer \in DOMAIN offered
      BY <2>2, <3>1 DEF OfferMessages
    <3>. QED  BY <3>1, <3>2 DEF DidOffers
  <2>3. CASE k = sent + 1
    BY <2>3, KeptSent
  <2>. QED  BY <2>1, <2>2, <2>3, KeptSent
<1>3. ASSUME NEW n \in Kept', Nth(n)'.type = "MakeOffer", (~offered[Nth(n).offer].open)'
      PROVE  \E k \in n + 1 .. sent' : Closes(Nth(k), Nth(n).offer)'
  <2>1. CASE n \in Kept
    <3>1. Nth(n)' = Nth(n) /\ Nth(n).offer \in OfferIds /\ OfOffer(Nth(n), Nth(n).offer)
      BY <1>3, <2>1, <1>b, KeptSent
    <3>2. Nth(n).offer \in DOMAIN offered
      BY <2>1, <3>1 DEF OfferMessages
    <3>3. CASE offered[Nth(n).offer].open
      <4>1. Closes(m, Nth(n).offer)
        BY <1>3, <3>1, <3>2, <3>3 DEF DidOffers
      <4>2. sent + 1 \in n + 1 .. sent' /\ \A k : k = sent + 1 => Nth(k)' = m
        BY <2>1, KeptSent
      <4>. QED  BY <3>1, <4>1, <4>2
    <3>4. CASE ~offered[Nth(n).offer].open
      <4>1. PICK k \in n + 1 .. sent : Closes(Nth(k), Nth(n).offer)
        BY <1>3, <2>1, <3>1, <3>4 DEF OfferMessages
      <4>2. k \in n + 1 .. sent' /\ Nth(k)' = Nth(k)
        BY <2>1, KeptSent
      <4>. QED  BY <3>1, <4>1, <4>2
    <3>. QED  BY <3>3, <3>4
  <2>2. CASE n = sent + 1
    <3>1. Nth(n)' = m /\ m.offer \in OfferIds /\ OfOffer(m, m.offer) /\ ~Closes(m, m.offer)
      BY <1>3, <2>2, <1>b, KeptSent DEF Closes
    <3>2. m.offer \in DOMAIN offered' /\ m.offer \notin DOMAIN offered
      BY <1>3, <3>1 DEF DidOffers
    <3>3. offered'[m.offer].open
      BY <3>1, <3>2 DEF DidOffers
    <3>. QED  BY <1>3, <3>1, <3>3
  <2>. QED  BY <2>1, <2>2, KeptSent
<1>. QED  BY <1>1, <1>2, <1>3 DEF OfferMessages

LEMMA FungibleMessagesSent ==
    ASSUME TypeOK, FungibleMessages, NEW m \in Message, Send(m), DidFungibles(m)
    PROVE  FungibleMessages'
<1>1. ASSUME NEW n \in Kept', NEW d \in Denoms, OfDenom(Nth(n), d)'
      PROVE  d \in supply'
  <2>1. CASE n \in Kept
    BY <1>1, <2>1, KeptSent DEF FungibleMessages, DidFungibles
  <2>2. CASE n = sent + 1
    BY <1>1, <2>2, KeptSent DEF DidFungibles
  <2>. QED  BY <2>1, <2>2, KeptSent
<1>2. ASSUME NEW n \in Kept', NEW k \in Kept', Nth(n)'.type = "CreateFungibleToken", OfDenom(Nth(k), Nth(n).denom)'
      PROVE  n <= k
  <2>1. CASE n \in Kept /\ k \in Kept
    BY <1>2, <2>1, KeptSent DEF FungibleMessages
  <2>2. CASE n = sent + 1 /\ k \in Kept
    <3>1. m.type = "CreateFungibleToken" /\ OfDenom(Nth(k), m.denom) /\ m.denom \in Denoms
      BY <1>2, <2>2, KeptSent DEF Message
    <3>2. m.denom \in supply
      BY <2>2, <3>1 DEF FungibleMessages
    <3>. QED  BY <3>1, <3>2 DEF DidFungibles
  <2>3. CASE k = sent + 1
    BY <2>3, KeptSent
  <2>. QED  BY <2>1, <2>2, <2>3, KeptSent
<1>. QED  BY <1>1, <1>2 DEF FungibleMessages

LEMMA FiniteRecent ==
    ASSUME TypeOK, NEW t
    PROVE  IsFiniteSet(Recent(t)) /\ Cardinality(Recent(t)) \in Nat
<1>1. IsFiniteSet(Kept)
  BY NumberTypes, FS_Interval DEF Kept
<1>. QED  BY <1>1, FS_Subset, FS_CardinalityType DEF Recent

LEMMA RecentSent ==
    ASSUME TypeOK, NEW m \in Message, Send(m), NEW t
    PROVE  Recent(t)' = (IF Ends(m, t) THEN {} ELSE Recent(t)) \cup (IF BidOn(m, t) THEN {sent + 1} ELSE {})
<1>0. ~(BidOn(m, t) /\ Ends(m, t))
  BY DEF BidOn, Ends, EndsAuction, Buyout
<1>1. ASSUME NEW k \in Kept
      PROVE  k \in Recent(t)' <=> k \in Recent(t) /\ ~Ends(m, t)
  <2>1. (\A j \in k + 1 .. sent' : ~Ends(Nth(j), t)') <=> (\A j \in k + 1 .. sent : ~Ends(Nth(j), t)) /\ ~Ends(m, t)
    <3>1. k + 1 .. sent' = (k + 1 .. sent) \cup {sent + 1}
      BY KeptSent, NumberTypes
    <3>2. (\A j \in k + 1 .. sent : Nth(j)' = Nth(j)) /\ \A j : j = sent + 1 => Nth(j)' = m
      BY KeptSent
    <3>. QED  BY <3>1, <3>2
  <2>. QED  BY <2>1, KeptSent DEF Recent
<1>2. \A k : k = sent + 1 => (k \in Recent(t)' <=> BidOn(m, t)) /\ k \notin Kept
  <2>1. \A k : k = sent + 1 => k + 1 .. sent' = {} /\ Nth(k)' = m /\ k \in Kept' /\ k \notin Kept
    BY KeptSent
  <2>. QED  BY <2>1 DEF Recent
<1>3. Recent(t)' \subseteq Kept' /\ Recent(t) \subseteq Kept /\ \A k \in Kept' : k \in Kept \/ k = sent + 1
  BY KeptSent DEF Recent
<1>. QED  BY <1>0, <1>1, <1>2, <1>3

LEMMA BidMessagesSent ==
    ASSUME TypeOK, BidMessages, NEW m \in Message, Send(m), DidBids(m)
    PROVE  BidMessages'
<1>. SUFFICES ASSUME NEW t \in Tokens
              PROVE  /\ ~Auctioned(t)' => Bids(t)' = 0
                     /\ (\E n \in Kept' : Ends(Nth(n), t)') => Cardinality(Recent(t)') = Bids(t)'
                     /\ Recent(t)' # {} => Auctioned(t)'
  BY DEF BidMessages
<1>0. Bids(t) \in Nat /\ IsFiniteSet(Recent(t)) /\ Cardinality(Recent(t)) \in Nat /\ sent + 1 \notin Recent(t)
      /\ ~(BidOn(m, t) /\ Ends(m, t))
  <2>1. sent + 1 \notin Recent(t)
    BY KeptSent, NumberTypes DEF Recent
  <2>. QED  BY <2>1, FiniteRecent DEF TypeOK, ChainOK, Bids, BidOn, Ends, EndsAuction, Buyout
<1>1. CASE Ends(m, t)
  <2>1. Recent(t)' = {}
    BY <1>0, <1>1, RecentSent
  <2>. QED  BY <1>1, <2>1, FS_EmptySet DEF DidBids
<1>2. CASE ~Ends(m, t)
  <2>1. (\E n \in Kept' : Ends(Nth(n), t)') => \E n \in Kept : Ends(Nth(n), t)
    BY <1>2, KeptSent
  <2>2. CASE BidOn(m, t)
    <3>1. Recent(t)' = Recent(t) \cup {sent + 1}
      BY <1>2, <2>2, RecentSent
    <3>2. Cardinality(Recent(t)') = Cardinality(Recent(t)) + 1
      BY <1>0, <3>1, FS_AddElement
    <3>. QED  BY <1>0, <2>1, <2>2, <3>2 DEF DidBids, BidMessages
  <2>3. CASE ~BidOn(m, t)
    <3>1. Recent(t)' = Recent(t)
      BY <1>2, <2>3, RecentSent
    <3>. QED  BY <1>2, <2>1, <2>3, <3>1 DEF DidBids, BidMessages
  <2>. QED  BY <2>2, <2>3
<1>. QED  BY <1>1, <1>2

LEMMA HistSent ==
    ASSUME TypeOK, HistInv, NEW m \in Message, Send(m), Did(m)
    PROVE  HistInv'
BY LastSetterSent, TokenMessagesSent, OfferMessagesSent, FungibleMessagesSent, BidMessagesSent DEF HistInv, Did

\* Of the messages kept, the last ones stay.
LEMMA HistKept ==
    ASSUME TypeOK, HistInv, UNCHANGED chain, Cursor' \in Int, \A n \in Kept' : n \in Kept /\ Nth(n)' = Nth(n)
    PROVE  HistInv'
<1>0. nft' = nft /\ offered' = offered /\ supply' = supply /\ sent' = sent
  BY DEF chain
<1>a. \A n \in Kept' : n \in Int /\ \A k \in n + 1 .. sent : k \in Kept' /\ k \in Kept
  <2>1. Kept \subseteq Int /\ sent \in Int /\ Cursor \in Int
    BY NumberTypes
  <2>2. Kept' = Cursor' + 1 .. sent
    BY <1>0 DEF Kept
  <2>3. ASSUME NEW n \in Kept', NEW k \in n + 1 .. sent  PROVE k \in Kept'
    <3>1. \A c \in Int : \A i \in c + 1 .. sent : \A j \in i + 1 .. sent : j \in c + 1 .. sent
      BY <2>1
    <3>. QED  BY <2>2, <2>3, <3>1
  <2>. QED  BY <2>1, <2>3
<1>b. \A n \in Kept' : NewColumns(Nth(n))' = NewColumns(Nth(n))
  <2>1. \A m : HandleMsg(m)' = HandleMsg(m)
    BY DEF HandleMsg
  <2>2. \A m : NewColumns(m)' = NewColumns(m)
    BY <1>0, <2>1 DEF NewColumns
  <2>. QED  BY <2>2
<1>1. LastSetter'
  <2>. SUFFICES ASSUME NEW n \in Kept', NEW t \in Tokens, NEW f \in Fields,
                       Sets(Nth(n), t, f)', \A k \in n + 1 .. sent : ~Sets(Nth(k), t, f)'
                PROVE  NewColumns(Nth(n))'[f] = ChainRow(t)[f]'
    BY <1>0 DEF LastSetter
  <2>1. n \in Kept /\ Sets(Nth(n), t, f)
    BY <1>b DEF Sets
  <2>2. ASSUME NEW k \in n + 1 .. sent  PROVE ~Sets(Nth(k), t, f)
    BY <1>a, <1>b DEF Sets
  <2>3. NewColumns(Nth(n))[f] = ChainRow(t)[f]
    BY <2>1, <2>2 DEF HistInv, LastSetter
  <2>. QED  BY <1>0, <1>b, <2>3 DEF ChainRow
<1>2. TokenMessages'
  BY <1>0 DEF HistInv, TokenMessages
<1>3. OfferMessages'
  <2>1. /\ \A n \in Kept', o \in OfferIds : OfOffer(Nth(n)', o) =>
            /\ o \in DOMAIN offered /\ offered[o].token = Nth(n)'.token
            /\ Nth(n)'.type = "MakeOffer" => offered[o].buyer = Nth(n)'.by
            /\ Nth(n)'.type # "MakeOffer" => ~offered[o].open
        /\ \A n, k \in Kept' : Nth(n)'.type = "MakeOffer" /\ OfOffer(Nth(k)', Nth(n)'.offer) => n <= k
    BY DEF HistInv, OfferMessages
  <2>2. ASSUME NEW n \in Kept', Nth(n)'.type = "MakeOffer", ~offered[Nth(n)'.offer].open
        PROVE  \E k \in n + 1 .. sent : Closes(Nth(k)', Nth(n)'.offer)
    <3>1. PICK k \in n + 1 .. sent : Closes(Nth(k), Nth(n).offer)
      BY <2>2 DEF HistInv, OfferMessages
    <3>. QED  BY <1>a, <3>1
  <2>. QED  BY <1>0, <2>1, <2>2 DEF OfferMessages
<1>4. BidMessages'
  <2>1. \A t \in Tokens : Auctioned(t)' = Auctioned(t) /\ Bids(t)' = Bids(t)
    BY <1>0 DEF Auctioned, OnChain, Bids
  <2>2. ASSUME NEW t \in Tokens, NEW k \in Kept'
        PROVE  k \in Recent(t)' <=> k \in Recent(t)
    BY <1>0, <1>a, <2>2 DEF Recent
  <2>3. \A t \in Tokens : Recent(t)' \subseteq Recent(t)
    BY <2>2 DEF Recent
  <2>4. ASSUME NEW t \in Tokens, \E n \in Kept' : Ends(Nth(n), t)'
        PROVE  Recent(t)' = Recent(t) /\ \E n \in Kept : Ends(Nth(n), t)
    <3>1. PICK n \in Kept' : Ends(Nth(n), t)'
      BY <2>4
    <3>2. n \in Kept /\ Ends(Nth(n), t)
      BY <3>1
    <3>3. ASSUME NEW k \in Recent(t)  PROVE k \in Kept'
      <4>1. k \in Kept /\ k \in Int /\ n \in Int /\ ~Ends(Nth(k), t) /\ ~(n \in k + 1 .. sent)
        BY <3>2, NumberTypes DEF Recent, BidOn, Ends, EndsAuction, Buyout
      <4>2. k \in n + 1 .. sent
        BY <3>2, <4>1, NumberTypes DEF Kept
      <4>. QED  BY <1>a, <4>2
    <3>. QED  BY <2>2, <2>3, <3>2, <3>3
  <2>. QED  BY <1>0, <2>1, <2>3, <2>4 DEF HistInv, BidMessages
<1>5. FungibleMessages'
  BY <1>0 DEF HistInv, FungibleMessages
<1>. QED  BY <1>1, <1>2, <1>3, <1>4, <1>5 DEF HistInv

LEMMA HistInit ==
    ASSUME Init
    PROVE  HistInv
<1>0. sent = 0 /\ pending = <<>> /\ done = <<>> /\ DOMAIN nft = {}
  BY DEF Init, Empty
<1>1. Kept = {} /\ \A t \in Tokens : Bids(t) = 0
  BY <1>0 DEF Kept, Cursor, Bids
<1>. QED
  BY <1>1 DEF HistInv, LastSetter, TokenMessages, OfferMessages, BidMessages, Recent, FungibleMessages

LEMMA HistNext ==
    ASSUME TypeInv, HistInv, ReMint = FALSE, [Next]_vars
    PROVE  HistInv'
<1>0. TypeOK
  BY DEF TypeInv
<1>1. CASE ChainStep
  <2>1. \E m \in Message : Send(m) /\ Did(m)
    BY <1>0, <1>1, ChainDid DEF HistInv
  <2>. QED  BY <1>0, <2>1, HistSent
<1>2. CASE UNCHANGED chain /\ Cursor' \in Int /\ \A n \in Kept' : n \in Kept /\ Nth(n)' = Nth(n)
  BY <1>0, <1>2, HistKept
<1>3. CASE UNCHANGED <<chain, pending, done>>
  <2>1. UNCHANGED <<pending, done, sent>>
    BY <1>3 DEF chain
  <2>. QED  BY <1>0, <1>2, <1>3, <2>1, SameNumbers, NumberTypes
<1>4. CASE HandleFails \/ HandleSucceeds
  <2>1. PICK ok \in BOOLEAN : EndMsg(ok)
    BY <1>4 DEF HandleFails, HandleSucceeds
  <2>2. pending # <<>>
    BY <1>0, <1>4 DEF TypeOK, HandleFails, HandleSucceeds, Refused, Fault, At, Running
  <2>. QED  BY <1>0, <1>2, <2>1, <2>2, EndMsgNumbers, NumberTypes DEF EndMsg
<1>5. CASE EndBlock
  BY <1>0, <1>2, <1>5, EndBlockNumbers, NumberTypes DEF EndBlock
<1>6. CASE Crash
  BY <1>0, <1>2, <1>6, CrashNumbers, NumberTypes DEF Crash
<1>7. CASE SqlStatement \/ PublishTask
  <2>1. NextStatement
    BY <1>7 DEF SqlStatement, PublishTask, FindOrCreateUser, CreateNFT, UpdateNFT, DeleteNFT, CreateBid,
       DeleteAllBids, CreateOffer, ScanOffer, DeleteOffer, CreateFungible
  <2>. QED  BY <1>3, <2>1 DEF NextStatement
<1>8. CASE ErrorIgnored \/ Begin \/ UNCHANGED vars
  BY <1>3, <1>8 DEF ErrorIgnored, Begin, vars
<1>. QED  BY <1>1, <1>4, <1>5, <1>6, <1>7, <1>8 DEF Next, Handler

-----------------------------------------------------------------------------
(* The tables are the chain's, but for the statements still to be run.     *)

Has(m, op) == \E i \in DOMAIN HandleMsg(m) : HandleMsg(m)[i].op = op

\* The messages in the queue that have still to run their statement op.
Todo(op) == {n \in Queue : \E i \in DOMAIN HandleMsg(Nth(n)) : HandleMsg(Nth(n))[i].op = op /\ Ahead(n, i)}
Writing  == Todo("update") \cup Todo("updateToBuyer")

Known(a, n) == a \in users \/ \E k \in Handled + 1 .. n : Nth(k).by = a

\* The signer of a message has a row before the message ends, and so has the bidder who wins.
SignersKnown ==
    /\ \A n \in Queue : Nth(n).type = "FinishAuction" => Known(Nth(n).newOwner, n)
    /\ \A n \in Cursor + 1 .. Handled : Nth(n).type = "FinishAuction" => Nth(n).newOwner \in users
    /\ \A n \in Cursor + 1 .. Handled : Nth(n).by \in users
    /\ \A t \in DOMAIN nft : nft[t].bidder # NoOne => Known(nft[t].bidder, sent)

TokenRows ==
    /\ DOMAIN nfts \subseteq DOMAIN nft
    /\ \A t \in DOMAIN nft \ DOMAIN nfts : \E n \in Todo("createNFT") : Nth(n).token = t
    /\ \A t \in DOMAIN nfts : nft[t].exists => nfts[t].live
    /\ \A t \in DOMAIN nft : ~nft[t].exists /\ (t \in DOMAIN nfts => nfts[t].live) =>
          \E n \in Todo("deleteNFT") : Nth(n).token = t

ColumnRows ==
    \A t \in DOMAIN nfts, f \in Fields :
        nfts[t].live /\ (\A n \in Writing : ~Sets(Nth(n), t, f)) => nfts[t][f] = ChainRow(t)[f]

OfferRows ==
    /\ \A o \in DOMAIN offers :
          /\ o \in DOMAIN offered /\ offers[o].token = offered[o].token /\ offers[o].buyer = offered[o].buyer
          /\ offered[o].open => offers[o].live
    /\ \A o \in DOMAIN offered \ DOMAIN offers : \E n \in Todo("createOffer") : Nth(n).offer = o
    /\ \A o \in DOMAIN offers : offers[o].live /\ ~offered[o].open =>
          \E n \in Todo("deleteOffer") : Nth(n).offer = o

\* Bids never fail, so only the message at the cursor may be one.
HandledOnce == \A n \in Cursor + 2 .. Handled : Nth(n).type # "MakeBidOnAuction"

\* The bids in the table, unless they are about to be deleted, and those to come that will stay.
Reset(t)     == \E n \in Todo("deleteBids") : Nth(n).token = t
StandingBids(t) == IF Reset(t) THEN 0 ELSE bids[t]
Fresh(t)     == Recent(t) \cap Todo("createBid")

BidRows ==
    \A t \in Tokens :
        /\ StandingBids(t) + Cardinality(Fresh(t)) >= Bids(t)
        /\ StandingBids(t) + Cardinality(Fresh(t)) <= Bids(t) + 2 * crashes
        /\ ~Auctioned(t) => StandingBids(t) = 0

FungibleRows ==
    /\ fungibles \subseteq supply
    /\ \A d \in supply \ fungibles : \E n \in Todo("createFungible") : Nth(n).denom = d

Rows  == SignersKnown /\ TokenRows /\ ColumnRows /\ OfferRows /\ HandledOnce /\ BidRows /\ FungibleRows
DbInv == "db" \notin faults => Rows

-----------------------------------------------------------------------------
(* What a message has still to do.                                         *)

LEMMA HasOp ==
    ASSUME NEW m \in Message
    PROVE  /\ m.type = "MintNFT" => Has(m, "createNFT")
           /\ m.type = "BurnNFT" => Has(m, "deleteNFT")
           /\ m.type \in Updating \/ Buyout(m) => Has(m, "update")
           /\ m.type = "AcceptOffer" => Has(m, "updateToBuyer")
           /\ m.type = "MakeBidOnAuction" /\ ~Buyout(m) => Has(m, "createBid")
           /\ EndsAuction(m) => Has(m, "deleteBids")
           /\ m.type = "MakeOffer" => Has(m, "createOffer")
           /\ m.type \in {"AcceptOffer", "RemoveOffer"} => Has(m, "deleteOffer")
           /\ m.type = "CreateFungibleToken" => Has(m, "createFungible")
<1>. USE DEF Do, Publish, QueryPublish, Update, Listing, NoAuction, SoldTo, DeleteBids, AcceptOffer
<1>1. m.type = "MintNFT" => 1 \in DOMAIN HandleMsg(m) /\ HandleMsg(m)[1].op = "createNFT"
  BY DEF HandleMsg
<1>2. m.type = "BurnNFT" => 1 \in DOMAIN HandleMsg(m) /\ HandleMsg(m)[1].op = "deleteNFT"
  BY DEF HandleMsg
<1>3. m.type = "EditNFTMetadata" => 1 \in DOMAIN HandleMsg(m) /\ HandleMsg(m)[1].op = "update"
  BY DEF HandleMsg
<1>4. m.type = "TransferNFT" => 1 \in DOMAIN HandleMsg(m) /\ HandleMsg(m)[1].op = "update"
  BY DEF HandleMsg
<1>5. m.type = "PutNFTOnMarket" => 1 \in DOMAIN HandleMsg(m) /\ HandleMsg(m)[1].op = "update"
  BY DEF HandleMsg
<1>6. m.type = "RemoveNFTFromMarket" => 1 \in DOMAIN HandleMsg(m) /\ HandleMsg(m)[1].op = "update"
  BY DEF HandleMsg
<1>7. m.type = "BuyNFT" => 1 \in DOMAIN HandleMsg(m) /\ HandleMsg(m)[1].op = "update"
  BY DEF HandleMsg
<1>8. m.type = "PutNFTOnAuction" => 1 \in DOMAIN HandleMsg(m) /\ HandleMsg(m)[1].op = "update"
  BY DEF HandleMsg
<1>9. m.type = "RemoveNFTFromAuction" => 1 \in DOMAIN HandleMsg(m) /\ HandleMsg(m)[1].op = "update"
  BY DEF HandleMsg
<1>10. m.type = "BuyoutOnAuction" => 1 \in DOMAIN HandleMsg(m) /\ HandleMsg(m)[1].op = "update"
  BY DEF HandleMsg
<1>11. m.type = "FinishAuction" => 1 \in DOMAIN HandleMsg(m) /\ HandleMsg(m)[1].op = "update"
  BY DEF HandleMsg
<1>12. m.type = "RemoveNFTFromAuction" => 2 \in DOMAIN HandleMsg(m) /\ HandleMsg(m)[2].op = "deleteBids"
  BY DEF HandleMsg
<1>13. m.type = "BuyoutOnAuction" => 2 \in DOMAIN HandleMsg(m) /\ HandleMsg(m)[2].op = "deleteBids"
  BY DEF HandleMsg
<1>14. m.type = "FinishAuction" => 2 \in DOMAIN HandleMsg(m) /\ HandleMsg(m)[2].op = "deleteBids"
  BY DEF HandleMsg
<1>15. m.type = "AcceptOffer" => 2 \in DOMAIN HandleMsg(m) /\ HandleMsg(m)[2].op = "updateToBuyer"
  BY DEF HandleMsg
<1>16. m.type = "AcceptOffer" => 3 \in DOMAIN HandleMsg(m) /\ HandleMsg(m)[3].op = "deleteOffer"
  BY DEF HandleMsg
<1>17. m.type = "RemoveOffer" => 1 \in DOMAIN HandleMsg(m) /\ HandleMsg(m)[1].op = "deleteOffer"
  BY DEF HandleMsg
<1>18. m.type = "MakeOffer" => 1 \in DOMAIN HandleMsg(m) /\ HandleMsg(m)[1].op = "createOffer"
  BY DEF HandleMsg
<1>19. m.type = "CreateFungibleToken" => 1 \in DOMAIN HandleMsg(m) /\ HandleMsg(m)[1].op = "createFungible"
  BY DEF HandleMsg
<1>21. Buyout(m) => /\ 1 \in DOMAIN HandleMsg(m) /\ HandleMsg(m)[1].op = "update"
                   /\ 2 \in DOMAIN HandleMsg(m) /\ HandleMsg(m)[2].op = "deleteBids"
  <2>1. Buyout(m) => HandleMsg(m) = <<SoldTo(m.by), DeleteBids(TRUE)>>
    BY DEF HandleMsg, Buyout
  <2>. QED  BY <2>1
<1>22. m.type = "MakeBidOnAuction" /\ ~Buyout(m) => 1 \in DOMAIN HandleMsg(m) /\ HandleMsg(m)[1].op = "createBid"
  <2>1. m.type = "MakeBidOnAuction" /\ ~Buyout(m) => HandleMsg(m) = <<Do("createBid")>>
    BY DEF HandleMsg, Buyout
  <2>. QED  BY <2>1
<1>. QED
  BY <1>1, <1>2, <1>3, <1>4, <1>5, <1>6, <1>7, <1>8, <1>9, <1>10, <1>11, <1>12,
     <1>13, <1>14, <1>15, <1>16, <1>17, <1>18, <1>19, <1>21, <1>22
  DEF Has, Updating, EndsAuction

\* Which messages run a statement.
LEMMA HasType ==
    ASSUME NEW m \in Message
    PROVE  /\ Has(m, "createNFT") <=> m.type = "MintNFT"
           /\ Has(m, "deleteNFT") <=> m.type = "BurnNFT"
           /\ Has(m, "update") <=> m.type \in Updating \/ Buyout(m)
           /\ Has(m, "updateToBuyer") <=> m.type = "AcceptOffer"
           /\ Has(m, "createBid") <=> m.type = "MakeBidOnAuction" /\ ~Buyout(m)
           /\ Has(m, "deleteBids") <=> EndsAuction(m)
           /\ Has(m, "createOffer") <=> m.type = "MakeOffer"
           /\ Has(m, "deleteOffer") <=> m.type \in {"AcceptOffer", "RemoveOffer"}
           /\ Has(m, "createFungible") <=> m.type = "CreateFungibleToken"
           /\ ~Has(m, "findOrCreateUser")
<1>1. \A op : Has(m, op) => \E i : PlaceOf(m, op, i)
  BY Places DEF Has
<1>. QED  BY <1>1, HasOp DEF PlaceOf

LEMMA OnlyOnce ==
    ASSUME NEW m \in Message, NEW i \in DOMAIN HandleMsg(m), NEW j \in DOMAIN HandleMsg(m),
           HandleMsg(m)[i].op = HandleMsg(m)[j].op
    PROVE  i = j
<1>1. HandleMsg(m)[i] \in HandleStatement
  BY HandleMsgType, ElementOfSeq, LenProperties
<1>2. HandleMsg(m)[i].op \in {"update", "deleteBids"} \cup TokenOps \cup OfferOps \cup FungibleOps
  BY <1>1 DEF HandleStatement
<1>3. PlaceOf(m, HandleMsg(m)[i].op, i) /\ PlaceOf(m, HandleMsg(m)[i].op, j)
  BY Places
<1>. QED  BY <1>2, <1>3 DEF PlaceOf, TokenOps, OfferOps, FungibleOps

LEMMA HandlePlaces ==
    ASSUME NEW m \in Message
    PROVE  /\ DOMAIN HandleMsg(m) = 1 .. Len(HandleMsg(m)) /\ Len(HandleMsg(m)) \in Nat
           /\ Creates(m) \in Nat /\ Creates(m) >= 1 /\ Len(Statements(m)) = Creates(m) + Len(HandleMsg(m))
           /\ \A i \in DOMAIN HandleMsg(m) : Statements(m)[Creates(m) + i] = HandleMsg(m)[i]
BY HandleMsgType, LenProperties, StatementsShape, UsersFirst

LEMMA SameHandleMsg ==
    /\ \A m : HandleMsg(m)' = HandleMsg(m)
    /\ \A m : Creates(m)' = Creates(m)
BY DEF HandleMsg, Creates, CreateUsers, MsgAddresses

LEMMA TodoType ==
    ASSUME TypeOK, NEW op, NEW n \in Todo(op)
    PROVE  n \in Queue /\ n \in Kept /\ n \in Int /\ n >= Handled + 1 /\ Nth(n) \in Message /\ Has(Nth(n), op)
BY NumberTypes, NthType DEF Todo, Queue, Has

\* A message behind the first has everything to do.
LEMMA BehindFirst ==
    ASSUME TypeOK, NEW op, NEW n \in Queue, n > Handled + 1 \/ step = 0, Has(Nth(n), op)
    PROVE  n \in Todo(op)
<1>1. PICK i \in DOMAIN HandleMsg(Nth(n)) : HandleMsg(Nth(n))[i].op = op
  BY DEF Has
<1>2. Ahead(n, i)
  <2>1. CASE n > Handled + 1
    BY <2>1 DEF Ahead
  <2>2. CASE ~(n > Handled + 1) /\ step = 0
    <3>1. n = Handled + 1 /\ pending # <<>>
      BY <2>2, NumberTypes DEF Queue, Handled
    <3>2. Nth(n) = Msg /\ Msg \in Message
      BY <3>1, HeadNumber, MsgType
    <3>. QED  BY <1>1, <2>2, <3>2, HandlePlaces DEF Ahead
  <2>. QED  BY <2>1, <2>2
<1>. QED  BY <1>1, <1>2 DEF Todo

\* A statement that has run is not to be run any more.
LEMMA TodoStatement ==
    ASSUME TypeOK, Running, NextStatement, NEW op
    PROVE  /\ Todo(op)' = IF op = Statement.op THEN Todo(op) \ {Handled + 1} ELSE Todo(op)
           /\ Statement.op # "findOrCreateUser" => Handled + 1 \in Todo(Statement.op)
<1>0. /\ pending # <<>> /\ Msg \in Message /\ step \in 1 .. Len(Statements(Msg))
      /\ Handled + 1 \in Queue /\ Nth(Handled + 1) = Msg /\ Handled \in Int
  BY AtStatement, HeadNumber, NumberTypes
<1>a. /\ Cursor' = Cursor /\ Handled' = Handled /\ sent' = sent /\ Msg' = Msg /\ Queue' = Queue
      /\ \A n : Nth(n)' = Nth(n)
  BY SameNumbers DEF NextStatement, chain
<1>b. step' = step + 1
  BY DEF NextStatement
<1>1. ASSUME NEW i \in Nat, i >= 1, NEW n \in Queue
      PROVE  Ahead(n, i)' <=> Ahead(n, i) /\ ~(n = Handled + 1 /\ step = Creates(Msg) + i)
  <2>1. n \in Int /\ n >= Handled + 1 /\ step \in Nat /\ Creates(Msg) \in Nat /\ Creates(Msg)' = Creates(Msg)
    BY <1>0, <1>a, NumberTypes, HandlePlaces, SameHandleMsg DEF Queue
  <2>. QED  BY <1>0, <1>1, <1>a, <1>b, <2>1 DEF Ahead
<1>2. ASSUME NEW i \in DOMAIN HandleMsg(Msg), step = Creates(Msg) + i
      PROVE  Statement = HandleMsg(Msg)[i]
  BY <1>0, <1>2, HandlePlaces DEF Statement
<1>3. ASSUME Statement.op # "findOrCreateUser"
      PROVE  /\ step - Creates(Msg) \in DOMAIN HandleMsg(Msg)
             /\ HandleMsg(Msg)[step - Creates(Msg)] = Statement
  <2>1. step > Creates(Msg)
    BY <1>3, AtStatement
  <2>2. step - Creates(Msg) \in DOMAIN HandleMsg(Msg) /\ step = Creates(Msg) + (step - Creates(Msg))
    BY <1>0, <2>1, HandlePlaces
  <2>. QED  BY <1>2, <2>2
<1>4. Statement.op # "findOrCreateUser" => Handled + 1 \in Todo(Statement.op)
  <2>. SUFFICES ASSUME Statement.op # "findOrCreateUser"  PROVE Handled + 1 \in Todo(Statement.op)
    OBVIOUS
  <2>1. Ahead(Handled + 1, step - Creates(Msg))
    BY <1>0, HandlePlaces DEF Ahead
  <2>. QED  BY <1>0, <1>3, <2>1 DEF Todo
<1>5. ASSUME NEW n \in Queue, n # Handled + 1 \/ op # Statement.op
      PROVE  n \in Todo(op)' <=> n \in Todo(op)
  <2>0. Nth(n) \in Message
    BY NumberTypes, NthType
  <2>1. ASSUME NEW i \in DOMAIN HandleMsg(Nth(n)), HandleMsg(Nth(n))[i].op = op
        PROVE  Ahead(n, i)' <=> Ahead(n, i)
    <3>1. i \in Nat /\ i >= 1
      BY <2>0, HandlePlaces
    <3>2. ~(n = Handled + 1 /\ step = Creates(Msg) + i)
      BY <1>0, <1>2, <1>5, <2>1
    <3>. QED  BY <1>1, <3>1, <3>2
  <2>2. HandleMsg(Nth(n))' = HandleMsg(Nth(n))
    BY <1>a, SameHandleMsg
  <2>. QED  BY <1>a, <2>1, <2>2 DEF Todo
<1>6. ASSUME NEW n \in Queue, n = Handled + 1, op = Statement.op
      PROVE  n \notin Todo(op)'
  <2>. SUFFICES ASSUME n \in Todo(op)'  PROVE FALSE
    OBVIOUS
  <2>0. Nth(n) = Msg
    BY <1>0, <1>6
  <2>1. PICK i \in DOMAIN HandleMsg(Msg) : HandleMsg(Msg)[i].op = op /\ Ahead(n, i)'
    <3>1. HandleMsg(Nth(n))' = HandleMsg(Msg)
      BY <1>a, <2>0, SameHandleMsg
    <3>. QED  BY <1>a, <3>1 DEF Todo
  <2>2. op # "findOrCreateUser"
    BY <1>0, <2>1, HasType DEF Has
  <2>3. i = step - Creates(Msg)
    BY <1>0, <1>3, <1>6, <2>1, <2>2, OnlyOnce
  <2>4. i \in Nat /\ i >= 1 /\ Creates(Msg) \in Nat /\ step = Creates(Msg) + i
    BY <1>0, <2>1, <2>3, HandlePlaces
  <2>. QED  BY <1>1, <1>6, <2>1, <2>4
<1>. QED  BY <1>a, <1>4, <1>5, <1>6 DEF Todo

LEMMA TodoSame ==
    ASSUME TypeOK, UNCHANGED <<pending, sent>>, step' = step \/ (step = 0 /\ step' = 1)
    PROVE  /\ Handled' = Handled /\ Queue' = Queue /\ \A n \in Queue : Nth(n)' = Nth(n)
           /\ \A op : Todo(op)' = Todo(op)
<1>1. Handled' = Handled /\ Queue' = Queue /\ Msg' = Msg
  BY DEF Handled, Queue, Msg
<1>2. ASSUME NEW n \in Queue  PROVE Nth(n)' = Nth(n)
  BY <1>1, <1>2, NumberTypes DEF Nth, Queue
<1>3. ASSUME NEW op, NEW n \in Queue  PROVE n \in Todo(op)' <=> n \in Todo(op)
  <2>0. Nth(n) \in Message /\ n \in Int /\ n >= Handled + 1 /\ Handled \in Int
    BY NumberTypes, NthType DEF Queue
  <2>1. ASSUME NEW i \in DOMAIN HandleMsg(Nth(n))
        PROVE  Ahead(n, i)' <=> Ahead(n, i)
    <3>0. i \in Nat /\ i >= 1
      BY <2>0, HandlePlaces
    <3>1. CASE step' = step
      BY <1>1, <3>1, SameHandleMsg DEF Ahead
    <3>2. CASE step = 0 /\ step' = 1 /\ ~(n > Handled + 1)
      <4>1. Msg \in Message
        <5>1. pending # <<>>
          BY <2>0, <3>2, NumberTypes DEF Handled, Queue
        <5>. QED  BY <5>1, MsgType
      <4>. QED  BY <1>1, <2>0, <3>0, <3>2, <4>1, HandlePlaces, SameHandleMsg DEF Ahead
    <3>3. CASE n > Handled + 1
      BY <1>1, <3>3 DEF Ahead
    <3>. QED  BY <3>1, <3>2, <3>3
  <2>2. HandleMsg(Nth(n))' = HandleMsg(Nth(n))
    BY <1>2, SameHandleMsg
  <2>. QED  BY <1>1, <2>1, <2>2 DEF Todo
<1>. QED  BY <1>1, <1>2, <1>3 DEF Todo

LEMMA TodoSent ==
    ASSUME TypeOK, NEW m \in Message, Send(m), NEW op
    PROVE  /\ Todo(op)' = Todo(op) \cup (IF Has(m, op) THEN {sent + 1} ELSE {})
           /\ Queue' = Queue \cup {sent + 1} /\ sent + 1 \notin Queue
           /\ \A n \in Queue : n \in Kept
<1>0. sent \in Nat /\ Handled \in Int /\ Handled <= sent /\ Handled' = Handled /\ sent' = sent + 1
  BY NumberTypes, SendNumbers
<1>1. Queue' = Queue \cup {sent + 1} /\ sent + 1 \notin Queue
  BY <1>0 DEF Queue
<1>2. ASSUME NEW n \in Queue  PROVE n \in Todo(op)' <=> n \in Todo(op)
  <2>1. n \in Kept /\ pending # <<>>
    BY NumberTypes DEF Queue, Handled
  <2>2. Nth(n)' = Nth(n) /\ Msg' = Msg /\ step' = step
    BY <2>1, SendNumbers DEF Send
  <2>3. HandleMsg(Nth(n))' = HandleMsg(Nth(n))
    BY <2>2, SameHandleMsg
  <2>4. \A i : Ahead(n, i)' <=> Ahead(n, i)
    BY <1>0, <2>2, SameHandleMsg DEF Ahead
  <2>. QED  BY <1>1, <2>3, <2>4 DEF Todo
<1>3. ASSUME NEW n, n = sent + 1  PROVE n \in Todo(op)' <=> Has(m, op)
  <2>1. Nth(n)' = m /\ n \in Queue' /\ HandleMsg(Nth(n))' = HandleMsg(m)
    BY <1>1, <1>3, SendNumbers, SameHandleMsg
  <2>2. ASSUME NEW i \in DOMAIN HandleMsg(m)  PROVE Ahead(n, i)'
    <3>1. CASE pending # <<>>
      BY <1>0, <1>3, <3>1, MsgType DEF Ahead, Handled
    <3>2. CASE pending = <<>>
      <4>1. step' = 0
        BY <3>2 DEF Send, TypeOK
      <4>2. Msg' = m
        BY <3>2, HeadTailAppend DEF Send, Msg
      <4>3. i \in Nat /\ Creates(m) \in Nat /\ Creates(Msg)' = Creates(m)
        BY <4>2, HandlePlaces, SameHandleMsg
      <4>. QED  BY <4>1, <4>3 DEF Ahead
    <3>. QED  BY <3>1, <3>2
  <2>. QED  BY <2>1, <2>2 DEF Todo, Has
<1>4. \A n \in Queue' : n \in Queue \/ n = sent + 1
  BY <1>1
<1>. QED  BY <1>1, <1>2, <1>3, <1>4, NumberTypes DEF Todo

\* At the end of a message the ones behind it have everything to do, as before.
LEMMA TodoEndMsg ==
    ASSUME TypeOK, pending # <<>>, NEW ok \in BOOLEAN, EndMsg(ok), NEW op
    PROVE  /\ Todo(op)' = Todo(op) \ {Handled + 1}
           /\ Queue' = Queue \ {Handled + 1} /\ \A n \in Queue' : n \in Kept' /\ Nth(n)' = Nth(n)
<1>0. /\ sent' = sent /\ Handled' = Handled + 1 /\ Handled \in Int /\ step' = 0 /\ sent \in Nat
      /\ Cursor' \in Int /\ Cursor' <= Handled
  BY EndMsgNumbers, NumberTypes DEF EndMsg
<1>1. Queue' = Queue \ {Handled + 1} /\ \A n \in Queue' : n \in Kept' /\ n \in Int /\ n > Handled + 1
  <2>1. Queue' = (Handled + 1) + 1 .. sent /\ Kept' = Cursor' + 1 .. sent
    BY <1>0 DEF Queue, Kept
  <2>2. \A c \in Int : c <= Handled => \A n \in (Handled + 1) + 1 .. sent : n \in c + 1 .. sent
    BY <1>0
  <2>3. Queue' \subseteq Kept'
    BY <1>0, <2>1, <2>2
  <2>4. Queue' = Queue \ {Handled + 1} /\ \A n \in Queue' : n \in Int /\ n > Handled + 1
    BY <1>0, <2>1 DEF Queue
  <2>. QED  BY <2>3, <2>4
<1>2. \A n \in Queue' : Nth(n)' = Nth(n) /\ n \in Queue
  BY <1>1, EndMsgNumbers
<1>3. ASSUME NEW n \in Queue'  PROVE n \in Todo(op)' <=> n \in Todo(op)
  <2>0. Nth(n) \in Message /\ HandleMsg(Nth(n))' = HandleMsg(Nth(n))
    BY <1>2, SameHandleMsg, NumberTypes, NthType
  <2>1. ASSUME NEW i \in DOMAIN HandleMsg(Nth(n))  PROVE Ahead(n, i) /\ Ahead(n, i)'
    <3>1. Ahead(n, i)
      BY <1>1 DEF Ahead
    <3>2. CASE n > Handled + 2
      BY <1>0, <3>1, <3>2 DEF Ahead
    <3>3. CASE n = Handled + 2
      <4>1. pending' # <<>> /\ Msg' = Nth(n)
        <5>1. pending' = Tail(pending) /\ pending \in Seq(Message) /\ Len(pending) \in Nat /\ n - Handled = 2
          BY <1>0, <3>3, MsgType DEF EndMsg, TypeOK
        <5>2. Len(pending) >= 2
          BY <1>0, <1>1, <3>3 DEF Queue, Handled
        <5>3. Tail(pending) # <<>> /\ Tail(pending)[1] = pending[2] /\ Head(Tail(pending)) = Tail(pending)[1]
          <6>1. Tail(pending) \in Seq(Message) /\ Len(Tail(pending)) = Len(pending) - 1 /\ Tail(pending)[1] = pending[2]
            BY <5>1, <5>2, HeadTailProperties
          <6>2. \A s \in Seq(Message) : Len(s) >= 1 => s # <<>> /\ Head(s) = s[1]
            BY EmptySeq, LenProperties
          <6>3. Len(Tail(pending)) >= 1
            BY <5>1, <5>2, <6>1
          <6>. QED  BY <6>1, <6>2, <6>3, Zenon
        <5>. QED  BY <1>0, <1>1, <5>1, <5>3, <3>3 DEF Msg, Nth
      <4>2. i \in Nat /\ Creates(Nth(n)) \in Nat /\ Creates(Msg)' = Creates(Nth(n))
        BY <2>0, <4>1, HandlePlaces, SameHandleMsg
      <4>. QED  BY <1>0, <3>1, <4>2 DEF Ahead
    <3>. QED  BY <1>0, <1>1, <3>2, <3>3
  <2>. QED  BY <1>2, <2>0, <2>1 DEF Todo
<1>. QED  BY <1>1, <1>2, <1>3 DEF Todo

\* After a crash every message from the cursor on has everything to do.
LEMMA TodoCrash ==
    ASSUME TypeOK, Crash, NEW op
    PROVE  /\ Todo(op)' = {n \in Kept : Has(Nth(n), op)} /\ Todo(op) \subseteq Todo(op)'
           /\ Queue' = Kept /\ Kept' = Kept /\ \A n \in Kept : Nth(n)' = Nth(n)
<1>0. /\ sent' = sent /\ Handled' = Cursor /\ Cursor' = Cursor /\ Cursor \in Int /\ step' = 0 /\ sent \in Nat
  BY CrashNumbers, NumberTypes DEF Crash
<1>1. Queue' = Kept /\ Kept' = Kept
  BY <1>0 DEF Queue, Kept
<1>2. \A n \in Kept : Nth(n)' = Nth(n)
  BY <1>1, CrashNumbers
<1>3. ASSUME NEW n \in Kept  PROVE n \in Todo(op)' <=> Has(Nth(n), op)
  <2>0. Nth(n) \in Message /\ HandleMsg(Nth(n))' = HandleMsg(Nth(n)) /\ n \in Int
    BY <1>2, SameHandleMsg, NthType
  <2>1. ASSUME NEW i \in DOMAIN HandleMsg(Nth(n))  PROVE Ahead(n, i)'
    <3>2. CASE n > Cursor + 1
      BY <1>0, <3>2 DEF Ahead
    <3>3. CASE n = Cursor + 1
      <4>1. Msg' = Nth(n)
        <5>1. pending' = done \o pending /\ pending \in Seq(Message) /\ done \in Seq(Message)
          BY DEF Crash, TypeOK
        <5>2. Len(pending') = Len(done) + Len(pending) /\ pending' \in Seq(Message)
          BY <5>1, ConcatProperties
        <5>3. Len(pending') >= 1
          BY <5>2, <3>3, NumberTypes DEF Kept, Cursor
        <5>4. Head(pending') = pending'[1] /\ n - Handled' = 1 /\ ~(n <= Handled')
          BY <1>0, <3>3, <5>2, <5>3, HeadTailProperties, EmptySeq
        <5>5. Nth(n)' = pending'[1]
          BY <5>4 DEF Nth
        <5>. QED  BY <1>2, <5>4, <5>5 DEF Msg
      <4>2. i \in Nat /\ Creates(Nth(n)) \in Nat /\ Creates(Msg)' = Creates(Nth(n))
        BY <2>0, <4>1, HandlePlaces, SameHandleMsg
      <4>. QED  BY <1>0, <4>2 DEF Ahead
    <3>. QED  BY <1>0, <2>0, <3>2, <3>3 DEF Kept
  <2>. QED  BY <1>1, <2>0, <2>1 DEF Todo, Has
<1>4. Todo(op) \subseteq {n \in Kept : Has(Nth(n), op)}
  BY TodoType
<1>5. Todo(op)' \subseteq Kept
  BY <1>1 DEF Todo
<1>. QED  BY <1>1, <1>2, <1>3, <1>4, <1>5

-----------------------------------------------------------------------------
(* Handle is refused nothing, but a row that is there already and the URI  *)
(* of a burned token.                                                      *)

LEMMA FirstMsg ==
    ASSUME TypeOK, pending # <<>>
    PROVE  /\ Msg \in Message /\ Handled + 1 \in Queue /\ Handled + 1 \in Kept /\ Nth(Handled + 1) = Msg
           /\ \A n \in Queue : n \in Kept /\ n \in Int /\ n >= Handled + 1 /\ Nth(n) \in Message
           /\ \A n \in Queue : n <= Handled + 1 => n = Handled + 1
BY MsgType, HeadNumber, NumberTypes, NthType DEF Queue

\* What a message is about is in the tables when it comes first.
LEMMA TokenPresent ==
    ASSUME TypeOK, pending # <<>>, TokenMessages, TokenRows, NEW t \in Tokens, Of(Msg, t), Msg.type # "MintNFT"
    PROVE  t \in DOMAIN nft /\ t \in DOMAIN nfts
<1>1. t \in DOMAIN nft
  BY FirstMsg DEF TokenMessages
<1>2. ASSUME t \notin DOMAIN nfts  PROVE FALSE
  <2>1. PICK n \in Todo("createNFT") : Nth(n).token = t
    BY <1>1, <1>2 DEF TokenRows
  <2>2. n \in Queue /\ Nth(n).type = "MintNFT"
    BY <2>1, TodoType, HasType
  <2>3. n <= Handled + 1
    BY <2>1, <2>2, FirstMsg DEF TokenMessages
  <2>. QED  BY <2>2, <2>3, FirstMsg
<1>. QED  BY <1>1, <1>2

LEMMA OfferPresent ==
    ASSUME TypeOK, pending # <<>>, OfferMessages, OfferRows, NEW o \in OfferIds, OfOffer(Msg, o), Msg.type # "MakeOffer"
    PROVE  o \in DOMAIN offered /\ o \in DOMAIN offers
<1>1. o \in DOMAIN offered
  BY FirstMsg DEF OfferMessages
<1>2. ASSUME o \notin DOMAIN offers  PROVE FALSE
  <2>1. PICK n \in Todo("createOffer") : Nth(n).offer = o
    BY <1>1, <1>2 DEF OfferRows
  <2>2. n \in Queue /\ Nth(n).type = "MakeOffer"
    BY <2>1, TodoType, HasType
  <2>3. n <= Handled + 1
    BY <2>1, <2>2, FirstMsg DEF OfferMessages
  <2>. QED  BY <2>2, <2>3, FirstMsg
<1>. QED  BY <1>1, <1>2

LEMMA UsersPresent ==
    ASSUME TypeInv, pending # <<>>, SignersKnown, step > Creates(Msg)
    PROVE  /\ Msg.by \in users
           /\ "to" \in DOMAIN Msg => Msg.to \in users
           /\ Msg.type = "FinishAuction" => Msg.newOwner \in users
<1>0. TypeOK /\ Msg \in Message /\ Handled \in Int /\ step \in Nat
  BY FirstMsg, NumberTypes DEF TypeInv, TypeOK
<1>1. Msg.by \in users /\ ("to" \in DOMAIN Msg => Msg.to \in users)
  BY <1>0, UsersFirst DEF TypeInv, UsersKnown
<1>2. ASSUME Msg.type = "FinishAuction"  PROVE Msg.newOwner \in users
  <2>1. Known(Msg.newOwner, Handled + 1)
    BY <1>0, <1>2, FirstMsg DEF SignersKnown
  <2>2. \A k \in Handled + 1 .. Handled + 1 : Nth(k) = Msg
    BY <1>0, FirstMsg
  <2>. QED  BY <1>1, <2>1, <2>2 DEF Known
<1>. QED  BY <1>1, <1>2

LEMMA AtHas ==
    ASSUME TypeOK, Running, Statement.op # "findOrCreateUser"
    PROVE  /\ pending # <<>> /\ Msg \in Message /\ step > Creates(Msg) /\ Has(Msg, Statement.op)
           /\ step \in 1 .. Len(Statements(Msg))
           /\ PlaceOf(Msg, Statement.op, step - Creates(Msg))
           /\ step - Creates(Msg) \in DOMAIN HandleMsg(Msg) /\ Statement = HandleMsg(Msg)[step - Creates(Msg)]
<1>1. /\ pending # <<>> /\ Msg \in Message /\ step > Creates(Msg) /\ step \in 1 .. Len(Statements(Msg))
      /\ PlaceOf(Msg, Statement.op, step - Creates(Msg))
  BY AtStatement
<1>2. step - Creates(Msg) \in DOMAIN HandleMsg(Msg) /\ step = Creates(Msg) + (step - Creates(Msg))
  BY <1>1, HandlePlaces
<1>3. Statement = HandleMsg(Msg)[step - Creates(Msg)]
  BY <1>1, <1>2, HandlePlaces DEF Statement
<1>. QED  BY <1>1, <1>2, <1>3 DEF Has

\* What the UPDATE of a message sets.
LEMMA UpdateColumns ==
    ASSUME TypeOK, Running, Statement.op \in {"update", "updateToBuyer"}, OfferMessages, OfferRows
    PROVE  Columns = NewColumns(Msg) /\ Msg.type # "MintNFT"
<1>0. pending # <<>> /\ Msg \in Message /\ PlaceOf(Msg, Statement.op, step - Creates(Msg))
      /\ Statement = HandleMsg(Msg)[step - Creates(Msg)]
  BY AtHas
<1>1. CASE Statement.op = "update"
  <2>1. step - Creates(Msg) = 1 /\ (Msg.type \in Updating \/ Buyout(Msg))
    BY <1>0, <1>1 DEF PlaceOf
  <2>2. Columns = HandleMsg(Msg)[1].set
    BY <1>0, <1>1, <2>1 DEF Columns
  <2>. QED  BY <2>1, <2>2 DEF NewColumns, Updating, Buyout
<1>2. CASE Statement.op = "updateToBuyer"
  <2>1. Msg.type = "AcceptOffer"
    BY <1>0, <1>2 DEF PlaceOf
  <2>2. Msg.offer \in OfferIds /\ OfOffer(Msg, Msg.offer)
    BY <1>0, <2>1 DEF Message, OfOffer
  <2>3. Msg.offer \in DOMAIN offers /\ offers[Msg.offer].buyer = offered[Msg.offer].buyer
    BY <1>0, <2>1, <2>2, OfferPresent DEF OfferRows
  <2>. QED  BY <1>2, <2>1, <2>3, ColumnsOf DEF Columns, NewColumns
<1>. QED  BY <1>1, <1>2

LEMMA OwnerPresent ==
    ASSUME TypeInv, Running, Statement.op \in {"update", "updateToBuyer"}, OfferMessages, OfferRows, SignersKnown
    PROVE  OwnerIsUser
<1>0. TypeOK /\ TablesOK
  BY DEF TypeInv, TypeOK
<1>1. pending # <<>> /\ Msg \in Message /\ step > Creates(Msg) /\ Columns = NewColumns(Msg)
      /\ PlaceOf(Msg, Statement.op, step - Creates(Msg))
  BY <1>0, AtHas, UpdateColumns
<1>2. /\ Msg.by \in users
      /\ "to" \in DOMAIN Msg => Msg.to \in users
      /\ Msg.type = "FinishAuction" => Msg.newOwner \in users
  BY <1>1, UsersPresent
<1>3. CASE Msg.type \in Updating \/ Buyout(Msg)
  <2>1. Msg.type = "TransferNFT" => "to" \in DOMAIN Msg
    BY <1>1 DEF Message
  <2>. QED  BY <1>1, <1>2, <1>3, <2>1, ColumnsOf DEF OwnerIsUser, Updating
<1>4. CASE Msg.type = "AcceptOffer"
  <2>1. Msg.offer \in OfferIds /\ OfOffer(Msg, Msg.offer)
    BY <1>1, <1>4 DEF Message, OfOffer
  <2>2. Msg.offer \in DOMAIN offers /\ offers[Msg.offer].buyer = offered[Msg.offer].buyer
    BY <1>0, <1>1, <1>4, <2>1, OfferPresent DEF OfferRows
  <2>3. offers[Msg.offer].buyer \in users
    BY <1>0, <2>2 DEF TablesOK
  <2>. QED  BY <1>1, <1>4, <2>2, <2>3, ColumnsOf DEF OwnerIsUser
<1>. QED  BY <1>1, <1>3, <1>4 DEF PlaceOf

LEMMA SeldomRefused ==
    ASSUME TypeInv, HistInv, Rows, Accounts = Addresses, Refused
    PROVE  /\ Running
           /\ \/ Statement.op \in {"queryPublish", "findFungible"}
              \/ Statement.op = "createNFT" /\ Exists(Token)
              \/ Statement.op = "createFungible" /\ Msg.denom \in fungibles
<1>0. Running /\ TypeOK /\ pending # <<>> /\ Msg \in Message /\ Statement \in AnyStatement
  BY AtStatement DEF TypeInv, Refused, At
<1>1. ~(At("findOrCreateUser") /\ Statement.addr \notin Accounts)
  BY <1>0 DEF At, AnyStatement, HandleStatement, TokenOps, OfferOps, FungibleOps
<1>2. At("createNFT") => Msg.to \in users
  <2>. SUFFICES ASSUME At("createNFT")  PROVE Msg.to \in users
    OBVIOUS
  <2>1. Msg.type = "MintNFT" /\ step > Creates(Msg)
    BY <1>0, AtHas DEF At, PlaceOf
  <2>2. "to" \in DOMAIN Msg
    BY <1>0, <2>1 DEF Message
  <2>. QED  BY <1>0, <2>1, <2>2, UsersPresent DEF Rows
<1>3. At("update") \/ At("updateToBuyer") => OwnerIsUser
  BY <1>0, OwnerPresent DEF At, HistInv, Rows
<1>4. At("createBid") \/ At("createOffer") => Exists(Token)
  <2>. SUFFICES ASSUME At("createBid") \/ At("createOffer")  PROVE Exists(Token)
    OBVIOUS
  <2>1. Msg.type \in {"MakeBidOnAuction", "MakeOffer"}
    BY <1>0, AtHas DEF At, PlaceOf
  <2>2. Token \in Tokens /\ Of(Msg, Token)
    BY <1>0, <2>1 DEF Message, Of, Token
  <2>. QED  BY <1>0, <2>1, <2>2, TokenPresent DEF Exists, HistInv, Rows
<1>5. At("scanOffer") => Msg.offer \in DOMAIN offers
  <2>. SUFFICES ASSUME At("scanOffer")  PROVE Msg.offer \in DOMAIN offers
    OBVIOUS
  <2>1. Msg.type = "AcceptOffer"
    BY <1>0, AtHas DEF At, PlaceOf
  <2>2. Msg.offer \in OfferIds /\ OfOffer(Msg, Msg.offer)
    BY <1>0, <2>1 DEF Message, OfOffer
  <2>. QED  BY <1>0, <2>1, <2>2, OfferPresent DEF HistInv, Rows
<1>6. At("createFungible") => Msg.by \in users
  BY <1>0, AtHas, UsersPresent DEF At, Rows
<1>. QED  BY <1>0, <1>1, <1>2, <1>3, <1>4, <1>5, <1>6 DEF Refused, At

\* When a message ends, everything it had to do in the database has been done, or was there.
LEMMA NothingLeft ==
    ASSUME TypeInv, HistInv, Rows, Accounts = Addresses, HandleFails \/ HandleSucceeds, "db" \notin faults'
    PROVE  /\ pending # <<>> /\ step > Creates(Msg)
           /\ \A op : Handled + 1 \in Todo(op) =>
                 \/ op \in {"publish", "queryPublish", "findFungible"}
                 \/ op = "createNFT" /\ Exists(Token)
                 \/ op = "createFungible" /\ Msg.denom \in fungibles
           /\ HandleFails => Msg.type # "MakeBidOnAuction"
<1>0. TypeOK
  BY DEF TypeInv
<1>1. CASE HandleSucceeds
  <2>1. step > 0 /\ step > Len(Statements(Msg)) /\ pending # <<>> /\ step \in Nat
    BY <1>0, <1>1 DEF HandleSucceeds, TypeOK
  <2>2. Msg \in Message /\ Nth(Handled + 1) = Msg /\ Handled \in Int
    BY <1>0, <2>1, FirstMsg, NumberTypes
  <2>3. \A i \in DOMAIN HandleMsg(Msg) : step > Creates(Msg) + i
    BY <2>1, <2>2, HandlePlaces
  <2>4. ~(HandleFails)
    <3>1. ~Running
      BY <2>1, <2>2, HandlePlaces DEF Running
    <3>. QED  BY <3>1 DEF HandleFails, Refused, Fault, At
  <2>5. \A op : Handled + 1 \notin Todo(op)
    BY <2>1, <2>2, <2>3, HandlePlaces DEF Todo, Ahead
  <2>6. step > Creates(Msg)
    BY <2>1, <2>2, HandlePlaces
  <2>. QED  BY <2>1, <2>4, <2>5, <2>6
<1>2. CASE HandleFails
  <2>1. /\ Running
        /\ \/ Statement.op \in {"publish", "queryPublish", "findFungible"}
           \/ Statement.op = "createNFT" /\ Exists(Token)
           \/ Statement.op = "createFungible" /\ Msg.denom \in fungibles
    <3>1. CASE Refused
      BY <3>1, SeldomRefused
    <3>2. CASE Fault
      <4>1. PICK f \in Faults \ faults : (Sending <=> f = "rmq") /\ faults' = faults \cup {f}
        BY <3>2 DEF Fault
      <4>2. f \in {"db", "rmq"} /\ f # "db"
        BY <4>1, ConstantsAssumption
      <4>. QED  BY <3>2, <4>1, <4>2 DEF Fault, Sending, At
    <3>. QED  BY <1>2, <3>1, <3>2 DEF HandleFails
  <2>2. /\ pending # <<>> /\ Msg \in Message /\ step > Creates(Msg) /\ PlaceOf(Msg, Statement.op, step - Creates(Msg))
        /\ step - Creates(Msg) \in DOMAIN HandleMsg(Msg) /\ Statement = HandleMsg(Msg)[step - Creates(Msg)]
        /\ step \in 1 .. Len(Statements(Msg))
    BY <1>0, <2>1, AtHas
  <2>3. Nth(Handled + 1) = Msg /\ Handled \in Int /\ Creates(Msg) \in Nat /\ step \in Nat
    BY <1>0, <2>2, FirstMsg, NumberTypes, HandlePlaces DEF TypeOK
  <2>4. Msg.type # "MakeBidOnAuction"
    BY <2>1, <2>2 DEF PlaceOf
  <2>5. ASSUME NEW op, Handled + 1 \in Todo(op)
        PROVE  op = Statement.op \/ op = "publish"
    <3>1. PICK i \in DOMAIN HandleMsg(Msg) : HandleMsg(Msg)[i].op = op /\ step <= Creates(Msg) + i
      BY <2>3, <2>5 DEF Todo, Ahead
    <3>2. i \in 1 .. Len(HandleMsg(Msg)) /\ Len(HandleMsg(Msg)) \in Nat /\ step - Creates(Msg) <= i
      BY <2>2, <2>3, <3>1, HandlePlaces
    <3>3. CASE step - Creates(Msg) = Len(HandleMsg(Msg))
      <4>1. i = step - Creates(Msg)
        BY <2>3, <3>2, <3>3
      <4>. QED  BY <2>2, <3>1, <4>1
    <3>4. CASE step - Creates(Msg) # Len(HandleMsg(Msg))
      <4>0. Msg.type = "TransferFungibleTokens" => Len(HandleMsg(Msg)) = 1
        BY DEF HandleMsg
      <4>1. Statement.op = "createNFT"
        BY <2>1, <2>2, <3>4, <4>0 DEF PlaceOf
      <4>2. HandleMsg(Msg) = <<Do("createNFT"), Publish>>
        BY <2>2, <4>1 DEF PlaceOf, HandleMsg
      <4>3. i = 1 \/ i = 2
        BY <3>2, <4>2
      <4>. QED  BY <3>1, <4>1, <4>2, <4>3 DEF Do, Publish
    <3>. QED  BY <3>3, <3>4
  <2>. QED  BY <2>1, <2>2, <2>4, <2>5
<1>. QED  BY <1>1, <1>2

-----------------------------------------------------------------------------
(* The signers.                                                            *)

LEMMA SignersSame ==
    ASSUME TypeOK, SignersKnown, UNCHANGED <<chain, pending, done>>, users \subseteq users'
    PROVE  SignersKnown'
<1>1. /\ Cursor' = Cursor /\ Handled' = Handled /\ sent' = sent /\ Queue' = Queue /\ nft' = nft
      /\ \A n : Nth(n)' = Nth(n)
  BY SameNumbers DEF chain
<1>2. \A a, n : Known(a, n) => Known(a, n)'
  BY <1>1 DEF Known
<1>. QED  BY <1>1, <1>2 DEF SignersKnown

LEMMA SignersSent ==
    ASSUME TypeOK, SignersKnown, NEW m \in Message, Send(m), DidBids(m)
    PROVE  SignersKnown'
<1>0. /\ Cursor' = Cursor /\ Handled' = Handled /\ sent' = sent + 1 /\ sent \in Nat /\ Handled \in Int
      /\ Cursor \in Int /\ Cursor <= Handled /\ Handled <= sent /\ users' = users
  BY SendNumbers, NumberTypes DEF Send, tables
<1>1. \A n \in Kept : Nth(n)' = Nth(n) /\ n \in Int
  BY SendNumbers, NumberTypes
<1>2. \A n : n = sent + 1 => Nth(n)' = m
  BY SendNumbers
<1>3. ASSUME NEW a, NEW n \in Int, n <= sent, Known(a, n)
      PROVE  Known(a, n)'
  <2>1. ASSUME NEW k \in Handled + 1 .. n, Nth(k).by = a  PROVE \E j \in Handled' + 1 .. n : Nth(j)'.by = a
    <3>1. k \in Kept
      BY <1>0, <1>3 DEF Kept
    <3>. QED  BY <1>0, <1>1, <2>1, <3>1
  <2>. QED  BY <1>0, <1>3, <2>1 DEF Known
<1>4. ASSUME NEW a, NEW n, n = sent + 1, Known(a, sent) \/ m.by = a
      PROVE  Known(a, n)'
  <2>1. ASSUME NEW k \in Handled + 1 .. sent, Nth(k).by = a  PROVE \E j \in Handled' + 1 .. n : Nth(j)'.by = a
    <3>1. k \in Kept /\ k \in Handled' + 1 .. n
      BY <1>0, <1>4 DEF Kept
    <3>. QED  BY <1>1, <2>1, <3>1
  <2>2. m.by = a => \E j \in Handled' + 1 .. n : Nth(j)'.by = a
    <3>1. n \in Handled' + 1 .. n
      BY <1>0, <1>4
    <3>. QED  BY <1>2, <1>4, <3>1
  <2>. QED  BY <1>0, <1>4, <2>1, <2>2 DEF Known
<1>5. ASSUME NEW n \in Queue', Nth(n)'.type = "FinishAuction"
      PROVE  Known(Nth(n).newOwner, n)'
  <2>1. CASE n \in Queue
    <3>1. n \in Kept /\ n \in Int /\ n <= sent /\ Nth(n)' = Nth(n)
      BY <1>1, <2>1, NumberTypes DEF Queue
    <3>2. Known(Nth(n).newOwner, n)
      BY <1>5, <2>1, <3>1 DEF SignersKnown
    <3>. QED  BY <1>3, <3>1, <3>2
  <2>2. CASE n = sent + 1
    <3>1. m.type = "FinishAuction" /\ Nth(n)' = m
      BY <1>2, <1>5, <2>2
    <3>2. m.newOwner = m.by \/ Known(m.newOwner, sent)
      BY <3>1 DEF DidBids, SignersKnown
    <3>. QED  BY <1>4, <2>2, <3>1, <3>2
  <2>. QED  BY <2>1, <2>2, TodoSent
<1>6. ASSUME NEW n \in Cursor + 1 .. Handled
      PROVE  /\ Nth(n)'.by \in users' /\ (Nth(n)'.type = "FinishAuction" => Nth(n)'.newOwner \in users')
  <2>1. n \in Kept
    BY <1>0 DEF Kept
  <2>. QED  BY <1>0, <1>1, <2>1 DEF SignersKnown
<1>7. ASSUME NEW t \in DOMAIN nft', nft'[t].bidder # NoOne
      PROVE  Known(nft[t].bidder, sent)'
  <2>1. m.by = nft'[t].bidder \/ Known(nft'[t].bidder, sent)
    BY <1>7 DEF DidBids, SignersKnown
  <2>2. \A a, n : a = nft'[t].bidder /\ n = sent + 1 => Known(a, n)'
    BY <1>4, <2>1
  <2>. QED  BY <1>0, <2>2
<1>. QED  BY <1>0, <1>5, <1>6, <1>7 DEF SignersKnown

LEMMA SignersEnd ==
    ASSUME TypeInv, SignersKnown, pending # <<>>, step > Creates(Msg), NEW ok \in BOOLEAN, EndMsg(ok)
    PROVE  SignersKnown'
<1>0. /\ Handled' = Handled + 1 /\ sent' = sent /\ Cursor' \in {Cursor, Handled} /\ sent \in Nat /\ Handled \in Int
      /\ Cursor \in Int /\ Cursor <= Handled /\ Handled < sent /\ users' = users /\ nft' = nft
  <2>1. TypeOK
    BY DEF TypeInv
  <2>. QED  BY <2>1, EndMsgNumbers, NumberTypes, FirstMsg DEF EndMsg, chain, tables, Queue
<1>1. /\ Msg.by \in users
      /\ Msg.type = "FinishAuction" => Msg.newOwner \in users
      /\ Nth(Handled + 1) = Msg
  BY UsersPresent, FirstMsg DEF TypeInv
<1>2. \A n \in Kept' : n \in Kept /\ Nth(n)' = Nth(n) /\ n \in Int
  BY EndMsgNumbers, NumberTypes DEF TypeInv
<1>3. ASSUME NEW a, NEW n \in Int, n <= sent, Known(a, n)
      PROVE  Known(a, n)'
  <2>1. ASSUME NEW k \in Handled + 1 .. n, Nth(k).by = a, k # Handled + 1
        PROVE  k \in Handled' + 1 .. n /\ Nth(k)'.by = a
    <3>1. k \in Handled' + 1 .. n
      BY <1>0, <1>3, <2>1
    <3>2. k \in Kept'
      <4>1. \A c \in Int : c <= Handled => k \in c + 1 .. sent
        BY <1>0, <1>3, <2>1
      <4>2. Kept' = Cursor' + 1 .. sent /\ Cursor' \in Int /\ Cursor' <= Handled
        BY <1>0 DEF Kept
      <4>. QED  BY <4>1, <4>2
    <3>. QED  BY <1>2, <2>1, <3>1, <3>2
  <2>. QED  BY <1>0, <1>1, <1>3, <2>1 DEF Known
<1>4. ASSUME NEW n \in Queue', Nth(n)'.type = "FinishAuction"
      PROVE  Known(Nth(n).newOwner, n)'
  <2>1. n \in Queue /\ n \in Kept' /\ Nth(n)' = Nth(n)
    BY TodoEndMsg DEF TypeInv
  <2>2. Known(Nth(n).newOwner, n) /\ n \in Int /\ n <= sent
    BY <1>0, <1>4, <2>1 DEF SignersKnown, Queue
  <2>. QED  BY <1>3, <2>1, <2>2
<1>5. ASSUME NEW n \in Cursor' + 1 .. Handled'
      PROVE  /\ Nth(n)'.by \in users' /\ (Nth(n)'.type = "FinishAuction" => Nth(n)'.newOwner \in users')
  <2>1. \A c \in {Cursor, Handled} : \A k \in c + 1 .. Handled + 1 :
            k \in c + 1 .. sent /\ (k \in Cursor + 1 .. Handled \/ k = Handled + 1)
    BY <1>0
  <2>2. n \in Kept' /\ (n \in Cursor + 1 .. Handled \/ n = Handled + 1)
    BY <1>0, <2>1 DEF Kept
  <2>. QED  BY <1>0, <1>1, <1>2, <2>2 DEF SignersKnown
<1>6. ASSUME NEW t \in DOMAIN nft, nft[t].bidder # NoOne
      PROVE  Known(nft[t].bidder, sent)'
  <2>1. Known(nft[t].bidder, sent)'
    <3>1. Known(nft[t].bidder, sent)
      BY <1>6 DEF SignersKnown
    <3>2. \A a, n : a = nft[t].bidder /\ n = sent => Known(a, n)'
      BY <1>0, <1>3, <3>1
    <3>. QED  BY <1>0, <3>2
  <2>. QED  BY <2>1
<1>. QED  BY <1>0, <1>4, <1>5, <1>6 DEF SignersKnown

LEMMA SignersBlock ==
    ASSUME TypeOK, SignersKnown, EndBlock
    PROVE  SignersKnown'
<1>0. /\ Handled' = Handled /\ sent' = sent /\ Cursor' = Handled /\ sent \in Nat /\ Handled \in Int
      /\ users' = users /\ nft' = nft /\ Queue' = Queue /\ \A n \in Queue : Nth(n)' = Nth(n)
  BY EndBlockNumbers, NumberTypes, TodoSame DEF EndBlock, chain, tables
<1>1. ASSUME NEW a, NEW n \in Int, n <= sent
      PROVE  Known(a, n)' <=> Known(a, n)
  <2>1. Handled + 1 .. n \subseteq Queue
    BY <1>0, <1>1 DEF Queue
  <2>. QED  BY <1>0, <2>1 DEF Known
<1>2. ASSUME NEW n \in Queue', Nth(n)'.type = "FinishAuction"
      PROVE  Known(Nth(n).newOwner, n)'
  <2>1. n \in Queue /\ n \in Int /\ n <= sent /\ Nth(n)' = Nth(n)
    BY <1>0 DEF Queue
  <2>. QED  BY <1>1, <1>2, <2>1 DEF SignersKnown
<1>3. ASSUME NEW t \in DOMAIN nft, nft[t].bidder # NoOne
      PROVE  Known(nft[t].bidder, sent)'
  <2>1. \A a, n : a = nft[t].bidder /\ n = sent => Known(a, n)'
    BY <1>0, <1>1, <1>3 DEF SignersKnown
  <2>. QED  BY <1>0, <2>1
<1>4. Cursor' + 1 .. Handled' = {}
  BY <1>0
<1>. QED  BY <1>0, <1>2, <1>3, <1>4 DEF SignersKnown

LEMMA SignersCrash ==
    ASSUME TypeOK, SignersKnown, Crash
    PROVE  SignersKnown'
<1>0. /\ Handled' = Cursor /\ sent' = sent /\ Cursor' = Cursor /\ sent \in Nat /\ Handled \in Int /\ Cursor \in Int
      /\ Cursor <= Handled /\ Handled <= sent /\ users' = users /\ nft' = nft
      /\ Queue' = Kept /\ \A n \in Kept : Nth(n)' = Nth(n)
  BY CrashNumbers, NumberTypes, TodoCrash DEF Crash, chain, tables
<1>1. ASSUME NEW a, NEW n \in Int, n <= sent, Known(a, n)
      PROVE  Known(a, n)'
  <2>1. \A k \in Handled + 1 .. n : k \in Cursor + 1 .. n /\ k \in Kept
    BY <1>0, <1>1 DEF Kept
  <2>. QED  BY <1>0, <1>1, <2>1 DEF Known
<1>2. ASSUME NEW n \in Queue', Nth(n)'.type = "FinishAuction"
      PROVE  Known(Nth(n).newOwner, n)'
  <2>1. n \in Kept /\ n \in Int /\ n <= sent /\ Nth(n)' = Nth(n) /\ (n \in Queue \/ n \in Cursor + 1 .. Handled)
    BY <1>0 DEF Kept, Queue
  <2>2. Known(Nth(n).newOwner, n)
    BY <1>2, <2>1 DEF SignersKnown, Known
  <2>. QED  BY <1>1, <2>1, <2>2
<1>3. ASSUME NEW t \in DOMAIN nft, nft[t].bidder # NoOne
      PROVE  Known(nft[t].bidder, sent)'
  <2>1. \A a, n : a = nft[t].bidder /\ n = sent => Known(a, n)'
    BY <1>0, <1>1, <1>3 DEF SignersKnown
  <2>. QED  BY <1>0, <2>1
<1>4. Cursor' + 1 .. Handled' = {}
  BY <1>0
<1>. QED  BY <1>0, <1>2, <1>3, <1>4 DEF SignersKnown

-----------------------------------------------------------------------------
(* The rows of the tokens.                                                 *)

\* What was to be done still is.
Carried(op) == \A n \in Todo(op) : n \in Todo(op)' /\ Nth(n)' = Nth(n)

LEMMA TokenRowsCarried ==
    ASSUME TokenRows, nft' = nft, DOMAIN nfts' = DOMAIN nfts, \A t \in DOMAIN nfts : nfts'[t].live = nfts[t].live,
           \A n \in Todo("createNFT") : Nth(n).token \notin DOMAIN nfts => n \in Todo("createNFT")' /\ Nth(n)' = Nth(n),
           Carried("deleteNFT")
    PROVE  TokenRows'
<1>1. ASSUME NEW t \in DOMAIN nft \ DOMAIN nfts
      PROVE  \E n \in Todo("createNFT")' : Nth(n)'.token = t
  BY DEF TokenRows
<1>2. ASSUME NEW t \in DOMAIN nft, ~nft[t].exists /\ (t \in DOMAIN nfts => nfts[t].live)
      PROVE  \E n \in Todo("deleteNFT")' : Nth(n)'.token = t
  BY <1>2 DEF TokenRows, Carried
<1>. QED  BY <1>1, <1>2 DEF TokenRows

LEMMA ColumnRowsCarried ==
    ASSUME ColumnRows, nft' = nft, nfts' = nfts, offered' = offered, Carried("update"), Carried("updateToBuyer")
    PROVE  ColumnRows'
<1>1. \A m : NewColumns(m)' = NewColumns(m)
  BY SameHandleMsg DEF NewColumns
<1>2. \A n \in Writing : n \in Writing' /\ \A t, f : Sets(Nth(n), t, f)' <=> Sets(Nth(n), t, f)
  BY <1>1 DEF Writing, Carried, Sets
<1>. QED  BY <1>2 DEF ColumnRows, ChainRow

LEMMA OfferRowsCarried ==
    ASSUME OfferRows, offered' = offered, offers' = offers, Carried("createOffer"), Carried("deleteOffer")
    PROVE  OfferRows'
<1>1. ASSUME NEW o \in DOMAIN offered \ DOMAIN offers
      PROVE  \E n \in Todo("createOffer")' : Nth(n)'.offer = o
  BY DEF OfferRows, Carried
<1>2. ASSUME NEW o \in DOMAIN offers, offers[o].live /\ ~offered[o].open
      PROVE  \E n \in Todo("deleteOffer")' : Nth(n)'.offer = o
  BY <1>2 DEF OfferRows, Carried
<1>. QED  BY <1>1, <1>2 DEF OfferRows

\* The chain sends a message.
LEMMA CarriedSent ==
    ASSUME TypeOK, NEW m \in Message, Send(m), NEW op
    PROVE  /\ Carried(op)
           /\ \A n \in Todo(op) : Nth(n)' = Nth(n) /\ n \in Kept
           /\ \A n \in Todo(op)' : n \in Todo(op) \/ n = sent + 1
           /\ \A n : n = sent + 1 => Nth(n)' = m /\ (n \in Todo(op)' <=> Has(m, op))
<1>1. \A n \in Todo(op) : n \in Kept /\ n # sent + 1
  BY TodoType, NumberTypes DEF Kept
<1>. QED  BY <1>1, TodoSent, SendNumbers DEF Carried

LEMMA TokenRowsSent ==
    ASSUME TypeOK, TokenRows, NEW m \in Message, Send(m), DidTokens(m), ReMint = FALSE
    PROVE  TokenRows'
<1>0. nfts' = nfts
  BY DEF Send, tables
<1>1. ASSUME NEW t \in DOMAIN nft' \ DOMAIN nfts
      PROVE  \E n \in Todo("createNFT")' : Nth(n)'.token = t
  <2>1. CASE t \in DOMAIN nft
    BY <1>1, <2>1, CarriedSent DEF TokenRows, Carried
  <2>2. CASE t \notin DOMAIN nft
    BY <1>1, <2>2, CarriedSent, HasType DEF DidTokens
  <2>. QED  BY <2>1, <2>2
<1>2. ASSUME NEW t \in DOMAIN nfts, nft'[t].exists
      PROVE  nfts[t].live
  BY <1>2 DEF TokenRows, DidTokens
<1>3. ASSUME NEW t \in DOMAIN nft', ~nft'[t].exists, t \in DOMAIN nfts => nfts[t].live
      PROVE  \E n \in Todo("deleteNFT")' : Nth(n)'.token = t
  <2>1. CASE m.type = "BurnNFT" /\ m.token = t
    BY <2>1, CarriedSent, HasType
  <2>2. CASE ~(m.type = "BurnNFT" /\ m.token = t)
    <3>1. t \in DOMAIN nft /\ ~nft[t].exists
      BY <1>3, <2>2 DEF DidTokens
    <3>. QED  BY <1>3, <3>1, CarriedSent DEF TokenRows, Carried
  <2>. QED  BY <2>1, <2>2
<1>. QED  BY <1>0, <1>1, <1>2, <1>3 DEF TokenRows, DidTokens

\* A message that is not about an offer leaves the columns of another's.
LEMMA ColumnRowsSent ==
    ASSUME TypeOK, ColumnRows, TokenRows, OfferMessages, NEW m \in Message, Send(m), DidColumns(m), DidTokens(m),
           DidOffers(m)
    PROVE  ColumnRows'
<1>0. nfts' = nfts
  BY DEF Send, tables
<1>. SUFFICES ASSUME NEW t \in DOMAIN nfts, NEW f \in Fields, nfts[t].live,
                     \A n \in Writing' : ~Sets(Nth(n), t, f)'
              PROVE  nfts[t][f] = ChainRow(t)'[f]
  BY <1>0 DEF ColumnRows
<1>1. t \in DOMAIN nft /\ t \in Tokens
  BY DEF TokenRows, TypeOK, ChainOK
<1>2. ASSUME NEW n \in Writing  PROVE n \in Writing' /\ (Sets(Nth(n), t, f)' <=> Sets(Nth(n), t, f))
  <2>1. n \in Writing' /\ Nth(n)' = Nth(n) /\ n \in Kept /\ Nth(n) \in Message
    BY CarriedSent, NthType DEF Writing, Carried
  <2>2. NewColumns(Nth(n))' = NewColumns(Nth(n))
    <3>1. CASE Nth(n).type = "AcceptOffer"
      <4>1. OfOffer(Nth(n), Nth(n).offer) /\ Nth(n).offer \in OfferIds
        BY <2>1, <3>1 DEF Message, OfOffer
      <4>2. Nth(n).offer \in DOMAIN offered
        BY <2>1, <4>1 DEF OfferMessages
      <4>3. Nth(n).offer \in DOMAIN offered' /\ offered'[Nth(n).offer].buyer = offered[Nth(n).offer].buyer
        BY <4>2 DEF DidOffers
      <4>. QED  BY <2>1, <3>1, <4>3 DEF NewColumns
    <3>2. CASE Nth(n).type # "AcceptOffer"
      BY <2>1, <3>2, SameHandleMsg DEF NewColumns
    <3>. QED  BY <3>1, <3>2
  <2>. QED  BY <2>1, <2>2 DEF Sets
<1>3. nfts[t][f] = ChainRow(t)[f]
  BY <1>2 DEF ColumnRows
<1>4. ~Sets(m, t, f)'
  <2>. SUFFICES ASSUME Sets(m, t, f)'  PROVE FALSE
    OBVIOUS
  <2>1. CASE m.type = "MintNFT"
    BY <1>1, <2>1 DEF DidTokens, Sets, Of
  <2>2. CASE m.type # "MintNFT"
    <3>1. m.type \in Updating \/ Buyout(m) \/ m.type = "AcceptOffer"
      BY <2>2 DEF Sets, NewColumns
    <3>2. \A n : n = sent + 1 => n \in Writing' /\ Nth(n)' = m
      BY <3>1, CarriedSent, HasType DEF Writing
    <3>. QED  BY <3>2
  <2>. QED  BY <2>1, <2>2
<1>. QED  BY <1>1, <1>3, <1>4 DEF DidColumns

LEMMA OfferRowsSent ==
    ASSUME TypeOK, OfferRows, NEW m \in Message, Send(m), DidOffers(m)
    PROVE  OfferRows'
<1>0. offers' = offers
  BY DEF Send, tables
<1>1. ASSUME NEW o \in DOMAIN offers
      PROVE  /\ o \in DOMAIN offered' /\ offers[o].token = offered'[o].token /\ offers[o].buyer = offered'[o].buyer
             /\ offered'[o].open => offers[o].live
  BY DEF OfferRows, DidOffers
<1>2. ASSUME NEW o \in DOMAIN offered' \ DOMAIN offers
      PROVE  \E n \in Todo("createOffer")' : Nth(n)'.offer = o
  <2>1. CASE o \in DOMAIN offered
    BY <1>2, <2>1, CarriedSent DEF OfferRows, Carried
  <2>2. CASE o \notin DOMAIN offered
    BY <1>2, <2>2, CarriedSent, HasType DEF DidOffers
  <2>. QED  BY <2>1, <2>2
<1>3. ASSUME NEW o \in DOMAIN offers, offers[o].live, ~offered'[o].open
      PROVE  \E n \in Todo("deleteOffer")' : Nth(n)'.offer = o
  <2>1. o \in DOMAIN offered /\ o \in DOMAIN offered'
    BY DEF OfferRows, DidOffers
  <2>2. CASE Closes(m, o)
    <3>1. m.type \in {"AcceptOffer", "RemoveOffer"} /\ m.offer = o
      BY <2>2 DEF Message, Closes, OfOffer
    <3>. QED  BY <3>1, CarriedSent, HasType
  <2>3. CASE ~Closes(m, o)
    <3>1. ~offered[o].open
      BY <1>3, <2>1, <2>3 DEF DidOffers
    <3>. QED  BY <1>3, <3>1, CarriedSent DEF OfferRows, Carried
  <2>. QED  BY <2>2, <2>3
<1>. QED  BY <1>0, <1>1, <1>2, <1>3 DEF OfferRows

\* A statement runs.
LEMMA StatementRuns ==
    ASSUME TypeOK, Running, NextStatement
    PROVE  /\ \A n : Nth(n)' = Nth(n)
           /\ Queue' = Queue /\ Kept' = Kept /\ sent' = sent /\ Cursor' = Cursor /\ Handled' = Handled
           /\ nft' = nft /\ offered' = offered /\ supply' = supply /\ crashes' = crashes
           /\ \A op : op # Statement.op => Carried(op) /\ Todo(op)' = Todo(op)
           /\ \A op : \A n \in Todo(op) : n # Handled + 1 => n \in Todo(op)'
           /\ \A op : \A n \in Todo(op)' : n \in Todo(op)
<1>1. UNCHANGED <<pending, done, sent>> /\ nft' = nft /\ offered' = offered /\ supply' = supply /\ crashes' = crashes
  BY DEF NextStatement, chain
<1>2. \A op : op # Statement.op => Todo(op)' = Todo(op)
  BY TodoStatement
<1>3. \A op : \A n \in Todo(op) : n # Handled + 1 => n \in Todo(op)'
  BY TodoStatement
<1>4. \A op : \A n \in Todo(op)' : n \in Todo(op)
  BY TodoStatement
<1>. QED  BY <1>1, <1>2, <1>3, <1>4, SameNumbers DEF Carried

LEMMA SameColumnsLater ==
    ASSUME TypeOK, Running, NextStatement
    PROVE  \A n : Nth(n)' = Nth(n) /\ NewColumns(Nth(n))' = NewColumns(Nth(n))
<1>1. \A m : NewColumns(m)' = NewColumns(m)
  BY StatementRuns, SameHandleMsg DEF NewColumns
<1>. QED  BY <1>1, StatementRuns

LEMMA CreateNFTTokens ==
    ASSUME TypeOK, TokenRows, TokenMessages, CreateNFT
    PROVE  TokenRows'
<1>0. Running /\ NextStatement /\ Statement.op = "createNFT" /\ Token \notin DOMAIN nfts
      /\ nfts' = Put(nfts, Token, [live |-> TRUE, owner |-> Msg.to, uri |-> Msg.uri, status |-> "default", auction |-> FALSE])
  BY DEF CreateNFT, At, Exists
<1>1. Msg.type = "MintNFT" /\ pending # <<>> /\ Msg \in Message
  BY <1>0, AtHas DEF PlaceOf
<1>2. Token \in Tokens /\ Of(Msg, Token)
  BY <1>1 DEF Message, Of, Token
<1>3. Token \in DOMAIN nft
  BY <1>1, <1>2, FirstMsg DEF TokenMessages
<1>4. /\ DOMAIN nfts' = DOMAIN nfts \cup {Token} /\ nfts'[Token].live
      /\ \A t \in DOMAIN nfts : nfts'[t] = nfts[t]
  BY <1>0 DEF Put
<1>5. ASSUME NEW t \in DOMAIN nft \ DOMAIN nfts'
      PROVE  \E n \in Todo("createNFT")' : Nth(n)'.token = t
  <2>1. PICK n \in Todo("createNFT") : Nth(n).token = t
    BY <1>4 DEF TokenRows
  <2>2. n # Handled + 1
    BY <1>1, <1>4, <2>1, FirstMsg DEF Token
  <2>. QED  BY <1>0, <2>1, <2>2, StatementRuns
<1>6. ASSUME NEW t \in DOMAIN nft, ~nft[t].exists, t \in DOMAIN nfts' => nfts'[t].live
      PROVE  \E n \in Todo("deleteNFT")' : Nth(n)'.token = t
  <2>1. PICK n \in Todo("deleteNFT") : Nth(n).token = t
    BY <1>4, <1>6 DEF TokenRows
  <2>. QED  BY <1>0, <2>1, StatementRuns
<1>. QED  BY <1>0, <1>3, <1>4, <1>5, <1>6, StatementRuns DEF TokenRows

LEMMA DeleteNFTTokens ==
    ASSUME TypeOK, TokenRows, TokenMessages, DeleteNFT
    PROVE  TokenRows'
<1>0. Running /\ NextStatement /\ Statement.op = "deleteNFT"
  BY DEF DeleteNFT, At
<1>1. Msg.type = "BurnNFT" /\ pending # <<>> /\ Msg \in Message
  BY <1>0, AtHas DEF PlaceOf
<1>2. Token \in Tokens /\ Of(Msg, Token)
  BY <1>1 DEF Message, Of, Token
<1>3. Token \in DOMAIN nft /\ Token \in DOMAIN nfts /\ ~nft[Token].exists
  BY <1>1, <1>2, TokenPresent, FirstMsg DEF TokenMessages, Token
<1>4. /\ DOMAIN nfts' = DOMAIN nfts /\ ~nfts'[Token].live
      /\ \A t \in DOMAIN nfts : t # Token => nfts'[t] = nfts[t]
  <2>1. nfts' = [nfts EXCEPT ![Token].live = FALSE]
    BY <1>3 DEF DeleteNFT, Exists
  <2>2. nfts[Token] \in [live : BOOLEAN, owner : users, uri : Uris, status : Status, auction : BOOLEAN]
    BY <1>3 DEF TypeOK, TablesOK
  <2>. QED  BY <1>3, <2>1, <2>2
<1>5. ASSUME NEW t \in DOMAIN nft \ DOMAIN nfts'
      PROVE  \E n \in Todo("createNFT")' : Nth(n)'.token = t
  BY <1>0, <1>4, StatementRuns DEF TokenRows, Carried
<1>6. ASSUME NEW t \in DOMAIN nft, ~nft[t].exists, t \in DOMAIN nfts => nfts'[t].live
      PROVE  \E n \in Todo("deleteNFT")' : Nth(n)'.token = t
  <2>1. t # Token
    BY <1>3, <1>4, <1>6
  <2>2. PICK n \in Todo("deleteNFT") : Nth(n).token = t
    BY <1>4, <1>6, <2>1 DEF TokenRows
  <2>3. n # Handled + 1
    BY <1>1, <2>1, <2>2, FirstMsg DEF Token
  <2>. QED  BY <1>0, <2>2, <2>3, StatementRuns
<1>. QED  BY <1>0, <1>3, <1>4, <1>5, <1>6, StatementRuns DEF TokenRows

\* No message behind the first sets a column that no update still to be run does.
LEMMA NoLaterSetter ==
    ASSUME TypeOK, TokenMessages, pending # <<>>, NEW t \in Tokens, NEW f \in Fields, Of(Msg, t),
           \A n \in Writing : n # Handled + 1 => ~Sets(Nth(n), t, f)
    PROVE  \A k \in (Handled + 1) + 1 .. sent : ~Sets(Nth(k), t, f)
<1>. SUFFICES ASSUME NEW k \in (Handled + 1) + 1 .. sent, Sets(Nth(k), t, f)  PROVE FALSE
  OBVIOUS
<1>1. k \in Queue /\ k > Handled + 1 /\ k \in Kept /\ Nth(k) \in Message
  BY NumberTypes, NthType DEF Queue
<1>2. CASE Nth(k).type = "MintNFT"
  <2>1. k <= Handled + 1
    BY <1>1, <1>2, FirstMsg DEF TokenMessages, Sets, Of
  <2>. QED  BY <1>1, <2>1, NumberTypes
<1>3. CASE Nth(k).type # "MintNFT"
  <2>1. Nth(k).type \in Updating \/ Buyout(Nth(k)) \/ Nth(k).type = "AcceptOffer"
    BY <1>3 DEF Sets, NewColumns
  <2>2. k \in Writing
    BY <1>1, <2>1, HasType, BehindFirst DEF Writing
  <2>. QED  BY <1>1, <2>2, NumberTypes
<1>. QED  BY <1>2, <1>3

LEMMA CreateNFTColumns ==
    ASSUME TypeOK, ColumnRows, LastSetter, TokenMessages, CreateNFT
    PROVE  ColumnRows'
<1>0. Running /\ NextStatement /\ Statement.op = "createNFT" /\ Token \notin DOMAIN nfts
      /\ nfts' = Put(nfts, Token, [live |-> TRUE, owner |-> Msg.to, uri |-> Msg.uri, status |-> "default", auction |-> FALSE])
  BY DEF CreateNFT, At, Exists
<1>1. Msg.type = "MintNFT" /\ pending # <<>> /\ Msg \in Message
  BY <1>0, AtHas DEF PlaceOf
<1>2. Token \in Tokens /\ Of(Msg, Token)
  BY <1>1 DEF Message, Of, Token
<1>3. /\ DOMAIN nfts' = DOMAIN nfts \cup {Token}
      /\ \A t \in DOMAIN nfts : nfts'[t] = nfts[t]
      /\ \A f \in Fields : f \in DOMAIN NewColumns(Msg) /\ nfts'[Token][f] = NewColumns(Msg)[f]
  <2>1. NewColumns(Msg) = [owner |-> Msg.to, uri |-> Msg.uri, status |-> "default", auction |-> FALSE]
    BY <1>1, ColumnsOf
  <2>2. nfts'[Token] = [live |-> TRUE, owner |-> Msg.to, uri |-> Msg.uri, status |-> "default", auction |-> FALSE]
        /\ DOMAIN nfts' = DOMAIN nfts \cup {Token} /\ \A t \in DOMAIN nfts : nfts'[t] = nfts[t]
    BY <1>0 DEF Put
  <2>. QED  BY <2>1, <2>2 DEF Fields
<1>4. Writing' = Writing /\ \A n : Nth(n)' = Nth(n) /\ NewColumns(Nth(n))' = NewColumns(Nth(n))
  BY <1>0, StatementRuns, SameColumnsLater DEF Writing
<1>. SUFFICES ASSUME NEW t \in DOMAIN nfts', NEW f \in Fields, nfts'[t].live, \A n \in Writing : ~Sets(Nth(n), t, f)
              PROVE  nfts'[t][f] = ChainRow(t)[f]
  <2>1. \A n, t, f : Sets(Nth(n), t, f)' <=> Sets(Nth(n), t, f)
    BY <1>4 DEF Sets
  <2>2. \A t : ChainRow(t)' = ChainRow(t)
    BY <1>0, StatementRuns DEF ChainRow
  <2>. QED  BY <1>4, <2>1, <2>2 DEF ColumnRows
<1>5. CASE t = Token
  <2>1. \A k \in (Handled + 1) + 1 .. sent : ~Sets(Nth(k), t, f)
    BY <1>1, <1>2, <1>5, NoLaterSetter
  <2>2. Sets(Msg, t, f) /\ Handled + 1 \in Kept /\ Nth(Handled + 1) = Msg
    BY <1>1, <1>2, <1>3, <1>5, FirstMsg DEF Sets
  <2>3. NewColumns(Msg)[f] = ChainRow(t)[f]
    BY <1>2, <1>5, <2>1, <2>2 DEF LastSetter
  <2>. QED  BY <1>3, <1>5, <2>3
<1>6. CASE t # Token
  BY <1>3, <1>6 DEF ColumnRows
<1>. QED  BY <1>5, <1>6

LEMMA UpdateColumnRows ==
    ASSUME TypeOK, ColumnRows, LastSetter, TokenMessages, OfferMessages, OfferRows, UpdateNFT
    PROVE  ColumnRows'
<1>0. Running /\ NextStatement /\ Statement.op \in {"update", "updateToBuyer"}
      /\ nfts' = IF Live(Token) THEN [nfts EXCEPT ![Token] = Overwrite(nfts[Token], Columns)] ELSE nfts
  BY DEF UpdateNFT, At
<1>1. /\ pending # <<>> /\ Msg \in Message /\ Columns = NewColumns(Msg)
      /\ (Msg.type \in Updating \/ Buyout(Msg) \/ Msg.type = "AcceptOffer")
  BY <1>0, AtHas, UpdateColumns DEF PlaceOf
<1>2. Token \in Tokens /\ Of(Msg, Token)
  BY <1>1 DEF Message, Of, Token, Updating, Buyout
<1>3. \A n : Nth(n)' = Nth(n) /\ NewColumns(Nth(n))' = NewColumns(Nth(n))
  BY <1>0, SameColumnsLater
<1>4. \A n \in Writing : n # Handled + 1 => n \in Writing'
  BY <1>0, StatementRuns DEF Writing
<1>. SUFFICES ASSUME NEW t \in DOMAIN nfts, NEW f \in Fields, nfts'[t].live, \A n \in Writing' : ~Sets(Nth(n), t, f)
              PROVE  nfts'[t][f] = ChainRow(t)[f]
  <2>1. DOMAIN nfts' = DOMAIN nfts
    BY <1>0
  <2>. QED  BY <1>0, <1>3, <2>1, StatementRuns DEF ColumnRows, ChainRow, Sets
<1>a. \A n \in Writing : n # Handled + 1 => ~Sets(Nth(n), t, f)
  BY <1>4
<1>b. nfts[t] \in [live : BOOLEAN, owner : users, uri : Uris, status : Status, auction : BOOLEAN]
  BY DEF TypeOK, TablesOK
<1>5. CASE Sets(Msg, t, f) /\ Live(Token)
  <2>1. t = Token /\ f \in DOMAIN Columns
    BY <1>1, <1>5 DEF Sets, Of, Token
  <2>2. \A k \in (Handled + 1) + 1 .. sent : ~Sets(Nth(k), t, f)
    BY <1>1, <1>2, <1>a, <2>1, NoLaterSetter
  <2>3. NewColumns(Msg)[f] = ChainRow(t)[f]
    BY <1>1, <1>2, <1>5, <2>1, <2>2, FirstMsg DEF LastSetter
  <2>4. nfts'[t] = Overwrite(nfts[t], Columns) /\ f \in DOMAIN nfts[t]
    BY <1>0, <1>5, <1>b, <2>1 DEF Fields
  <2>. QED  BY <1>1, <2>1, <2>3, <2>4 DEF Overwrite
<1>6. CASE ~(Sets(Msg, t, f) /\ Live(Token))
  <2>1. nfts'[t][f] = nfts[t][f] /\ nfts[t].live
    <3>1. CASE t # Token \/ ~Live(Token)
      BY <1>0, <3>1
    <3>2. CASE t = Token /\ Live(Token)
      <4>1. f \notin DOMAIN Columns
        BY <1>1, <1>2, <1>6, <3>2 DEF Sets
      <4>2. nfts'[t] = Overwrite(nfts[t], Columns) /\ f \in DOMAIN nfts[t]
        BY <1>0, <1>b, <3>2 DEF Fields
      <4>. QED  BY <3>2, <4>1, <4>2 DEF Overwrite, Live
    <3>. QED  BY <3>1, <3>2
  <2>2. ASSUME NEW n \in Writing  PROVE ~Sets(Nth(n), t, f)
    <3>1. CASE n = Handled + 1
      <4>1. Nth(n) = Msg
        BY <1>1, <3>1, FirstMsg
      <4>2. CASE t = Token
        <5>1. Live(Token)
          BY <2>1, <4>2 DEF Live, Exists
        <5>. QED  BY <1>6, <4>1, <5>1
      <4>3. CASE t # Token
        BY <4>1, <4>3 DEF Sets, Of, Token
      <4>. QED  BY <4>2, <4>3
    <3>. QED  BY <1>a, <3>1
  <2>. QED  BY <2>1, <2>2 DEF ColumnRows
<1>. QED  BY <1>5, <1>6

LEMMA DeleteNFTColumns ==
    ASSUME TypeOK, ColumnRows, DeleteNFT
    PROVE  ColumnRows'
<1>0. Running /\ NextStatement /\ Statement.op = "deleteNFT"
  BY DEF DeleteNFT, At
<1>1. Writing' = Writing /\ \A n : Nth(n)' = Nth(n) /\ NewColumns(Nth(n))' = NewColumns(Nth(n))
  BY <1>0, StatementRuns, SameColumnsLater DEF Writing
<1>2. /\ DOMAIN nfts' = DOMAIN nfts
      /\ \A t \in DOMAIN nfts, f \in Fields : nfts'[t].live => nfts[t].live /\ nfts'[t][f] = nfts[t][f]
  <2>1. nfts' = IF Token \in DOMAIN nfts THEN [nfts EXCEPT ![Token].live = FALSE] ELSE nfts
    BY DEF DeleteNFT, Exists
  <2>2. \A t \in DOMAIN nfts : nfts[t] \in [live : BOOLEAN, owner : users, uri : Uris, status : Status, auction : BOOLEAN]
    BY DEF TypeOK, TablesOK
  <2>. QED  BY <2>1, <2>2
<1>. QED  BY <1>0, <1>1, <1>2, StatementRuns DEF ColumnRows, ChainRow, Sets

-----------------------------------------------------------------------------
(* The offers.                                                             *)

LEMMA CreateOfferRows ==
    ASSUME TypeOK, OfferRows, OfferMessages, CreateOffer
    PROVE  OfferRows'
<1>0. Running /\ NextStatement /\ Statement.op = "createOffer"
      /\ offers' = Put(offers, Msg.offer, [token |-> Token, buyer |-> Msg.by, live |-> TRUE])
  BY DEF CreateOffer, At
<1>1. Msg.type = "MakeOffer" /\ pending # <<>> /\ Msg \in Message
  BY <1>0, AtHas DEF PlaceOf
<1>2. Msg.offer \in OfferIds /\ OfOffer(Msg, Msg.offer)
  BY <1>1 DEF Message, OfOffer
<1>3. Msg.offer \in DOMAIN offered /\ offered[Msg.offer].token = Token /\ offered[Msg.offer].buyer = Msg.by
  BY <1>1, <1>2, FirstMsg DEF OfferMessages, Token
<1>4. /\ DOMAIN offers' = DOMAIN offers \cup {Msg.offer}
      /\ offers'[Msg.offer] = [token |-> Token, buyer |-> Msg.by, live |-> TRUE]
      /\ \A o \in DOMAIN offers : o # Msg.offer => offers'[o] = offers[o]
  BY <1>0 DEF Put
<1>5. ASSUME NEW o \in DOMAIN offers'
      PROVE  /\ o \in DOMAIN offered /\ offers'[o].token = offered[o].token /\ offers'[o].buyer = offered[o].buyer
             /\ offered[o].open => offers'[o].live
  <2>1. CASE o = Msg.offer
    BY <1>3, <1>4, <2>1
  <2>2. CASE o # Msg.offer
    BY <1>4, <2>2 DEF OfferRows
  <2>. QED  BY <2>1, <2>2
<1>6. ASSUME NEW o \in DOMAIN offered \ DOMAIN offers'
      PROVE  \E n \in Todo("createOffer")' : Nth(n)'.offer = o
  <2>1. PICK n \in Todo("createOffer") : Nth(n).offer = o
    BY <1>4 DEF OfferRows
  <2>2. n # Handled + 1
    BY <1>1, <1>4, <2>1, FirstMsg
  <2>. QED  BY <1>0, <2>1, <2>2, StatementRuns
<1>7. ASSUME NEW o \in DOMAIN offers', offers'[o].live, ~offered[o].open
      PROVE  \E n \in Todo("deleteOffer")' : Nth(n)'.offer = o
  <2>1. CASE o = Msg.offer
    <3>1. PICK k \in (Handled + 1) + 1 .. sent : Closes(Nth(k), o)
      BY <1>1, <1>7, <2>1, FirstMsg DEF OfferMessages
    <3>2. k \in Queue /\ k > Handled + 1 /\ Nth(k) \in Message
      BY NumberTypes, NthType DEF Queue
    <3>3. Nth(k).type \in {"AcceptOffer", "RemoveOffer"} /\ Nth(k).offer = o
      BY <3>1, <3>2 DEF Message, Closes, OfOffer
    <3>4. k \in Todo("deleteOffer")
      BY <3>2, <3>3, HasType, BehindFirst
    <3>. QED  BY <1>0, <3>3, <3>4, StatementRuns
  <2>2. CASE o # Msg.offer
    <3>1. PICK n \in Todo("deleteOffer") : Nth(n).offer = o
      BY <1>4, <1>7, <2>2 DEF OfferRows
    <3>. QED  BY <1>0, <3>1, StatementRuns
  <2>. QED  BY <2>1, <2>2
<1>. QED  BY <1>0, <1>5, <1>6, <1>7, StatementRuns DEF OfferRows

LEMMA DeleteOfferRows ==
    ASSUME TypeOK, OfferRows, OfferMessages, DeleteOffer
    PROVE  OfferRows'
<1>0. Running /\ NextStatement /\ Statement.op = "deleteOffer"
  BY DEF DeleteOffer, At
<1>1. Msg.type # "MakeOffer" /\ Msg.type \in {"AcceptOffer", "RemoveOffer"} /\ pending # <<>> /\ Msg \in Message
  BY <1>0, AtHas DEF PlaceOf
<1>2. Msg.offer \in OfferIds /\ OfOffer(Msg, Msg.offer)
  BY <1>1 DEF Message, OfOffer
<1>3. ~offered[Msg.offer].open
  BY <1>1, <1>2, FirstMsg DEF OfferMessages
<1>4. /\ DOMAIN offers' = DOMAIN offers
      /\ \A o \in DOMAIN offers : /\ offers'[o].token = offers[o].token /\ offers'[o].buyer = offers[o].buyer
                                  /\ o # Msg.offer => offers'[o] = offers[o]
                                  /\ o = Msg.offer => ~offers'[o].live
  <2>1. offers' = [o \in DOMAIN offers |-> IF o = Msg.offer THEN [offers[o] EXCEPT !.live = FALSE] ELSE offers[o]]
    BY DEF DeleteOffer
  <2>2. \A o \in DOMAIN offers : offers[o] \in [token : Tokens, buyer : users, live : BOOLEAN]
    BY DEF TypeOK, TablesOK
  <2>. QED  BY <2>1, <2>2
<1>5. ASSUME NEW o \in DOMAIN offers
      PROVE  /\ o \in DOMAIN offered /\ offers'[o].token = offered[o].token /\ offers'[o].buyer = offered[o].buyer
             /\ offered[o].open => offers'[o].live
  BY <1>3, <1>4 DEF OfferRows
<1>6. ASSUME NEW o \in DOMAIN offered \ DOMAIN offers
      PROVE  \E n \in Todo("createOffer")' : Nth(n)'.offer = o
  BY <1>0, StatementRuns DEF OfferRows, Carried
<1>7. ASSUME NEW o \in DOMAIN offers, offers'[o].live, ~offered[o].open
      PROVE  \E n \in Todo("deleteOffer")' : Nth(n)'.offer = o
  <2>1. o # Msg.offer /\ offers[o].live
    BY <1>4, <1>7
  <2>2. PICK n \in Todo("deleteOffer") : Nth(n).offer = o
    BY <1>7, <2>1 DEF OfferRows
  <2>3. n # Handled + 1
    BY <1>1, <2>1, <2>2, FirstMsg
  <2>. QED  BY <1>0, <2>2, <2>3, StatementRuns
<1>. QED  BY <1>0, <1>4, <1>5, <1>6, <1>7, StatementRuns DEF OfferRows

-----------------------------------------------------------------------------
(* The messages a crash repeats.                                           *)

LEMMA HandledOnceSame ==
    ASSUME HandledOnce, UNCHANGED <<pending, done, sent>>
    PROVE  HandledOnce'
BY SameNumbers DEF HandledOnce

LEMMA HandledOnceSent ==
    ASSUME TypeOK, HandledOnce, NEW m \in Message, Send(m)
    PROVE  HandledOnce'
<1>1. Cursor' = Cursor /\ Handled' = Handled /\ \A n \in Kept : Nth(n)' = Nth(n)
  BY SendNumbers
<1>2. \A n \in Cursor + 2 .. Handled : n \in Kept
  BY NumberTypes DEF Kept
<1>. QED  BY <1>1, <1>2 DEF HandledOnce

LEMMA HandledOnceEnd ==
    ASSUME TypeOK, HandledOnce, pending # <<>>, NEW ok \in BOOLEAN, EndMsg(ok),
           ~ok => Msg.type # "MakeBidOnAuction"
    PROVE  HandledOnce'
<1>0. /\ Cursor' = (IF ok THEN Handled ELSE Cursor) /\ Handled' = Handled + 1 /\ sent' = sent
      /\ Handled \in Int /\ Cursor \in Int /\ Cursor <= Handled /\ sent \in Int
      /\ \A n \in Kept' : Nth(n)' = Nth(n)
  BY EndMsgNumbers, NumberTypes
<1>1. CASE ok
  <2>1. Cursor' + 2 .. Handled' = {}
    BY <1>0, <1>1
  <2>. QED  BY <2>1 DEF HandledOnce
<1>2. CASE ~ok
  <2>1. Kept' = Cursor + 1 .. sent /\ Handled + 1 <= sent /\ Nth(Handled + 1) = Msg
    BY <1>0, <1>2, FirstMsg, NumberTypes DEF Kept
  <2>2. ASSUME NEW n \in Cursor + 2 .. Handled + 1
        PROVE  Nth(n)' = Nth(n) /\ (n \in Cursor + 2 .. Handled \/ n = Handled + 1)
    <3>1. n \in Cursor + 1 .. sent
      BY <1>0, <2>1
    <3>. QED  BY <1>0, <2>1, <3>1
  <2>. QED  BY <1>0, <1>2, <2>1, <2>2 DEF HandledOnce
<1>. QED  BY <1>1, <1>2

LEMMA HandledOnceRest ==
    ASSUME TypeOK, EndBlock \/ Crash
    PROVE  HandledOnce'
<1>1. Cursor' = Handled' /\ Cursor' \in Int
  BY EndBlockNumbers, CrashNumbers, NumberTypes
<1>a. \A c \in Int : c + 2 .. c = {}
  OBVIOUS
<1>2. Cursor' + 2 .. Handled' = {}
  BY <1>1, <1>a
<1>. QED  BY <1>2 DEF HandledOnce

\* Of the bids, a crash makes two be done once more.
LEMMA RepeatedOnce ==
    ASSUME TypeOK, HandledOnce, NEW n \in Kept, Has(Nth(n), "createBid")
    PROVE  n \in Todo("createBid") \cup {Cursor + 1, Handled + 1}
<1>0. /\ Nth(n) \in Message /\ n \in Int /\ n >= Cursor + 1 /\ n <= sent
      /\ Cursor \in Int /\ Handled \in Int /\ sent \in Int
  BY NthType, NumberTypes DEF Kept
<1>1. Nth(n).type = "MakeBidOnAuction"
  BY <1>0, HasType
<1>2. CASE n <= Handled
  <2>1. n \notin Cursor + 2 .. Handled
    BY <1>1 DEF HandledOnce
  <2>. QED  BY <1>0, <1>2, <2>1
<1>3. CASE n > Handled + 1
  <2>1. n \in Queue
    BY <1>0, <1>3 DEF Queue
  <2>. QED  BY <1>3, <2>1, BehindFirst
<1>. QED  BY <1>0, <1>2, <1>3

LEMMA OneMore ==
    ASSUME NEW S, IsFiniteSet(S), NEW x
    PROVE  IsFiniteSet(S \cup {x}) /\ Cardinality(S \cup {x}) <= Cardinality(S) + 1
           /\ Cardinality(S) \in Nat /\ Cardinality(S \cup {x}) \in Nat
<1>1. Cardinality(S) \in Nat
  BY FS_CardinalityType
<1>2. IsFiniteSet(S \cup {x})
      /\ Cardinality(S \cup {x}) = IF x \in S THEN Cardinality(S) ELSE Cardinality(S) + 1
  BY FS_AddElement
<1>. QED  BY <1>1, <1>2

LEMMA TwoMore ==
    ASSUME NEW S, NEW T, IsFiniteSet(S), NEW x, NEW y, S \subseteq T, T \subseteq S \cup {x, y}
    PROVE  Cardinality(T) >= Cardinality(S) /\ Cardinality(T) <= Cardinality(S) + 2
           /\ Cardinality(S) \in Nat /\ Cardinality(T) \in Nat
<1>1. IsFiniteSet(S \cup {x}) /\ Cardinality(S \cup {x}) <= Cardinality(S) + 1 /\ Cardinality(S) \in Nat
      /\ Cardinality(S \cup {x}) \in Nat
  BY OneMore
<1>2. IsFiniteSet((S \cup {x}) \cup {y}) /\ Cardinality((S \cup {x}) \cup {y}) <= Cardinality(S \cup {x}) + 1
      /\ Cardinality((S \cup {x}) \cup {y}) \in Nat
  BY <1>1, OneMore
<1>3. T \in SUBSET ((S \cup {x}) \cup {y}) /\ S \in SUBSET T
  OBVIOUS
<1>4. IsFiniteSet(T) /\ Cardinality(T) <= Cardinality((S \cup {x}) \cup {y}) /\ Cardinality(T) \in Nat
  BY <1>2, <1>3, FS_Subset, FS_CardinalityType
<1>5. Cardinality(S) <= Cardinality(T)
  BY <1>3, <1>4, FS_Subset
<1>. QED  BY <1>1, <1>2, <1>4, <1>5

-----------------------------------------------------------------------------
(* The bids.                                                               *)

LEMMA FiniteFresh ==
    ASSUME TypeOK, NEW t
    PROVE  IsFiniteSet(Fresh(t)) /\ Cardinality(Fresh(t)) \in Nat
BY FiniteRecent, FS_Subset, FS_CardinalityType DEF Fresh

LEMMA BidRowsSame ==
    ASSUME TypeOK, BidRows, UNCHANGED <<nft, bids, crashes, sent>>, Handled' \in Int,
           \A n \in Queue' : n \in Kept' /\ n \in Queue /\ Nth(n)' = Nth(n),
           Todo("createBid")' = Todo("createBid"), Todo("deleteBids")' = Todo("deleteBids")
    PROVE  BidRows'
<1>1. ASSUME NEW n \in Queue'
      PROVE  n \in Kept /\ \A j \in n + 1 .. sent : Nth(j)' = Nth(j)
  <2>1. Queue' = Handled' + 1 .. sent
    BY DEF Queue
  <2>2. \A h \in Int : \A k \in h + 1 .. sent : \A j \in k + 1 .. sent : j \in h + 1 .. sent
    BY NumberTypes
  <2>3. \A j \in n + 1 .. sent : j \in Queue'
    BY <2>1, <2>2
  <2>. QED  BY <2>3, NumberTypes
<1>2. ASSUME NEW t, NEW n \in Queue'
      PROVE  n \in Recent(t)' <=> n \in Recent(t)
  BY <1>1 DEF Recent
<1>3. Todo("createBid")' \subseteq Queue' /\ Todo("deleteBids")' \subseteq Queue'
  BY DEF Todo
<1>4. \A t : Fresh(t)' = Fresh(t) /\ (Reset(t)' <=> Reset(t))
  BY <1>2, <1>3 DEF Fresh, Reset
<1>. QED  BY <1>4 DEF BidRows, StandingBids, Bids, Auctioned, OnChain

LEMMA BidRowsSent ==
    ASSUME TypeOK, BidRows, NEW m \in Message, Send(m), DidBids(m)
    PROVE  BidRows'
<1>0. bids' = bids /\ crashes' = crashes /\ crashes \in Nat /\ sent + 1 \notin Kept
  BY NumberTypes, ConstantsAssumption DEF Send, tables, TypeOK, Kept
<1>. SUFFICES ASSUME NEW t \in Tokens
              PROVE  /\ StandingBids(t)' + Cardinality(Fresh(t)') >= Bids(t)'
                     /\ StandingBids(t)' + Cardinality(Fresh(t)') <= Bids(t)' + 2 * crashes
                     /\ ~Auctioned(t)' => StandingBids(t)' = 0
  BY <1>0 DEF BidRows
<1>1. /\ Cardinality(Fresh(t)) \in Nat /\ IsFiniteSet(Fresh(t)) /\ bids[t] \in Nat /\ Bids(t) \in Nat
      /\ StandingBids(t) \in Nat /\ ~(BidOn(m, t) /\ Ends(m, t))
  BY FiniteFresh DEF StandingBids, TypeOK, TablesOK, ChainOK, Bids, BidOn, Ends, EndsAuction, Buyout
<1>2. CASE Ends(m, t)
  <2>1. Recent(t)' = {}
    BY <1>1, <1>2, RecentSent
  <2>2. Fresh(t)' = {}
    BY <2>1 DEF Fresh
  <2>3. Reset(t)'
    <3>1. Has(m, "deleteBids") /\ m.token = t
      BY <1>2, HasType DEF Ends
    <3>2. \A n : n = sent + 1 => n \in Todo("deleteBids")' /\ Nth(n)' = m
      BY <3>1, CarriedSent
    <3>. QED  BY <3>1, <3>2 DEF Reset
  <2>. QED  BY <1>0, <1>2, <2>2, <2>3, FS_EmptySet DEF DidBids, StandingBids
<1>3. CASE ~Ends(m, t)
  <2>1. Reset(t)' <=> Reset(t)
    <3>1. ~(Has(m, "deleteBids") /\ m.token = t)
      BY <1>3, HasType DEF Ends
    <3>2. \A n \in Todo("deleteBids")' : Nth(n)'.token = t => n \in Todo("deleteBids") /\ Nth(n).token = t
      BY <3>1, CarriedSent
    <3>3. \A n \in Todo("deleteBids") : n \in Todo("deleteBids")' /\ Nth(n)' = Nth(n)
      BY CarriedSent DEF Carried
    <3>. QED  BY <3>2, <3>3 DEF Reset
  <2>2. StandingBids(t)' = StandingBids(t)
    BY <1>0, <2>1 DEF StandingBids
  <2>3. CASE BidOn(m, t)
    <3>1. Fresh(t)' = Fresh(t) \cup {sent + 1}
      <4>1. Recent(t)' = Recent(t) \cup {sent + 1}
        BY <1>3, <2>3, RecentSent
      <4>2. Has(m, "createBid")
        BY <2>3, HasType DEF BidOn, Buyout
      <4>3. Todo("createBid")' = Todo("createBid") \cup {sent + 1}
        BY <4>2, TodoSent
      <4>. QED  BY <4>1, <4>3 DEF Fresh
    <3>2. sent + 1 \notin Fresh(t)
      BY <1>0 DEF Fresh, Recent
    <3>3. Cardinality(Fresh(t)') = Cardinality(Fresh(t)) + 1
      BY <1>1, <3>1, <3>2, FS_AddElement
    <3>. QED  BY <1>0, <1>1, <2>2, <2>3, <3>3 DEF DidBids, BidRows
  <2>4. CASE ~BidOn(m, t)
    <3>1. Fresh(t)' = Fresh(t)
      <4>1. Recent(t)' = Recent(t)
        BY <1>3, <2>4, RecentSent
      <4>2. \A n \in Recent(t) : n \in Todo("createBid")' <=> n \in Todo("createBid")
        BY <1>0, TodoSent DEF Recent
      <4>. QED  BY <4>1, <4>2 DEF Fresh
    <3>. QED  BY <1>0, <1>1, <1>3, <2>2, <2>4, <3>1 DEF DidBids, BidRows
  <2>. QED  BY <2>3, <2>4
<1>. QED  BY <1>2, <1>3

LEMMA CreateBidRows ==
    ASSUME TypeOK, BidRows, BidMessages, CreateBid
    PROVE  BidRows'
<1>0. Running /\ NextStatement /\ Statement.op = "createBid" /\ bids' = [bids EXCEPT ![Token] = bids[Token] + 1]
  BY DEF CreateBid, At
<1>1. Msg.type = "MakeBidOnAuction" /\ ~Buyout(Msg) /\ pending # <<>> /\ Msg \in Message
  BY <1>0, AtHas, HasType
<1>2. Token \in Tokens /\ BidOn(Msg, Token) /\ ~EndsAuction(Msg)
  BY <1>1 DEF Message, BidOn, Buyout, EndsAuction, Token
<1>3. /\ Todo("createBid")' = Todo("createBid") \ {Handled + 1} /\ Todo("deleteBids")' = Todo("deleteBids")
      /\ Handled + 1 \in Todo("createBid")
  BY <1>0, TodoStatement
<1>4. /\ \A t : Recent(t)' = Recent(t) /\ (Reset(t)' <=> Reset(t)) /\ Bids(t)' = Bids(t) /\ Auctioned(t)' = Auctioned(t)
      /\ \A t : Fresh(t)' = Fresh(t) \ {Handled + 1}
      /\ crashes' = crashes /\ crashes \in Nat
  <2>1. \A t : Recent(t)' = Recent(t)
    BY <1>0, StatementRuns DEF Recent
  <2>. QED  BY <1>0, <1>3, <2>1, StatementRuns, ConstantsAssumption
            DEF Fresh, Reset, Bids, Auctioned, OnChain, TypeOK
<1>. SUFFICES ASSUME NEW t \in Tokens
              PROVE  /\ StandingBids(t)' + Cardinality(Fresh(t)') >= Bids(t)
                     /\ StandingBids(t)' + Cardinality(Fresh(t)') <= Bids(t) + 2 * crashes
                     /\ ~Auctioned(t) => StandingBids(t)' = 0
  BY <1>4 DEF BidRows
<1>5. Cardinality(Fresh(t)) \in Nat /\ IsFiniteSet(Fresh(t)) /\ bids[t] \in Nat /\ Bids(t) \in Nat
      /\ bids \in [Tokens -> Nat]
  BY FiniteFresh DEF TypeOK, TablesOK, ChainOK, Bids
<1>6. CASE t # Token \/ Reset(t)
  <2>1. Handled + 1 \notin Recent(t)
    <3>1. CASE t # Token
      BY <1>1, <3>1, FirstMsg DEF Recent, BidOn, Token
    <3>2. CASE Reset(t)
      <4>1. PICK n \in Todo("deleteBids") : Nth(n).token = t
        BY <3>2 DEF Reset
      <4>2. n \in Queue /\ n \in Int /\ Ends(Nth(n), t) /\ n # Handled + 1
        BY <1>1, <1>2, <4>1, TodoType, HasType, FirstMsg DEF Ends
      <4>3. n \in (Handled + 1) + 1 .. sent
        BY <4>2, NumberTypes DEF Queue
      <4>. QED  BY <4>2, <4>3 DEF Recent
    <3>. QED  BY <1>6, <3>1, <3>2
  <2>2. Fresh(t)' = Fresh(t)
    BY <1>4, <2>1 DEF Fresh
  <2>3. StandingBids(t)' = StandingBids(t)
    BY <1>0, <1>4, <1>5, <1>6 DEF StandingBids
  <2>. QED  BY <2>2, <2>3 DEF BidRows
<1>7. CASE t = Token /\ ~Reset(t)
  <2>1. Handled + 1 \in Recent(t)
    <3>1. ASSUME NEW j \in (Handled + 1) + 1 .. sent, Ends(Nth(j), t)  PROVE FALSE
      <4>1. j \in Queue /\ j > Handled + 1 /\ Nth(j) \in Message
        BY NumberTypes, NthType DEF Queue
      <4>2. j \in Todo("deleteBids")
        BY <3>1, <4>1, HasType, BehindFirst DEF Ends
      <4>. QED  BY <1>7, <3>1, <4>2 DEF Reset, Ends
    <3>. QED  BY <1>1, <1>2, <1>7, <3>1, FirstMsg DEF Recent
  <2>2. Handled + 1 \in Fresh(t)
    BY <1>3, <2>1 DEF Fresh
  <2>3. Cardinality(Fresh(t)') = Cardinality(Fresh(t)) - 1
    BY <1>4, <1>5, <2>2, FS_RemoveElement
  <2>4. StandingBids(t)' = StandingBids(t) + 1
    BY <1>0, <1>2, <1>4, <1>5, <1>7 DEF StandingBids
  <2>5. Auctioned(t) /\ StandingBids(t) \in Nat
    BY <1>5, <2>1 DEF BidMessages, StandingBids
  <2>. QED  BY <1>4, <1>5, <2>3, <2>4, <2>5 DEF BidRows
<1>. QED  BY <1>6, <1>7

LEMMA DeleteBidRows ==
    ASSUME TypeOK, BidRows, DeleteAllBids
    PROVE  BidRows'
<1>0. Running /\ NextStatement /\ Statement.op = "deleteBids" /\ bids' = [bids EXCEPT ![Token] = 0]
  BY DEF DeleteAllBids, At
<1>1. pending # <<>> /\ Msg \in Message /\ EndsAuction(Msg)
  BY <1>0, AtHas, HasType
<1>2. Token \in Tokens
  BY <1>1 DEF Message, EndsAuction, Buyout, Token
<1>3. /\ Todo("deleteBids")' = Todo("deleteBids") \ {Handled + 1} /\ Todo("createBid")' = Todo("createBid")
      /\ Handled + 1 \in Todo("deleteBids") /\ Nth(Handled + 1) = Msg
  BY <1>0, <1>1, TodoStatement, FirstMsg
<1>4. \A t : Fresh(t)' = Fresh(t) /\ Bids(t)' = Bids(t) /\ Auctioned(t)' = Auctioned(t) /\ crashes' = crashes
  BY <1>0, <1>3, StatementRuns DEF Fresh, Recent, Bids, Auctioned, OnChain
<1>5. ASSUME NEW t \in Tokens  PROVE StandingBids(t)' = StandingBids(t)
  <2>0. bids \in [Tokens -> Nat]
    BY DEF TypeOK, TablesOK
  <2>1. CASE t = Token
    <3>1. Reset(t)
      BY <1>3, <2>1 DEF Reset, Token
    <3>. QED  BY <1>0, <1>2, <2>0, <2>1, <3>1 DEF StandingBids
  <2>2. CASE t # Token
    <3>1. \A n : Nth(n)' = Nth(n)
      BY <1>0, StatementRuns
    <3>2. Reset(t)' <=> Reset(t)
      BY <1>3, <2>2, <3>1 DEF Reset, Token
    <3>. QED  BY <1>0, <2>0, <2>2, <3>2 DEF StandingBids
  <2>. QED  BY <2>1, <2>2
<1>. QED  BY <1>4, <1>5 DEF BidRows

\* The messages kept either end the auction again, and delete the bids, or make at most two of
\* its bids a second time.
LEMMA CrashBidRows ==
    ASSUME TypeOK, BidRows, BidMessages, HandledOnce, Crash
    PROVE  BidRows'
<1>0. /\ nft' = nft /\ bids' = bids /\ sent' = sent /\ crashes' = crashes + 1 /\ crashes \in Nat
      /\ Queue' = Kept /\ Kept' = Kept /\ \A n \in Kept : Nth(n)' = Nth(n) /\ Nth(n) \in Message /\ n \in Int
  <2>1. nft' = nft /\ bids' = bids /\ sent' = sent /\ crashes' = crashes + 1 /\ crashes \in Nat
    BY ConstantsAssumption DEF Crash, chain, tables, TypeOK
  <2>. QED  BY <2>1, TodoCrash, NthType
<1>1. /\ Todo("createBid")' = {n \in Kept : Has(Nth(n), "createBid")}
      /\ Todo("deleteBids")' = {n \in Kept : Has(Nth(n), "deleteBids")}
      /\ Todo("createBid") \subseteq Todo("createBid")' /\ Todo("deleteBids") \subseteq Todo("deleteBids")'
  BY TodoCrash
<1>2. ASSUME NEW t  PROVE Recent(t)' = Recent(t) /\ Bids(t)' = Bids(t) /\ Auctioned(t)' = Auctioned(t)
  <2>1. \A k \in Kept : \A j \in k + 1 .. sent : j \in Kept
    BY NumberTypes DEF Kept
  <2>. QED  BY <1>0, <2>1 DEF Recent, Bids, Auctioned, OnChain
<1>. SUFFICES ASSUME NEW t \in Tokens
              PROVE  /\ StandingBids(t)' + Cardinality(Fresh(t)') >= Bids(t)
                     /\ StandingBids(t)' + Cardinality(Fresh(t)') <= Bids(t) + 2 * (crashes + 1)
                     /\ ~Auctioned(t) => StandingBids(t)' = 0
  BY <1>0, <1>2 DEF BidRows
<1>3. /\ Cardinality(Fresh(t)) \in Nat /\ IsFiniteSet(Fresh(t)) /\ bids[t] \in Nat /\ Bids(t) \in Nat
  BY FiniteFresh DEF TypeOK, TablesOK, ChainOK, Bids
<1>4. Reset(t)' <=> \E n \in Kept : Ends(Nth(n), t)
  BY <1>0, <1>1, HasType DEF Reset, Ends
<1>5. CASE \E n \in Kept : Ends(Nth(n), t)
  <2>1. Fresh(t)' = Recent(t)
    <3>1. \A n \in Recent(t) : n \in Kept /\ Has(Nth(n), "createBid")
      BY <1>0, HasType DEF Recent, BidOn, Buyout
    <3>. QED  BY <1>1, <1>2, <3>1 DEF Fresh
  <2>2. Cardinality(Fresh(t)') = Bids(t) /\ StandingBids(t)' = 0
    BY <1>4, <1>5, <2>1 DEF BidMessages, StandingBids
  <2>. QED  BY <1>0, <1>3, <2>2
<1>6. CASE ~\E n \in Kept : Ends(Nth(n), t)
  <2>1. ~Reset(t)
    BY <1>6, TodoType, HasType DEF Reset, Ends
  <2>2. StandingBids(t)' = bids[t] /\ StandingBids(t) = bids[t]
    BY <1>0, <1>4, <1>6, <2>1 DEF StandingBids
  <2>3. Fresh(t) \subseteq Fresh(t)' /\ Fresh(t)' \subseteq Fresh(t) \cup {Cursor + 1, Handled + 1}
    BY <1>1, <1>2, RepeatedOnce DEF Fresh
  <2>4. /\ Cardinality(Fresh(t)') >= Cardinality(Fresh(t)) /\ Cardinality(Fresh(t)') <= Cardinality(Fresh(t)) + 2
        /\ Cardinality(Fresh(t)') \in Nat
    BY <1>3, <2>3, TwoMore
  <2>. QED  BY <1>0, <1>3, <2>2, <2>4 DEF BidRows
<1>. QED  BY <1>5, <1>6

-----------------------------------------------------------------------------
(* The fungible tokens.                                                    *)

LEMMA FungibleRowsSame ==
    ASSUME FungibleRows, UNCHANGED <<supply, fungibles>>,
           \A n \in Todo("createFungible") : Nth(n).denom \notin fungibles =>
               n \in Todo("createFungible")' /\ Nth(n)' = Nth(n)
    PROVE  FungibleRows'
<1>1. ASSUME NEW d \in supply \ fungibles
      PROVE  \E n \in Todo("createFungible")' : Nth(n)'.denom = d
  BY DEF FungibleRows
<1>. QED  BY <1>1 DEF FungibleRows

LEMMA FungibleRowsSent ==
    ASSUME TypeOK, FungibleRows, NEW m \in Message, Send(m), DidFungibles(m)
    PROVE  FungibleRows'
<1>0. fungibles' = fungibles
  BY DEF Send, tables
<1>1. ASSUME NEW d \in supply' \ fungibles
      PROVE  \E n \in Todo("createFungible")' : Nth(n)'.denom = d
  <2>1. CASE d \in supply
    BY <2>1, CarriedSent DEF FungibleRows, Carried
  <2>2. CASE d \notin supply
    BY <2>2, CarriedSent, HasType DEF DidFungibles
  <2>. QED  BY <2>1, <2>2
<1>. QED  BY <1>0, <1>1 DEF FungibleRows, DidFungibles

LEMMA CreateFungibleRows ==
    ASSUME TypeOK, FungibleRows, FungibleMessages, CreateFungible
    PROVE  FungibleRows'
<1>0. Running /\ NextStatement /\ Statement.op = "createFungible" /\ fungibles' = fungibles \cup {Msg.denom}
  BY DEF CreateFungible, At
<1>1. Msg.type = "CreateFungibleToken" /\ pending # <<>> /\ Msg \in Message
  BY <1>0, AtHas, HasType
<1>2. Msg.denom \in Denoms /\ OfDenom(Msg, Msg.denom)
  BY <1>1 DEF Message, OfDenom
<1>3. Msg.denom \in supply
  BY <1>1, <1>2, FirstMsg DEF FungibleMessages
<1>4. ASSUME NEW d \in supply \ fungibles'
      PROVE  \E n \in Todo("createFungible")' : Nth(n)'.denom = d
  <2>1. PICK n \in Todo("createFungible") : Nth(n).denom = d
    BY <1>0 DEF FungibleRows
  <2>2. n # Handled + 1
    BY <1>0, <1>1, <1>4, <2>1, FirstMsg
  <2>. QED  BY <1>0, <2>1, <2>2, StatementRuns
<1>. QED  BY <1>0, <1>3, <1>4, StatementRuns DEF FungibleRows

LEMMA CrashFungibleRows ==
    ASSUME TypeOK, FungibleRows, Crash
    PROVE  FungibleRows'
<1>0. supply' = supply /\ fungibles' = fungibles
  BY DEF Crash, chain, tables
<1>1. \A n \in Todo("createFungible") : n \in Todo("createFungible")' /\ Nth(n)' = Nth(n)
  BY TodoCrash, TodoType
<1>. QED  BY <1>0, <1>1, FungibleRowsSame

-----------------------------------------------------------------------------
(* Rows is an invariant.                                                   *)

LEMMA RowsSent ==
    ASSUME TypeOK, HistInv, Rows, NEW m \in Message, Send(m), Did(m), ReMint = FALSE
    PROVE  Rows'
BY SignersSent, TokenRowsSent, ColumnRowsSent, OfferRowsSent, HandledOnceSent, BidRowsSent, FungibleRowsSent
   DEF Rows, HistInv, Did

\* What was to be done, and what is in the tables, is the same.
LEMMA RowsCarried ==
    ASSUME TypeOK, Rows, UNCHANGED <<chain, tables, crashes>>, SignersKnown', HandledOnce', Handled' \in Int,
           \A n \in Queue' : n \in Kept' /\ n \in Queue /\ Nth(n)' = Nth(n),
           Carried("deleteNFT"), Carried("update"), Carried("updateToBuyer"), Carried("createOffer"),
           Carried("deleteOffer"),
           \A n \in Todo("createNFT") : Nth(n).token \notin DOMAIN nfts => n \in Todo("createNFT")' /\ Nth(n)' = Nth(n),
           \A n \in Todo("createFungible") : Nth(n).denom \notin fungibles =>
               n \in Todo("createFungible")' /\ Nth(n)' = Nth(n),
           Todo("createBid")' = Todo("createBid"), Todo("deleteBids")' = Todo("deleteBids")
    PROVE  Rows'
<1>0. /\ nft' = nft /\ offered' = offered /\ supply' = supply /\ sent' = sent
      /\ users' = users /\ nfts' = nfts /\ bids' = bids /\ offers' = offers /\ fungibles' = fungibles /\ crashes' = crashes
  BY DEF chain, tables
<1>1. TokenRows'
  BY <1>0, TokenRowsCarried DEF Rows
<1>2. ColumnRows'
  BY <1>0, ColumnRowsCarried DEF Rows
<1>3. OfferRows'
  BY <1>0, OfferRowsCarried DEF Rows
<1>4. BidRows'
  BY <1>0, BidRowsSame DEF Rows
<1>5. FungibleRows'
  BY <1>0, FungibleRowsSame DEF Rows
<1>. QED  BY <1>1, <1>2, <1>3, <1>4, <1>5 DEF Rows

LEMMA RowsIdle ==
    ASSUME TypeOK, Rows, Begin \/ EndBlock \/ UNCHANGED vars
    PROVE  Rows'
<1>0. UNCHANGED <<chain, tables, crashes, pending>> /\ sent' = sent /\ (step' = step \/ (step = 0 /\ step' = 1))
  <2>1. CASE Begin
    BY <2>1 DEF Begin, chain
  <2>2. CASE EndBlock
    BY <2>2 DEF EndBlock, chain
  <2>3. CASE UNCHANGED vars
    BY <2>3 DEF vars, chain
  <2>. QED  BY <2>1, <2>2, <2>3
<1>1. /\ Handled' = Handled /\ Queue' = Queue /\ \A n \in Queue : Nth(n)' = Nth(n)
      /\ \A op : Todo(op)' = Todo(op)
  BY <1>0, TodoSame
<1>2. \A op : Carried(op) /\ \A n \in Todo(op) : n \in Todo(op)' /\ Nth(n)' = Nth(n)
  BY <1>1 DEF Carried, Todo
<1>3. SignersKnown' /\ HandledOnce' /\ Queue' \subseteq Kept'
  <2>1. CASE EndBlock
    <3>1. Queue' \subseteq Kept'
      BY <1>0, <2>1, EndBlockNumbers DEF Queue, Kept
    <3>. QED  BY <2>1, <3>1, SignersBlock, HandledOnceRest DEF Rows
  <2>2. CASE ~EndBlock
    <3>1. done' = done /\ users' = users
      BY <1>0, <2>2 DEF Begin, vars, tables
    <3>. QED  BY <1>0, <3>1, SignersSame, HandledOnceSame, SameNumbers, NumberTypes DEF Rows
  <2>. QED  BY <2>1, <2>2
<1>. QED  BY <1>0, <1>1, <1>2, <1>3, RowsCarried, NumberTypes

LEMMA RowsEnd ==
    ASSUME TypeInv, HistInv, Rows, Accounts = Addresses, HandleFails \/ HandleSucceeds, "db" \notin faults'
    PROVE  Rows'
<1>0. /\ TypeOK /\ pending # <<>> /\ step > Creates(Msg)
      /\ \A op : Handled + 1 \in Todo(op) =>
             \/ op \in {"publish", "queryPublish", "findFungible"}
             \/ op = "createNFT" /\ Exists(Token)
             \/ op = "createFungible" /\ Msg.denom \in fungibles
      /\ HandleFails => Msg.type # "MakeBidOnAuction"
  BY NothingLeft DEF TypeInv
<1>1. PICK ok \in BOOLEAN : EndMsg(ok) /\ (~ok => HandleFails)
  BY DEF HandleFails, HandleSucceeds
<1>2. UNCHANGED <<chain, tables, crashes>>
  BY <1>1 DEF EndMsg
<1>3. SignersKnown' /\ HandledOnce' /\ Handled' \in Int
  BY <1>0, <1>1, SignersEnd, HandledOnceEnd, EndMsgNumbers, NumberTypes DEF Rows
<1>4. /\ Queue' = Queue \ {Handled + 1} /\ \A n \in Queue' : n \in Kept' /\ Nth(n)' = Nth(n)
      /\ \A op : Todo(op)' = Todo(op) \ {Handled + 1}
  BY <1>0, <1>1, TodoEndMsg
<1>5. \A op : \A n \in Todo(op) : n # Handled + 1 => n \in Todo(op)' /\ Nth(n)' = Nth(n)
  BY <1>4 DEF Todo
<1>6. \A op : op \notin {"publish", "queryPublish", "findFungible", "createNFT", "createFungible"} =>
         Todo(op)' = Todo(op) /\ Carried(op)
  BY <1>0, <1>4, <1>5 DEF Carried
<1>7. /\ \A n \in Todo("createNFT") : Nth(n).token \notin DOMAIN nfts => n # Handled + 1
      /\ \A n \in Todo("createFungible") : Nth(n).denom \notin fungibles => n # Handled + 1
  BY <1>0, FirstMsg DEF Exists, Token
<1>. QED  BY <1>0, <1>2, <1>3, <1>4, <1>5, <1>6, <1>7, RowsCarried

\* The part of the tables a statement is not about.
LEMMA OtherRows ==
    ASSUME TypeOK, Rows, Running, NextStatement
    PROVE  /\ users \subseteq users' => SignersKnown'
           /\ HandledOnce'
           /\ nfts' = nfts /\ Statement.op \notin {"createNFT", "deleteNFT"} => TokenRows'
           /\ nfts' = nfts /\ Statement.op \notin {"update", "updateToBuyer"} => ColumnRows'
           /\ offers' = offers /\ Statement.op \notin {"createOffer", "deleteOffer"} => OfferRows'
           /\ bids' = bids /\ Statement.op \notin {"createBid", "deleteBids"} => BidRows'
           /\ fungibles' = fungibles /\ Statement.op # "createFungible" => FungibleRows'
<1>0. /\ UNCHANGED <<chain, pending, done>> /\ UNCHANGED <<pending, done, sent>>
      /\ nft' = nft /\ offered' = offered /\ supply' = supply /\ crashes' = crashes
  BY DEF NextStatement, chain
<1>a. /\ \A n : Nth(n)' = Nth(n)
      /\ Queue' = Queue /\ Kept' = Kept /\ Handled' = Handled
      /\ \A op : op # Statement.op => Carried(op) /\ Todo(op)' = Todo(op)
  BY StatementRuns
<1>1. (users \subseteq users' => SignersKnown') /\ HandledOnce'
  BY <1>0, SignersSame, HandledOnceSame DEF Rows
<1>2. nfts' = nfts /\ Statement.op \notin {"createNFT", "deleteNFT"} => TokenRows'
  BY <1>0, <1>a, TokenRowsCarried DEF Rows, Carried
<1>3. nfts' = nfts /\ Statement.op \notin {"update", "updateToBuyer"} => ColumnRows'
  BY <1>0, <1>a, ColumnRowsCarried DEF Rows
<1>4. offers' = offers /\ Statement.op \notin {"createOffer", "deleteOffer"} => OfferRows'
  BY <1>0, <1>a, OfferRowsCarried DEF Rows
<1>5. bids' = bids /\ Statement.op \notin {"createBid", "deleteBids"} => BidRows'
  BY <1>0, <1>a, BidRowsSame, NumberTypes DEF Rows
<1>6. fungibles' = fungibles /\ Statement.op # "createFungible" => FungibleRows'
  BY <1>0, <1>a, FungibleRowsSame DEF Rows, Carried
<1>. QED  BY <1>1, <1>2, <1>3, <1>4, <1>5, <1>6

LEMMA RowsSql ==
    ASSUME TypeOK, HistInv, Rows, SqlStatement \/ PublishTask
    PROVE  Rows'
<1>. USE DEF Rows, HistInv
<1>1. CASE FindOrCreateUser
  <2>1. Running /\ NextStatement /\ Statement.op = "findOrCreateUser" /\ users \subseteq users'
        /\ UNCHANGED <<nfts, bids, offers, fungibles>>
    BY <1>1 DEF FindOrCreateUser, At
  <2>. QED  BY <2>1, OtherRows
<1>2. CASE CreateNFT
  <2>1. Running /\ NextStatement /\ Statement.op = "createNFT" /\ UNCHANGED <<users, bids, offers, fungibles>>
    BY <1>2 DEF CreateNFT, At
  <2>. QED  BY <1>2, <2>1, OtherRows, CreateNFTTokens, CreateNFTColumns
<1>3. CASE UpdateNFT
  <2>1. Running /\ NextStatement /\ Statement.op \in {"update", "updateToBuyer"}
        /\ UNCHANGED <<users, bids, offers, fungibles>>
        /\ nfts' = IF Live(Token) THEN [nfts EXCEPT ![Token] = Overwrite(nfts[Token], Columns)] ELSE nfts
    BY <1>3 DEF UpdateNFT, At
  <2>2. Columns = NewColumns(Msg) /\ Msg \in Message
    BY <2>1, UpdateColumns, AtHas
  <2>3. "live" \notin DOMAIN Columns
    BY <2>2, ColumnsOf, MessageTypes DEF Types, Buyout
  <2>4. DOMAIN nfts' = DOMAIN nfts /\ \A t \in DOMAIN nfts : nfts'[t].live = nfts[t].live
    BY <2>1, <2>3 DEF Overwrite, Live, TypeOK, TablesOK
  <2>5. TokenRows'
    BY <2>1, <2>4, StatementRuns, TokenRowsCarried DEF Carried
  <2>. QED  BY <1>3, <2>1, <2>5, OtherRows, UpdateColumnRows
<1>4. CASE DeleteNFT
  <2>1. Running /\ NextStatement /\ Statement.op = "deleteNFT" /\ UNCHANGED <<users, bids, offers, fungibles>>
    BY <1>4 DEF DeleteNFT, At
  <2>. QED  BY <1>4, <2>1, OtherRows, DeleteNFTTokens, DeleteNFTColumns
<1>5. CASE CreateBid
  <2>1. Running /\ NextStatement /\ Statement.op = "createBid" /\ UNCHANGED <<users, nfts, offers, fungibles>>
    BY <1>5 DEF CreateBid, At
  <2>. QED  BY <1>5, <2>1, OtherRows, CreateBidRows
<1>6. CASE DeleteAllBids
  <2>1. Running /\ NextStatement /\ Statement.op = "deleteBids" /\ UNCHANGED <<users, nfts, offers, fungibles>>
    BY <1>6 DEF DeleteAllBids, At
  <2>. QED  BY <1>6, <2>1, OtherRows, DeleteBidRows
<1>7. CASE CreateOffer
  <2>1. Running /\ NextStatement /\ Statement.op = "createOffer" /\ UNCHANGED <<users, nfts, bids, fungibles>>
    BY <1>7 DEF CreateOffer, At
  <2>. QED  BY <1>7, <2>1, OtherRows, CreateOfferRows
<1>8. CASE DeleteOffer
  <2>1. Running /\ NextStatement /\ Statement.op = "deleteOffer" /\ UNCHANGED <<users, nfts, bids, fungibles>>
    BY <1>8 DEF DeleteOffer, At
  <2>. QED  BY <1>8, <2>1, OtherRows, DeleteOfferRows
<1>9. CASE CreateFungible
  <2>1. Running /\ NextStatement /\ Statement.op = "createFungible" /\ UNCHANGED <<users, nfts, bids, offers>>
    BY <1>9 DEF CreateFungible, At
  <2>. QED  BY <1>9, <2>1, OtherRows, CreateFungibleRows
<1>10. CASE ScanOffer \/ PublishTask
  <2>1. Running /\ NextStatement /\ Statement.op \in {"scanOffer", "publish", "queryPublish"}
        /\ UNCHANGED <<users, nfts, bids, offers, fungibles>>
    BY <1>10 DEF ScanOffer, PublishTask, At, tables
  <2>. QED  BY <2>1, OtherRows
<1>. QED  BY <1>1, <1>2, <1>3, <1>4, <1>5, <1>6, <1>7, <1>8, <1>9, <1>10 DEF SqlStatement

LEMMA RowsCrash ==
    ASSUME TypeOK, HistInv, Rows, Crash
    PROVE  Rows'
<1>0. nft' = nft /\ offered' = offered /\ nfts' = nfts /\ offers' = offers
  BY DEF Crash, chain, tables
<1>1. \A op : Carried(op)
  BY TodoCrash, TodoType DEF Carried
<1>2. TokenRows'
  BY <1>0, <1>1, TokenRowsCarried DEF Rows, Carried
<1>3. ColumnRows' /\ OfferRows'
  BY <1>0, <1>1, ColumnRowsCarried, OfferRowsCarried DEF Rows
<1>. QED
  BY <1>2, <1>3, SignersCrash, HandledOnceRest, CrashBidRows, CrashFungibleRows DEF Rows, HistInv

LEMMA DbNext ==
    ASSUME TypeInv, HistInv, DbInv, Accounts = Addresses, ReMint = FALSE, [Next]_vars
    PROVE  DbInv'
<1>. SUFFICES ASSUME "db" \notin faults'  PROVE Rows'
  BY DEF DbInv
<1>0. TypeOK /\ faults \subseteq faults'
  <2>1. ChainStep => faults' = faults
    BY ChainSends DEF Send
  <2>2. SqlStatement \/ PublishTask => NextStatement
    BY DEF SqlStatement, PublishTask, FindOrCreateUser, CreateNFT, UpdateNFT, DeleteNFT, CreateBid,
       DeleteAllBids, CreateOffer, ScanOffer, DeleteOffer, CreateFungible
  <2>3. SqlStatement \/ PublishTask \/ Begin \/ HandleSucceeds \/ EndBlock \/ Crash \/ UNCHANGED vars => faults' = faults
    BY <2>2 DEF NextStatement, Begin, HandleSucceeds, EndBlock, Crash, vars
  <2>4. HandleFails \/ ErrorIgnored => faults \subseteq faults'
    BY DEF HandleFails, ErrorIgnored, Fault
  <2>. QED  BY <2>1, <2>3, <2>4 DEF TypeInv, Next, Handler
<1>1. Rows
  BY <1>0 DEF DbInv
<1>2. CASE ChainStep
  <2>1. \E m \in Message : Send(m) /\ Did(m)
    BY <1>0, <1>2, ChainDid DEF HistInv
  <2>. QED  BY <1>0, <1>1, <2>1, RowsSent
<1>3. CASE SqlStatement \/ PublishTask
  BY <1>0, <1>1, <1>3, RowsSql
<1>4. CASE HandleFails \/ HandleSucceeds
  BY <1>1, <1>4, RowsEnd
<1>5. CASE Begin \/ EndBlock \/ UNCHANGED vars
  BY <1>0, <1>1, <1>5, RowsIdle
<1>6. CASE Crash
  BY <1>0, <1>1, <1>6, RowsCrash
<1>7. ~ErrorIgnored
  <2>. SUFFICES ASSUME ErrorIgnored  PROVE FALSE
    OBVIOUS
  <2>1. PICK f \in Faults \ faults : (Sending <=> f = "rmq") /\ faults' = faults \cup {f}
    BY DEF ErrorIgnored, Fault
  <2>2. Sending /\ Unchecked
    BY <2>1, ConstantsAssumption DEF ErrorIgnored
  <2>. QED  BY <2>2 DEF Sending, Unchecked, At
<1>. QED  BY <1>2, <1>3, <1>4, <1>5, <1>6, <1>7 DEF Next, Handler

LEMMA DbInit ==
    ASSUME Init
    PROVE  DbInv
<1>0. /\ sent = 0 /\ pending = <<>> /\ done = <<>> /\ DOMAIN nft = {} /\ DOMAIN nfts = {} /\ DOMAIN offers = {}
      /\ DOMAIN offered = {} /\ supply = {} /\ fungibles = {} /\ bids = [t \in Tokens |-> 0] /\ crashes = 0
  BY DEF Init, Empty
<1>1. Queue = {} /\ Kept = {} /\ Cursor = 0 /\ Handled = 0
  <2>0. sent = 0
    BY <1>0
  <2>1. Len(pending) = 0 /\ Len(done) = 0
    BY <1>0
  <2>2. Cursor = 0 /\ Handled = 0
    BY <2>0, <2>1 DEF Cursor, Handled
  <2>. QED  BY <1>0, <2>2 DEF Queue, Kept
<1>2. \A op : Todo(op) = {}
  BY <1>1 DEF Todo
<1>3. SignersKnown /\ TokenRows /\ ColumnRows /\ OfferRows /\ HandledOnce
  BY <1>0, <1>1, <1>2 DEF SignersKnown, TokenRows, ColumnRows, OfferRows, HandledOnce
<1>4. BidRows
  <2>1. \A t \in Tokens : Fresh(t) = {} /\ StandingBids(t) = 0 /\ Bids(t) = 0
    BY <1>0, <1>2 DEF Fresh, StandingBids, Reset, Bids
  <2>. QED  BY <1>0, <2>1, FS_EmptySet DEF BidRows
<1>5. FungibleRows
  BY <1>0 DEF FungibleRows
<1>. QED  BY <1>3, <1>4, <1>5 DEF DbInv, Rows

-----------------------------------------------------------------------------
(* The tables follow the chain.                                            *)

MirrorInv == TypeInv /\ HistInv /\ DbInv

\* Whatever the chain sends, the handler refuses and a crash repeats: if every address has an
\* account, no burned token is minted again and the database never failed, a table differs
\* from the chain by what the messages in the queue have still to do, and not more.
THEOREM MirrorInvariant == Accounts = Addresses /\ ReMint = FALSE => (Spec => []MirrorInv)
<1>. SUFFICES ASSUME Accounts = Addresses, ReMint = FALSE  PROVE Spec => []MirrorInv
  OBVIOUS
<1>1. Init => MirrorInv
  BY InitType, HistInit, DbInit DEF MirrorInv
<1>2. MirrorInv /\ [Next]_vars => MirrorInv'
  BY NextType, HistNext, DbNext DEF MirrorInv
<1>. QED  BY <1>1, <1>2, PTL DEF Spec

LEMMA AllDone ==
    ASSUME TypeOK, CaughtUp
    PROVE  \A op : Todo(op) = {}
<1>1. Len(pending) = 0
  BY DEF CaughtUp
<1>2. Queue = {}
  BY <1>1, NumberTypes DEF Queue, Handled
<1>. QED  BY <1>2 DEF Todo

LEMMA MirrorSynced ==
    ASSUME MirrorInv
    PROVE  MirrorInSync
<1>. SUFFICES ASSUME CaughtUp, "db" \notin faults, NEW t \in Tokens
              PROVE  /\ Live(t) <=> OnChain(t)
                     /\ Live(t) => /\ nfts[t].owner = nft[t].owner /\ nfts[t].uri = nft[t].uri
                                   /\ nfts[t].status = nft[t].status
                                   /\ nfts[t].auction <=> nft[t].status = "auction"
  BY DEF MirrorInSync
<1>1. TypeOK /\ TokenRows /\ ColumnRows /\ \A op : Todo(op) = {}
  BY AllDone DEF MirrorInv, TypeInv, DbInv, Rows
<1>2. Live(t) <=> OnChain(t)
  BY <1>1 DEF TokenRows, Live, Exists, OnChain
<1>3. Live(t) => \A f \in Fields : nfts[t][f] = ChainRow(t)[f]
  BY <1>1 DEF ColumnRows, Writing, Live, Exists
<1>4. Live(t) => /\ nfts[t].owner = nft[t].owner /\ nfts[t].uri = nft[t].uri /\ nfts[t].status = nft[t].status
                 /\ nfts[t].auction = (nft[t].status = "auction")
  BY <1>3 DEF Fields, ChainRow, RowOf
<1>. QED  BY <1>2, <1>4

LEMMA FungiblesSynced ==
    ASSUME MirrorInv
    PROVE  FungiblesMirrored
<1>. SUFFICES ASSUME CaughtUp, "db" \notin faults  PROVE fungibles = supply
  BY DEF FungiblesMirrored
<1>1. TypeOK /\ FungibleRows /\ Todo("createFungible") = {}
  BY AllDone DEF MirrorInv, TypeInv, DbInv, Rows
<1>. QED  BY <1>1 DEF FungibleRows

LEMMA OffersSynced ==
    ASSUME MirrorInv
    PROVE  OffersMirrored
<1>. SUFFICES ASSUME CaughtUp, "db" \notin faults
              PROVE  \A o \in OfferIds :
                         (o \in DOMAIN offers /\ offers[o].live) <=> (o \in DOMAIN offered /\ offered[o].open)
  BY DEF OffersMirrored
<1>1. TypeOK /\ OfferRows /\ \A op : Todo(op) = {}
  BY AllDone DEF MirrorInv, TypeInv, DbInv, Rows
<1>. QED  BY <1>1 DEF OfferRows

LEMMA BidsSynced ==
    ASSUME MirrorInv
    PROVE  BidsMirrored
<1>. SUFFICES ASSUME CaughtUp, "db" \notin faults, NEW t \in Tokens
              PROVE  IF Auctioned(t) THEN bids[t] >= nft[t].bids /\ bids[t] <= nft[t].bids + 2 * crashes
                                     ELSE bids[t] = 0
  BY DEF BidsMirrored
<1>1. TypeOK /\ BidRows /\ \A op : Todo(op) = {}
  BY AllDone DEF MirrorInv, TypeInv, DbInv, Rows
<1>2. StandingBids(t) = bids[t] /\ Fresh(t) = {} /\ bids[t] \in Nat /\ (Auctioned(t) => Bids(t) = nft[t].bids)
  BY <1>1 DEF StandingBids, Reset, Fresh, Bids, Auctioned, OnChain, TypeOK, TablesOK
<1>3. Cardinality(Fresh(t)) = 0 /\ Bids(t) \in Nat /\ crashes \in Nat
  BY <1>1, <1>2, FS_EmptySet, ConstantsAssumption DEF Bids, TypeOK, ChainOK
<1>4. bids[t] >= Bids(t) /\ bids[t] <= Bids(t) + 2 * crashes /\ (~Auctioned(t) => bids[t] = 0)
  <2>1. /\ StandingBids(t) + Cardinality(Fresh(t)) >= Bids(t)
        /\ StandingBids(t) + Cardinality(Fresh(t)) <= Bids(t) + 2 * crashes
        /\ ~Auctioned(t) => StandingBids(t) = 0
    BY <1>1 DEF BidRows
  <2>2. StandingBids(t) = bids[t] /\ bids[t] \in Nat
    BY <1>2
  <2>. QED  BY <1>3, <2>1, <2>2
<1>. QED  BY <1>2, <1>4

\* When the handler has caught up, the tokens that are not deleted in the database are those of
\* the chain, each with its owner, URI, market status and whether it is on auction.
THEOREM TokensFollowChain == Accounts = Addresses /\ ReMint = FALSE => (Spec => []MirrorInSync)
<1>1. MirrorInv => MirrorInSync
  BY MirrorSynced
<1>. QED  BY <1>1, MirrorInvariant, PTL

\* When the handler has caught up, the fungible tokens are the chain's.
THEOREM FungiblesFollowChain == Accounts = Addresses /\ ReMint = FALSE => (Spec => []FungiblesMirrored)
<1>1. MirrorInv => FungiblesMirrored
  BY FungiblesSynced
<1>. QED  BY <1>1, MirrorInvariant, PTL

\* When the handler has caught up, the offers that are not deleted are the chain's open ones.
THEOREM OffersFollowChain == Accounts = Addresses /\ ReMint = FALSE => (Spec => []OffersMirrored)
<1>1. MirrorInv => OffersMirrored
  BY OffersSynced
<1>. QED  BY <1>1, MirrorInvariant, PTL

\* When the handler has caught up, no bid of a running auction is missing, at most two have been
\* added by each crash, and an ended auction has none.
THEOREM BidsFollowChain == Accounts = Addresses /\ ReMint = FALSE => (Spec => []BidsMirrored)
<1>1. MirrorInv => BidsMirrored
  BY BidsSynced
<1>. QED  BY <1>1, MirrorInvariant, PTL
=============================================================================
