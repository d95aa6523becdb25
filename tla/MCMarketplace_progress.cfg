CONSTANTS
    NoOne = NoOne
    Tokens = {t1, t2}
    Uris = {u1}
    Addresses = {alice, carol}
    Accounts = {alice}
    Beneficiaries = {alice, carol}
    OfferIds = {o1}
    Denoms = {d1}
    ReMint = TRUE
    Faults = {"db", "rmq"}
    MaxMsgs = 3
    MaxLag = 2
    MaxCrashes = 2
SPECIFICATION FairSpec
INVARIANTS FungiblesMirrored 
PROPERTY NeverStuck
CHECK_DEADLOCK FALSE
