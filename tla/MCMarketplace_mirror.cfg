CONSTANTS
    NoOne = NoOne
    Tokens = {t1}
    Uris = {u1, u2}
    Addresses = {alice, bob}
    Accounts = {alice, bob}
    Beneficiaries = {alice, bob}
    OfferIds = {o1}
    Denoms = {}
    ReMint = FALSE
    Faults = {"rmq"}
    MaxMsgs = 5
    MaxLag = 2
    MaxCrashes = 1
SPECIFICATION Spec
SYMMETRY Symmetry
INVARIANTS TypeOK MirrorInSync BidsMirrored OffersMirrored UrisPublished
CHECK_DEADLOCK FALSE
