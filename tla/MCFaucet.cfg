SPECIFICATION FairSpec
CONSTANTS
    Calls = {c1, c2, c3}
    Addrs = {a1, a2}
    N = 2
    InitFunds <- OneTransfer
    Amount = 2
    Gas = 1
    MaxErrors = 1
    Drops = TRUE
    NoAddr = NoAddr
    NoTx = NoTx
CHECK_DEADLOCK FALSE
INVARIANTS
    SignerExclusive
    OnePendingPerSigner
    OneTxPerCall
PROPERTIES
    EveryCallReturns
    FreedUnlessDropped
