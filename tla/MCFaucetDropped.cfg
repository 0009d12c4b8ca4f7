SPECIFICATION FairSpec
CONSTANTS
    Calls = {c1, c2}
    Addrs = {a1}
    N = 2
    InitFunds <- OneTransfer
    Amount = 2
    Gas = 1
    MaxErrors = 0
    Drops = TRUE
    NoAddr = NoAddr
    NoTx = NoTx
CHECK_DEADLOCK FALSE
PROPERTY SignersFreed
