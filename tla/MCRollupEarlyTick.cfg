SPECIFICATION Spec
CONSTANTS
    max_txs = 2
    Publisher = Publisher
    None = None
    MaxUint64 = 100
    MaxPage = 1
    Environments <- EarlyEnvironments
INVARIANT StoredIsKept
