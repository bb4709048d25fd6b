SPECIFICATION FairOrderSpec
CONSTANTS
    max_txs = 1
    Publisher = Publisher
    None = None
    MaxUint64 = 100
    MaxPage = 1
    Environments <- OrderEnvironments
INVARIANT AcknowledgedFirst
PROPERTY EventuallyAnchored
