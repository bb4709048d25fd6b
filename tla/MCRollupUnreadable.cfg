SPECIFICATION FairSpec
CONSTANTS
    max_txs = 2
    Publisher = Publisher
    None = None
    MaxUint64 = 100
    MaxPage = 1
    Environments <- UnreadableEnvironments
PROPERTY EventuallyAnchored
