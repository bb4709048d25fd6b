SPECIFICATION Spec
CONSTANTS
    Byte = 6
    Wide = 5
    MaxBytes = 4
    Utf8 <- TextBytes
    OtherIds = {"#7", "#null", "#-1"}
    Raw <- RawBytes
    Purchases <- PurchaseOrders
    Cancellations <- CancelOrders
    Reread <- RereadTexts
    Quoted = {"q"}
    OtherNumbers <- Numbers
    OtherAmounts <- Amounts
    publisher = "publisher"
    max_txs = 3
    Times = {9}
    MaxSequence = 4
INVARIANTS PublishedIsAccepted RootCommits SignatureBinds SealedByHash
CHECK_DEADLOCK FALSE
