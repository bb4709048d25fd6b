SPECIFICATION Spec
CONSTANTS
    DECIMAL = 2
    MaxDigits = 3
    GWEI = 5
    MaxSafe = 2
    Requests <- PurchaseRequests
    Inexact <- InexactHundredths
    precision = 1
INVARIANTS NothingNegative LoyaltyRoundsDown LoyaltyWithinCash MessageNamesLoyalty
CHECK_DEADLOCK FALSE
