------------------------------ MODULE Pricing ------------------------------
(***************************************************************************)
(* How postNewPurchase of StorePurchaseRouter.ts computes the loyalty of a *)
(* purchase: the texts of the request become amounts, the total is compared*)
(* with the details, the loyalty is computed and, for a purchase that is   *)
(* kept, spelled in a message to the customer. What happens at the awaits  *)
(* in between is in module Router.                                         *)
(***************************************************************************)
EXTENDS Amount, Sequences

CONSTANTS
    Requests,   \* what req.body may be
    Inexact,    \* hundredths h for which floor(double(h/100) * 100) is h - 1
    precision   \* systemInfo.point.precision

(* An element of req.body.details: null, without one of its three fields or *)
(* with all of them; its percentage in hundredths, when it is a number that *)
(* BigNumber.from takes (NaN and numbers beyond MAX_SAFE_INTEGER are none). *)
Detail ==
    [shape : {"null", "partial", "whole"}, amount : Text, numeric : BOOLEAN, percent : Int]

Request == [details : Seq(Detail), totalAmount : Text, cashAmount : Text]

ASSUME PricingAssumption ==
    /\ Requests \subseteq Request
    /\ Inexact \subseteq Int
    /\ precision \in Nat

VARIABLES
    request,
    pc,          \* "details", "total", "message" or "answered"
    elem,        \* the element of the details that comes next
    sum,         \* of the amounts of the converted details
    weighted,    \* getLoyaltyInTransaction: of amount times providePercent
    totalAmount, cashAmount, loyaltyValue,
    shown,       \* the loyalty in the message to the customer
    answer       \* the code of the answer

purchaseVars == <<totalAmount, cashAmount, loyaltyValue>>
vars == <<request, pc, elem, sum, weighted, purchaseVars, shown, answer>>

Empty == [sign |-> "empty", int |-> 0, digits |-> 0, frac |-> 0]

Init ==
    /\ request \in Requests
    /\ pc = "details" /\ elem = 1
    /\ sum = 0 /\ weighted = 0
    /\ totalAmount = 0 /\ cashAmount = 0 /\ loyaltyValue = 0
    /\ shown = Empty
    /\ answer = ""

Answer(code) ==
    /\ pc' = "answered"
    /\ answer' = code

(* Math.floor(Number(elem.providePercent) * 100)                           *)
ProvidePercent(percent) == IF percent \in Inexact THEN percent - 1 ELSE percent

(* new PurchaseDetails(...) throws for an amount that is no decimal number *)
(* and for a percentage that is none.                                      *)
Converts(detail) == Makes(detail.amount) /\ detail.numeric

(* A round of the loop over req.body.details, with what the element adds   *)
(* to the sums of the two later loops, which nobody sees before they end.  *)
(* An element without all three fields is skipped, and null has no fields  *)
(* to ask for: it throws.                                                  *)
ConvertDetail ==
    /\ pc = "details"
    /\ elem <= Len(request.details)
    /\ LET detail == request.details[elem]
       IN \/ /\ detail.shape = "partial"
             /\ elem' = elem + 1
             /\ UNCHANGED <<pc, sum, weighted, answer>>
          \/ /\ detail.shape = "whole" /\ Converts(detail)
             /\ elem' = elem + 1
             /\ sum' = sum + make(detail.amount)
             /\ weighted' = weighted + make(detail.amount) * ProvidePercent(detail.percent)
             /\ UNCHANGED <<pc, answer>>
          \/ /\ detail.shape = "null" \/ (detail.shape = "whole" /\ ~ Converts(detail))
             /\ Answer("6000")
             /\ UNCHANGED <<elem, sum, weighted>>
    /\ UNCHANGED <<request, purchaseVars, shown>>

EndDetails ==
    /\ pc = "details"
    /\ elem > Len(request.details)
    /\ pc' = "total"
    /\ UNCHANGED <<request, elem, sum, weighted, purchaseVars, shown, answer>>

(* totalAmount.eq(sum)                                                     *)
Agrees_Within(total) == total <= sum

Agrees(total) == total = sum

(* getLoyaltyInTransaction                                                 *)
Loyalty_DividedFirst(cash, total) ==
    IF total = 0 \/ cash = 0 THEN 0
    ELSE zeroGWEI(div(weighted, total) * div(cash, 10000))

Loyalty(cash, total) ==
    IF total = 0 \/ cash = 0 THEN 0
    ELSE zeroGWEI(div(div(weighted * cash, total), 10000))

(* getPurchaseDataMessage: a negative number has no encoding as uint256.   *)
Encodes_Any(value) == TRUE

Encodes(value) == value >= 0

(* After this step the transaction is signed and stored.                   *)
Price ==
    /\ pc = "total"
    /\ LET total == make(request.totalAmount)
           cash == make(request.cashAmount)
           made == Makes(request.totalAmount) /\ Makes(request.cashAmount)
           loyalty == Loyalty(cash, total)
       IN \/ /\ ~ made
             /\ Answer("6000")
             /\ UNCHANGED purchaseVars
          \/ /\ made /\ ~ Agrees(total)
             /\ Answer("2004")
             /\ UNCHANGED purchaseVars
          \/ /\ made /\ Agrees(total)
             /\ ~ (Encodes(cash) /\ Encodes(loyalty))
             /\ Answer("6000")
             /\ UNCHANGED purchaseVars
          \/ /\ made /\ Agrees(total)
             /\ Encodes(cash) /\ Encodes(loyalty)
             /\ totalAmount' = total /\ cashAmount' = cash
             /\ loyaltyValue' = loyalty
             /\ pc' = "message"
             /\ UNCHANGED answer
    /\ UNCHANGED <<request, elem, sum, weighted, shown>>

(* The message, for a loyalty in the currency of the points; an amount too *)
(* large for toNumber throws after the transaction was stored.             *)
Announce ==
    /\ pc = "message"
    /\ \/ /\ loyaltyValue >= 1 /\ Shows(loyaltyValue)
          /\ shown' = toDisplayString(loyaltyValue, precision)
          /\ Answer("0")
       \/ /\ loyaltyValue >= 1 /\ ~ Shows(loyaltyValue)
          /\ Answer("6000")
          /\ UNCHANGED shown
       \/ /\ loyaltyValue < 1
          /\ Answer("0")
          /\ UNCHANGED shown
    /\ UNCHANGED <<request, elem, sum, weighted, purchaseVars>>

Next == ConvertDetail \/ EndDetails \/ Price \/ Announce

Spec == Init /\ [][Next]_vars

----------------------------------------------------------------------------
(* Every variable holds a value of its kind: the request may ask for less  *)
(* than nothing, but no negative amount is ever stored as cash or loyalty. *)
NothingNegative ==
    /\ request \in Request
    /\ pc \in {"details", "total", "message", "answered"}
    /\ elem \in Nat \ {0} /\ sum \in Int /\ weighted \in Int
    /\ totalAmount \in Int /\ cashAmount \in Nat /\ loyaltyValue \in Nat
    /\ shown.sign \in {"", "empty"} /\ shown.int \in Int /\ shown.digits \in Nat
    /\ answer \in {"", "0", "2004", "6000"}

Stored == pc = "message" \/ (pc = "answered" /\ cashAmount > 0)

(* No amount has a minus sign and no percentage is negative.               *)
Unsigned ==
    \A i \in DOMAIN request.details :
        LET detail == request.details[i]
        IN detail.amount.sign # "-" /\ ProvidePercent(detail.percent) >= 0

(* The loyalty is the exact quotient rounded down to a multiple of GWEI,   *)
(* although getLoyaltyInTransaction cuts three times: never more than the  *)
(* details promise, and less than one GWEI below it.                       *)
LoyaltyRoundsDown ==
    Stored /\ Unsigned /\ totalAmount > 0 =>
        /\ loyaltyValue % GWEI = 0
        /\ loyaltyValue * (totalAmount * 10000) <= weighted * cashAmount
        /\ weighted * cashAmount < (loyaltyValue + GWEI) * (totalAmount * 10000)

(* With no percentage above 100 the loyalty is at most what was paid in    *)
(* cash, because the total has been compared with the details.             *)
LoyaltyWithinCash ==
    /\ Unsigned
    /\ \A i \in DOMAIN request.details : request.details[i].percent <= 10000
    => loyaltyValue <= cashAmount

(* The message names the loyalty of the transaction, cut to the precision. *)
MessageNamesLoyalty ==
    shown # Empty =>
        /\ make(shown) <= loyaltyValue
        /\ \/ precision >= DECIMAL /\ make(shown) = loyaltyValue
           \/ /\ precision < DECIMAL
              /\ loyaltyValue < make(shown) + Power(DECIMAL - precision)
============================================================================
