--------------------------- MODULE PricingProofs ---------------------------
(***************************************************************************)
(* The loyalty of a purchase, proved for every request, every number of    *)
(* places and every unit of rounding. The arithmetic of the three cuts is  *)
(* in the lemmas about \div, and the loop over the details is an invariant.*)
(***************************************************************************)
EXTENDS Pricing, TLAPS

(* Division with remainder. *)
LEMMA Division ==
    ASSUME NEW a \in Nat, NEW b \in Nat \ {0}
    PROVE  /\ a \div b \in Nat
           /\ (a \div b) * b <= a
           /\ a < ((a \div b) + 1) * b
<1>1. a \div b \in Nat /\ a % b \in 0 .. b - 1 /\ a = b * (a \div b) + (a % b)
  OBVIOUS
<1> DEFINE q == a \div b
           r == a % b
<1>2. q \in Nat /\ r \in Nat /\ r < b /\ a = b * q + r
  BY <1>1
<1> HIDE DEF q, r
<1>3. q * b <= a /\ a < (q + 1) * b
  BY <1>2, SMT
<1>4. QED
  BY <1>2, <1>3 DEF q

LEMMA Product ==
    ASSUME NEW a \in Nat, NEW b \in Nat
    PROVE  a * b \in Nat
OBVIOUS

(* Multiplication keeps an inequality. *)
LEMMA Scaling ==
    ASSUME NEW a \in Int, NEW b \in Int, NEW c \in Nat, a <= b
    PROVE  a * c <= b * c
<1>1. PICK d \in Nat : b = a + d
  <2>1. b - a \in Nat /\ b = a + (b - a)
    OBVIOUS
  <2>2. QED
    BY <2>1
<1>2. b * c = a * c + d * c
  BY <1>1, SMT
<1>3. d * c \in Nat
  BY <1>1, Product
<1>4. QED
  BY <1>2, <1>3, SMT

Cut(x, t, g) == (((x \div t) \div 10000) \div g) * g

(* Dividing by t, by 10000 and by the unit, and cutting each time, is one  *)
(* division cut to the unit.                                               *)
LEMMA ThreeCuts ==
    ASSUME NEW x \in Nat, NEW t \in Nat \ {0}, NEW g \in Nat \ {0}
    PROVE  /\ Cut(x, t, g) \in Nat
           /\ Cut(x, t, g) * (t * 10000) <= x
           /\ x < (Cut(x, t, g) + g) * (t * 10000)
<1> DEFINE q == x \div t
           h == q \div 10000
           k == h \div g
<1>1. q \in Nat /\ q * t <= x /\ x < (q + 1) * t
  BY Division
<1>2. h \in Nat /\ h * 10000 <= q /\ q < (h + 1) * 10000
  <2> HIDE DEF q
  <2>1. QED BY <1>1, Division
<1>3. k \in Nat /\ k * g <= h /\ h < (k + 1) * g
  <2> HIDE DEF h
  <2>1. QED BY <1>2, Division
<1> HIDE DEF q, h, k
<1> DEFINE L == k * g
<1>4. L \in Nat /\ L <= h /\ h + 1 <= L + g
  <2>1. L \in Nat
    BY <1>3, Product
  <2>2. (k + 1) * g = L + g
    BY <1>3, SMT
  <2>3. QED
    BY <1>2, <1>3, <2>1, <2>2, SMT
<1> HIDE DEF L
<1>5. L * 10000 <= q /\ q + 1 <= (L + g) * 10000
  BY <1>1, <1>2, <1>4, SMT
<1>6. (L * 10000) * t <= q * t /\ (q + 1) * t <= ((L + g) * 10000) * t
  BY <1>1, <1>4, <1>5, Scaling
<1>7. (L * 10000) * t = L * (t * 10000) /\ ((L + g) * 10000) * t = (L + g) * (t * 10000)
  BY <1>4, SMT
<1>8. q * t \in Int /\ (q + 1) * t \in Int /\ L * (t * 10000) \in Int
      /\ (L + g) * (t * 10000) \in Int
  BY <1>1, <1>4, SMT
<1> DEFINE lower == L * (t * 10000)
           upper == (L + g) * (t * 10000)
           small == q * t
           large == (q + 1) * t
<1>9. lower <= x /\ x < upper
  <2>1. lower \in Int /\ upper \in Int /\ small \in Int /\ large \in Int
    BY <1>8
  <2>2. lower <= small /\ large <= upper
    BY <1>6, <1>7
  <2>3. small <= x /\ x < large
    BY <1>1
  <2> HIDE DEF lower, upper, small, large
  <2>4. QED
    BY <2>1, <2>2, <2>3
<1>10. QED
  BY <1>4, <1>9 DEF Cut, L, k, h, q

----------------------------------------------------------------------------
(* What the operators of module Amount return.                             *)
LEMMA PowerType ==
    ASSUME NEW n \in 0 .. MaxDigits
    PROVE  Power(n) \in Nat \ {0}
BY AmountAssumption

LEMMA DivType ==
    ASSUME NEW a \in Int, NEW b \in Int, b # 0
    PROVE  div(a, b) \in Int
<1>1. Absolute(a) \in Nat /\ Absolute(b) \in Nat \ {0}
  BY DEF Absolute
<1>2. Absolute(a) \div Absolute(b) \in Nat
  BY <1>1, Division
<1>3. QED
  BY <1>2 DEF div

LEMMA DivNat ==
    ASSUME NEW a \in Nat, NEW b \in Nat \ {0}
    PROVE  div(a, b) = a \div b /\ div(a, b) \in Nat
<1>1. div(a, b) = a \div b
  BY DEF div, Absolute
<1>2. QED
  BY <1>1, Division

LEMMA MakeType ==
    ASSUME NEW text \in Text
    PROVE  /\ make(text) \in Int
           /\ text.sign # "-" => make(text) \in Nat
<1>1. text.int \in Nat /\ text.frac \in Nat /\ text.digits \in 0 .. MaxDigits
  BY DEF Text
<1>2. DECIMAL \in 0 .. MaxDigits
  BY AmountAssumption
<1>3. text.int * Power(DECIMAL) \in Nat
  BY <1>1, <1>2, PowerType, Product
<1>4. Integral(text) \in Int /\ (text.sign # "-" => Integral(text) \in Nat)
  BY <1>3 DEF Integral
<1>5. Fraction(text) \in Nat
  <2>1. CASE text.digits > DECIMAL
    <3>1. text.digits - DECIMAL \in 0 .. MaxDigits
      BY <1>1, <1>2, <2>1, AmountAssumption
    <3>2. text.frac \div Power(text.digits - DECIMAL) \in Nat
      BY <1>1, <3>1, PowerType, Division
    <3>3. QED
      BY <2>1, <3>2 DEF Fraction
  <2>2. CASE ~ (text.digits > DECIMAL)
    <3>1. DECIMAL - text.digits \in 0 .. MaxDigits
      BY <1>1, <1>2, <2>2, AmountAssumption
    <3>2. text.frac * Power(DECIMAL - text.digits) \in Nat
      BY <1>1, <3>1, PowerType, Product
    <3>3. QED
      BY <2>2, <3>2 DEF Fraction
  <2>3. QED
    BY <2>1, <2>2
<1>6. QED
  BY <1>4, <1>5 DEF make

LEMMA LoyaltyType ==
    ASSUME weighted \in Int, NEW cash \in Int, NEW total \in Int
    PROVE  Loyalty(cash, total) \in Int
<1>1. CASE total = 0 \/ cash = 0
  BY <1>1 DEF Loyalty
<1>2. CASE ~ (total = 0 \/ cash = 0)
  <2> DEFINE product == weighted * cash
  <2>1. product \in Int
    OBVIOUS
  <2> HIDE DEF product
  <2>2. div(product, total) \in Int
    BY <1>2, <2>1, DivType
  <2>3. div(div(product, total), 10000) \in Int
    BY <2>2, DivType
  <2>4. zeroGWEI(div(div(product, total), 10000)) \in Int
    <3>1. GWEI \in Int /\ GWEI # 0
      BY AmountAssumption
    <3>2. div(div(div(product, total), 10000), GWEI) \in Int
      BY <2>3, <3>1, DivType
    <3>3. QED
      BY <3>1, <3>2 DEF zeroGWEI
  <2>5. QED
    BY <1>2, <2>4 DEF Loyalty, product
<1>3. QED
  BY <1>1, <1>2

(* Of amounts that are not negative, the loyalty is the three cuts.        *)
LEMMA LoyaltyCuts ==
    ASSUME weighted \in Nat, NEW cash \in Nat, NEW total \in Nat \ {0}
    PROVE  /\ Loyalty(cash, total) \in Nat
           /\ Loyalty(cash, total) % GWEI = 0
           /\ Loyalty(cash, total) * (total * 10000) <= weighted * cash
           /\ weighted * cash < (Loyalty(cash, total) + GWEI) * (total * 10000)
<1> DEFINE x == weighted * cash
<1>1. x \in Nat
  BY Product
<1>2. GWEI \in Nat \ {0}
  BY AmountAssumption
<1>3. CASE cash = 0
  <2>1. Loyalty(cash, total) = 0 /\ x = 0
    BY <1>3 DEF Loyalty
  <2>2. total * 10000 \in Nat \ {0}
    OBVIOUS
  <2>3. 0 % GWEI = 0
    BY <1>2
  <2>4. 1 * (total * 10000) <= GWEI * (total * 10000)
    BY <1>2, <2>2, Scaling
  <2>5. QED
    BY <1>2, <2>1, <2>2, <2>3, <2>4, SMT
<1>4. CASE cash # 0
  <2> DEFINE q == x \div total
             h == q \div 10000
             L == (h \div GWEI) * GWEI
  <2>1. q \in Nat /\ div(x, total) = q
    BY <1>1, DivNat
  <2>2. h \in Nat /\ div(q, 10000) = h
    <3> HIDE DEF q
    <3>1. QED BY <2>1, DivNat
  <2>3. h \div GWEI \in Nat /\ div(h, GWEI) = h \div GWEI
    <3>1. h \in Nat /\ GWEI \in Nat \ {0}
      BY <1>2, <2>2
    <3> HIDE DEF h
    <3>2. QED BY ONLY <3>1, DivNat
  <2>4. Loyalty(cash, total) = L
    BY <1>4, <2>1, <2>2, <2>3 DEF Loyalty, zeroGWEI
  <2>5. L \in Nat /\ L * (total * 10000) <= x /\ x < (L + GWEI) * (total * 10000)
    <3>1. x \in Nat /\ total \in Nat \ {0} /\ GWEI \in Nat \ {0}
      BY <1>1, <1>2
    <3> HIDE DEF x
    <3> DEFINE cut == Cut(x, total, GWEI)
    <3>2. cut \in Nat /\ cut * (total * 10000) <= x /\ x < (cut + GWEI) * (total * 10000)
      BY ONLY <3>1, ThreeCuts
    <3>3. cut = L
      BY DEF Cut
    <3> HIDE DEF cut, L
    <3>4. QED BY ONLY <3>2, <3>3
  <2>6. L % GWEI = 0
    <3> DEFINE k == h \div GWEI
    <3>1. k \in Nat
      BY <2>3
    <3> HIDE DEF k
    <3>2. (k * GWEI) % GWEI = 0
      BY <1>2, <3>1, SMT
    <3>3. QED
      BY <3>2 DEF k
  <2> HIDE DEF L, x
  <2>7. QED
    BY <2>4, <2>5, <2>6 DEF x
<1>5. QED
  BY <1>3, <1>4

----------------------------------------------------------------------------
(* The sums of the loop and what Price computes from them. `Sums' is what  *)
(* the loop over the details keeps, `Kept' what a priced purchase fixes.   *)
Sums ==
    /\ Unsigned => sum >= 0 /\ weighted >= 0
    /\ /\ Unsigned
       /\ \A i \in DOMAIN request.details : request.details[i].percent <= 10000
       => weighted <= sum * 10000

Kept ==
    /\ pc \in {"details", "total"} => totalAmount = 0 /\ cashAmount = 0
    /\ totalAmount \in {0, sum}
    /\ loyaltyValue = Loyalty(cashAmount, totalAmount)

IInv == NothingNegative /\ Sums /\ Kept

LEMMA InitIInv == Init => IInv
<1> SUFFICES ASSUME Init PROVE IInv
  OBVIOUS
<1>1. request \in Request
  BY PricingAssumption DEF Init
<1>2. NothingNegative
  <2>1. shown.sign = "empty" /\ shown.int = 0 /\ shown.digits = 0
    BY DEF Init, Empty
  <2>2. /\ pc = "details" /\ elem = 1 /\ sum = 0 /\ weighted = 0 /\ answer = ""
        /\ totalAmount = 0 /\ cashAmount = 0 /\ loyaltyValue = 0
    BY DEF Init
  <2>3. /\ elem \in Nat \ {0} /\ sum \in Int /\ weighted \in Int /\ totalAmount \in Int
        /\ cashAmount \in Nat /\ loyaltyValue \in Nat
        /\ shown.int \in Int /\ shown.digits \in Nat
    <3>1. 0 \in Nat /\ 0 \in Int /\ 1 \in Nat \ {0}
      OBVIOUS
    <3>2. QED
      BY ONLY <2>1, <2>2, <3>1, Zenon
  <2>4. shown.sign \in {"", "empty"} /\ answer \in {"", "0", "2004", "6000"}
        /\ pc \in {"details", "total", "message", "answered"}
    BY ONLY <2>1, <2>2
  <2>5. QED
    BY <1>1, <2>3, <2>4, Zenon DEF NothingNegative
<1>3. sum = 0 /\ weighted = 0 /\ totalAmount = 0 /\ cashAmount = 0 /\ loyaltyValue = 0
  BY DEF Init
<1>4. Sums
  BY <1>3 DEF Sums
<1>5. Kept
  BY <1>3 DEF Kept, Loyalty
<1>6. QED
  BY <1>2, <1>4, <1>5 DEF IInv

(* What a detail contributes. *)
LEMMA DetailType ==
    ASSUME NEW detail \in Detail
    PROVE  /\ make(detail.amount) \in Int
           /\ ProvidePercent(detail.percent) \in Int
           /\ ProvidePercent(detail.percent) <= detail.percent
           /\ detail.percent \in Int
           /\ detail.amount.sign # "-" => make(detail.amount) \in Nat
<1>1. detail.amount \in Text /\ detail.percent \in Int
  BY DEF Detail
<1>2. make(detail.amount) \in Int /\ (detail.amount.sign # "-" => make(detail.amount) \in Nat)
  BY <1>1, MakeType
<1>3. ProvidePercent(detail.percent) \in Int /\ ProvidePercent(detail.percent) <= detail.percent
  BY <1>1 DEF ProvidePercent
<1>4. QED
  BY <1>1, <1>2, <1>3

LEMMA ElementType ==
    ASSUME NEW S, NEW s \in Seq(S), NEW i \in Nat \ {0}, i <= Len(s)
    PROVE  i \in DOMAIN s /\ s[i] \in S
OBVIOUS

LEMMA ConvertKeeps == IInv /\ ConvertDetail => IInv'
<1> SUFFICES ASSUME IInv, ConvertDetail PROVE IInv'
  OBVIOUS
<1>1. NothingNegative /\ Sums /\ Kept
  BY DEF IInv
<1>2. elem \in Nat \ {0} /\ sum \in Int /\ weighted \in Int
  BY <1>1 DEF NothingNegative
<1>3. /\ pc = "details" /\ elem <= Len(request.details)
      /\ UNCHANGED <<request, totalAmount, cashAmount, loyaltyValue, shown>>
  BY DEF ConvertDetail, purchaseVars
<1> DEFINE detail == request.details[elem]
           amount == make(detail.amount)
           percent == ProvidePercent(detail.percent)
           share == amount * percent
<1>4. elem \in DOMAIN request.details /\ detail \in Detail
  <2>1. request.details \in Seq(Detail)
    BY <1>1 DEF NothingNegative, Request
  <2>2. QED
    BY ONLY <1>2, <1>3, <2>1, ElementType
<1>5. amount \in Int /\ percent \in Int /\ percent <= detail.percent /\ detail.percent \in Int
  BY <1>4, DetailType
<1>6. Unsigned => amount \in Nat /\ percent \in Nat
  BY <1>4, <1>5, DetailType DEF Unsigned
<1>7. Unsigned' <=> Unsigned
  BY <1>3 DEF Unsigned
<1>8. totalAmount = 0 /\ cashAmount = 0 /\ loyaltyValue = 0
  BY <1>1, <1>3 DEF Kept, Loyalty
<1>9. Kept'
  BY <1>3, <1>8 DEF Kept, Loyalty
<1>10. share \in Int
  BY <1>5
<1>11. \/ sum' = sum /\ weighted' = weighted
       \/ sum' = sum + amount /\ weighted' = weighted + share
  BY DEF ConvertDetail
<1>12. elem' \in {elem, elem + 1} /\ pc' \in {"details", "answered"}
       /\ answer' \in {answer, "6000"}
  BY <1>3 DEF ConvertDetail, Answer
<1>13. Unsigned => share \in Nat
  <2>1. ASSUME Unsigned PROVE share \in Nat
    BY <1>6, <2>1, Product
  <2>2. QED
    BY <2>1
<1>14. ASSUME Unsigned, \A i \in DOMAIN request.details : request.details[i].percent <= 10000
       PROVE  share <= 10000 * amount
  <2>1. percent <= 10000 /\ amount \in Nat /\ percent \in Nat
    BY <1>4, <1>5, <1>6, <1>14
  <2>2. percent * amount <= 10000 * amount
    BY ONLY <2>1, Scaling
  <2>3. percent * amount = share
    BY ONLY <2>1, SMT
  <2>4. QED
    BY ONLY <2>2, <2>3
<1> HIDE DEF share, amount, percent, detail
<1>15. sum' \in Int /\ weighted' \in Int
  BY ONLY <1>2, <1>5, <1>10, <1>11
<1>16. NothingNegative'
  <2>1. elem' \in Nat \ {0}
    BY ONLY <1>2, <1>12
  <2>2. answer' \in {"", "0", "2004", "6000"}
    BY <1>1, <1>12 DEF NothingNegative
  <2>3. request' \in Request /\ shown'.sign \in {"", "empty"} /\ shown'.int \in Int
        /\ shown'.digits \in Nat
    BY <1>1, <1>3 DEF NothingNegative
  <2>4. totalAmount' \in Int /\ cashAmount' \in Nat /\ loyaltyValue' \in Nat
    BY ONLY <1>3, <1>8
  <2>5. QED
    BY <1>12, <1>15, <2>1, <2>2, <2>3, <2>4 DEF NothingNegative
<1>17. Unsigned => sum' >= 0 /\ weighted' >= 0
  <2>1. Unsigned => sum >= 0 /\ weighted >= 0
    BY <1>1 DEF Sums
  <2>2. QED
    BY ONLY <1>2, <1>6, <1>11, <1>13, <2>1
<1>18. ASSUME Unsigned, \A i \in DOMAIN request.details : request.details[i].percent <= 10000
       PROVE  weighted' <= sum' * 10000
  <2>1. weighted <= sum * 10000
    BY <1>1, <1>18 DEF Sums
  <2>2. share <= 10000 * amount
    BY <1>14, <1>18
  <2>3. QED
    BY ONLY <1>2, <1>5, <1>10, <1>11, <2>1, <2>2
<1>19. Sums'
  <2>1. request' = request
    BY <1>3
  <2>2. QED
    BY <1>7, <1>17, <1>18, <2>1 DEF Sums
<1>20. QED
  BY <1>9, <1>16, <1>19 DEF IInv

(* An action that does not touch the request and the sums keeps Sums. *)
LEMMA SumsKept == Sums /\ UNCHANGED <<request, sum, weighted>> => Sums'
BY DEF Sums, Unsigned

LEMMA PriceKeeps == IInv /\ Price => IInv'
<1> SUFFICES ASSUME IInv, Price PROVE IInv'
  OBVIOUS
<1> DEFINE total == make(request.totalAmount)
           cash == make(request.cashAmount)
           loyalty == Loyalty(cash, total)
<1>1. NothingNegative /\ Sums /\ Kept
  BY DEF IInv
<1>2. total \in Int /\ cash \in Int
  <2>1. request.totalAmount \in Text /\ request.cashAmount \in Text
    BY <1>1 DEF NothingNegative, Request
  <2>2. QED
    BY <2>1, MakeType
<1>3. loyalty \in Int
  <2>1. weighted \in Int
    BY <1>1 DEF NothingNegative
  <2>2. QED
    BY <1>2, <2>1, LoyaltyType
<1>4. pc = "total" /\ UNCHANGED <<request, elem, sum, weighted, shown>>
  BY DEF Price
<1>5. Sums'
  BY <1>1, <1>4, SumsKept
<1>6. \/ UNCHANGED purchaseVars /\ pc' = "answered" /\ answer' \in {"2004", "6000"}
      \/ /\ Agrees(total) /\ Encodes(cash) /\ Encodes(loyalty)
         /\ totalAmount' = total /\ cashAmount' = cash /\ loyaltyValue' = loyalty
         /\ pc' = "message" /\ UNCHANGED answer
  BY DEF Price, Answer
<1>7. CASE UNCHANGED purchaseVars /\ pc' = "answered" /\ answer' \in {"2004", "6000"}
  <2>1. UNCHANGED <<totalAmount, cashAmount, loyaltyValue, sum, weighted>>
    BY <1>4, <1>7 DEF purchaseVars
  <2>2. Kept'
    BY <1>1, <1>7, <2>1 DEF Kept, Loyalty
  <2>3. NothingNegative'
    BY <1>1, <1>4, <1>7, <2>1 DEF NothingNegative
  <2>4. QED
    BY <1>5, <2>2, <2>3 DEF IInv
<1>8. CASE /\ Agrees(total) /\ Encodes(cash) /\ Encodes(loyalty)
           /\ totalAmount' = total /\ cashAmount' = cash /\ loyaltyValue' = loyalty
           /\ pc' = "message" /\ UNCHANGED answer
  <2>1. loyaltyValue' = Loyalty(cashAmount', totalAmount') /\ weighted' = weighted
    BY <1>4, <1>8
  <2>2. (loyaltyValue = Loyalty(cashAmount, totalAmount))'
    BY <2>1 DEF Loyalty
  <2> HIDE DEF total, cash, loyalty
  <2>3. total = sum /\ cash \in Nat /\ loyalty \in Nat
    BY <1>2, <1>3, <1>8 DEF Agrees, Encodes
  <2>4. Kept'
    BY <1>4, <1>8, <2>2, <2>3 DEF Kept
  <2>5. NothingNegative'
    BY <1>1, <1>2, <1>4, <1>8, <2>3 DEF NothingNegative
  <2>6. QED
    BY <1>5, <2>4, <2>5 DEF IInv
<1>9. QED
  BY <1>6, <1>7, <1>8

LEMMA AnnounceKeeps == IInv /\ Announce => IInv'
<1> SUFFICES ASSUME IInv, Announce PROVE IInv'
  OBVIOUS
<1>1. NothingNegative /\ Sums /\ Kept
  BY DEF IInv
<1>2. UNCHANGED <<request, elem, sum, weighted, totalAmount, cashAmount, loyaltyValue>>
      /\ pc' = "answered" /\ answer' \in {"0", "6000"}
  BY DEF Announce, Answer, purchaseVars
<1>3. Kept'
  BY <1>1, <1>2 DEF Kept, Loyalty
<1>4. Sums'
  BY <1>1, <1>2, SumsKept
<1>5. shown'.sign \in {"", "empty"} /\ shown'.int \in Int /\ shown'.digits \in Nat
  <2> DEFINE words == toDisplayString(loyaltyValue, precision)
  <2>1. words.sign = "" /\ words.digits \in Nat
    BY AmountAssumption, PricingAssumption DEF toDisplayString
  <2>2. words.int \in Int
    <3>1. Power(DECIMAL) \in Nat \ {0}
      <4>1. DECIMAL \in 0 .. MaxDigits
        BY AmountAssumption
      <4>2. QED
        BY <4>1, PowerType
    <3>2. loyaltyValue \in Nat
      BY <1>1 DEF NothingNegative
    <3>3. div(loyaltyValue, Power(DECIMAL)) \in Nat
      BY <3>1, <3>2, DivNat
    <3>4. QED
      BY <3>3 DEF toDisplayString
  <2>3. shown' = shown \/ shown' = words
    BY DEF Announce
  <2> HIDE DEF words
  <2>4. QED
    BY <1>1, <2>1, <2>2, <2>3 DEF NothingNegative
<1>6. NothingNegative'
  BY <1>1, <1>2, <1>5 DEF NothingNegative
<1>7. QED
  BY <1>3, <1>4, <1>6 DEF IInv

LEMMA NextKeeps == IInv /\ [Next]_vars => IInv'
<1> SUFFICES ASSUME IInv, [Next]_vars PROVE IInv'
  OBVIOUS
<1>1. CASE ConvertDetail
  BY <1>1, ConvertKeeps
<1>2. CASE EndDetails
  <2>1. NothingNegative /\ Sums /\ Kept
    BY DEF IInv
  <2>2. pc = "details" /\ pc' = "total"
        /\ UNCHANGED <<request, elem, sum, weighted, totalAmount, cashAmount,
                       loyaltyValue, shown, answer>>
    BY <1>2 DEF EndDetails, purchaseVars
  <2>3. NothingNegative'
    BY <2>1, <2>2 DEF NothingNegative
  <2>4. Kept'
    BY <2>1, <2>2 DEF Kept, Loyalty
  <2>5. QED
    BY <2>1, <2>2, <2>3, <2>4, SumsKept DEF IInv
<1>3. CASE Price
  BY <1>3, PriceKeeps
<1>4. CASE Announce
  BY <1>4, AnnounceKeeps
<1>5. CASE UNCHANGED vars
  <2>1. NothingNegative /\ Sums /\ Kept
    BY DEF IInv
  <2>2. UNCHANGED <<request, pc, elem, sum, weighted, totalAmount, cashAmount,
                    loyaltyValue, shown, answer>>
    BY <1>5 DEF vars, purchaseVars
  <2>3. NothingNegative'
    BY <2>1, <2>2 DEF NothingNegative
  <2>4. Kept'
    BY <2>1, <2>2 DEF Kept, Loyalty
  <2>5. QED
    BY <2>1, <2>2, <2>3, <2>4, SumsKept DEF IInv
<1>6. QED
  BY <1>1, <1>2, <1>3, <1>4, <1>5 DEF Next

LEMMA IInvAlways == Spec => []IInv
BY InitIInv, NextKeeps, PTL DEF Spec

(* Whatever the body of the request holds, every variable keeps its kind,   *)
(* and cash and loyalty are not negative: getPurchaseDataMessage.           *)
THEOREM NothingNegativeAlways == Spec => []NothingNegative
<1>1. IInv => NothingNegative
  BY DEF IInv
<1>2. QED
  BY <1>1, IInvAlways, PTL

(* For all amounts and percentages without a sign, the loyalty is the      *)
(* exact quotient rounded down to the unit: getLoyaltyInTransaction.       *)
THEOREM LoyaltyRoundsDownAlways == Spec => []LoyaltyRoundsDown
<1>1. IInv => LoyaltyRoundsDown
  <2> SUFFICES ASSUME IInv, Unsigned, totalAmount > 0 PROVE
        /\ loyaltyValue % GWEI = 0
        /\ loyaltyValue * (totalAmount * 10000) <= weighted * cashAmount
        /\ weighted * cashAmount < (loyaltyValue + GWEI) * (totalAmount * 10000)
    BY DEF LoyaltyRoundsDown
  <2>1. weighted \in Nat /\ cashAmount \in Nat /\ totalAmount \in Nat \ {0}
    <3>1. weighted \in Int /\ cashAmount \in Nat /\ totalAmount \in Int
      BY DEF IInv, NothingNegative
    <3>2. weighted >= 0
      BY DEF IInv, Sums
    <3>3. QED
      BY <3>1, <3>2
  <2>2. loyaltyValue = Loyalty(cashAmount, totalAmount)
    BY DEF IInv, Kept
  <2>3. QED
    BY <2>1, <2>2, LoyaltyCuts
<1>2. QED
  BY <1>1, IInvAlways, PTL

(* Because a purchase whose total differs from its details is refused, no  *)
(* loyalty exceeds the cash that was paid.                                 *)
THEOREM LoyaltyWithinCashAlways == Spec => []LoyaltyWithinCash
<1>1. IInv => LoyaltyWithinCash
  <2> SUFFICES ASSUME IInv, Unsigned,
                      \A i \in DOMAIN request.details : request.details[i].percent <= 10000
               PROVE  loyaltyValue <= cashAmount
    BY DEF LoyaltyWithinCash
  <2>1. /\ weighted \in Nat /\ cashAmount \in Nat /\ sum \in Nat
        /\ weighted <= sum * 10000
        /\ loyaltyValue = Loyalty(cashAmount, totalAmount)
        /\ loyaltyValue \in Nat
        /\ totalAmount \in {0, sum}
    <3>1. weighted \in Int /\ cashAmount \in Nat /\ sum \in Int /\ loyaltyValue \in Nat
      BY DEF IInv, NothingNegative
    <3>2. weighted >= 0 /\ sum >= 0 /\ weighted <= sum * 10000
      BY DEF IInv, Sums
    <3>3. loyaltyValue = Loyalty(cashAmount, totalAmount) /\ totalAmount \in {0, sum}
      BY DEF IInv, Kept
    <3>4. QED
      BY <3>1, <3>2, <3>3
  <2>2. CASE totalAmount = 0
    BY <2>1, <2>2 DEF Loyalty
  <2>3. CASE totalAmount # 0
    <3> DEFINE scale == totalAmount * 10000
    <3>1. totalAmount \in Nat \ {0} /\ scale \in Nat \ {0} /\ weighted <= scale
      BY <2>1, <2>3
    <3>2. loyaltyValue * scale <= weighted * cashAmount
      <4>1. Loyalty(cashAmount, totalAmount) * (totalAmount * 10000) <= weighted * cashAmount
        <5>1. weighted \in Nat /\ cashAmount \in Nat /\ totalAmount \in Nat \ {0}
          BY <2>1, <3>1
        <5>2. QED
          BY ONLY <5>1, LoyaltyCuts
      <4>2. QED
        BY ONLY <2>1, <4>1
    <3> HIDE DEF scale
    <3>3. weighted * cashAmount <= scale * cashAmount
      BY <2>1, <3>1, Scaling
    <3>4. CASE loyaltyValue > cashAmount
      <4>1. (cashAmount + 1) * scale <= loyaltyValue * scale
        BY <2>1, <3>1, <3>4, Scaling
      <4>2. (cashAmount + 1) * scale = scale * cashAmount + scale
        BY <2>1, <3>1, SMT
      <4>3. weighted * cashAmount \in Int /\ loyaltyValue * scale \in Int
            /\ scale * cashAmount \in Int
        BY <2>1, <3>1
      <4>4. FALSE
        BY <3>1, <3>2, <3>3, <4>1, <4>2, <4>3
      <4>5. QED
        BY <4>4
    <3>5. QED
      BY <2>1, <3>4
  <2>4. QED
    BY <2>2, <2>3
<1>2. QED
  BY <1>1, IInvAlways, PTL

----------------------------------------------------------------------------
(* A text of toDisplayString, read again: the value cut to a multiple of   *)
(* the unit of its last place.                                             *)
Place == IF precision < DECIMAL THEN Power(DECIMAL - precision) ELSE 1

LEMMA DisplayCuts ==
    ASSUME NEW value \in Nat
    PROVE  LET text == toDisplayString(value, precision)
           IN  /\ Place \in Nat \ {0} /\ make(text) \in Nat
               /\ make(text) <= value /\ value < make(text) + Place
<1> DEFINE text == toDisplayString(value, precision)
           P == Power(DECIMAL)
           share == div(value, P)
           kept == IF precision < DECIMAL THEN precision ELSE DECIMAL
           K == Power(DECIMAL - kept)
           rest == value - share * P
           q == rest \div K
<1>1. /\ DECIMAL \in 0 .. MaxDigits /\ kept \in Nat /\ kept <= DECIMAL
      /\ DECIMAL - kept \in 0 .. MaxDigits
  BY AmountAssumption, PricingAssumption
<1>2. P \in Nat \ {0} /\ K \in Nat \ {0}
  <2> HIDE DEF kept
  <2>1. QED BY <1>1, PowerType
<1>3. K = Place
  <2>1. CASE precision < DECIMAL
    BY <2>1 DEF Place
  <2>2. CASE ~ (precision < DECIMAL)
    <3>1. DECIMAL - kept = 0
      BY <1>1, <2>2, AmountAssumption
    <3>2. Power(0) = 1
      BY DEF Power
    <3>3. QED
      BY <2>2, <3>1, <3>2 DEF Place
  <2>3. QED
    BY <2>1, <2>2
<1>4. text = [sign |-> "", int |-> share, digits |-> kept, frac |-> q]
  BY DEF toDisplayString
<1>5. share \in Nat /\ share * P <= value
  <2>1. share = value \div P
    BY <1>2, DivNat
  <2> HIDE DEF P
  <2>2. QED
    BY <1>2, <2>1, Division
<1>6. share * P \in Nat /\ rest \in Nat
  <2> HIDE DEF share, P
  <2>1. share * P \in Nat
    BY <1>2, <1>5, Product
  <2>2. QED
    BY <1>5, <2>1
<1>7. q \in Nat /\ q * K <= rest /\ rest < (q + 1) * K
  <2> HIDE DEF rest, K
  <2>1. QED BY <1>2, <1>6, Division
<1>8. make(text) = share * P + q * K
  <2> HIDE DEF text, q, rest, share, kept
  <2>1. text.int = share /\ text.digits = kept /\ text.frac = q
    BY ONLY <1>4, Zenon
  <2>2. text.sign # "-" /\ text.sign # "empty"
    BY ONLY <1>4, Zenon
  <2>3. Integral(text) = share * P
    BY ONLY <2>1, <2>2, Zenon DEF Integral
  <2>4. Fraction(text) = q * K
    <3>1. ~ (text.digits > DECIMAL)
      BY <1>1, <2>1, AmountAssumption
    <3>2. QED
      BY ONLY <2>1, <3>1, Zenon DEF Fraction
  <2>5. QED
    BY ONLY <2>2, <2>3, <2>4, Zenon DEF make
<1> DEFINE whole == share * P
           fraction == q * K
<1>9. whole \in Nat /\ fraction \in Nat /\ rest = value - whole
      /\ fraction <= rest /\ rest < fraction + K
  <2>1. (q + 1) * K = q * K + K
    <3> HIDE DEF q, K
    <3>1. QED BY <1>2, <1>7, SMT
  <2>2. q * K \in Nat
    <3> HIDE DEF q, K
    <3>1. QED BY <1>2, <1>7, Product
  <2>3. QED
    BY ONLY <1>6, <1>7, <2>1, <2>2
<1> HIDE DEF whole, fraction, rest, K, text
<1>10. make(text) = whole + fraction
  BY <1>8 DEF whole, fraction
<1>11. make(text) \in Nat /\ make(text) <= value /\ value < make(text) + K
  BY ONLY <1>2, <1>9, <1>10, value \in Nat
<1>12. QED
  BY <1>2, <1>3, <1>11 DEF text

(* The message is made once, in the step that answers, and from then on    *)
(* the loyalty does not change.                                            *)
Said == shown = Empty
        \/ (pc = "answered" /\ shown = toDisplayString(loyaltyValue, precision))

LEMMA SaidAlways == Spec => []Said
<1>1. Init => Said
  BY DEF Init, Said
<1>2. Said /\ [Next]_vars => Said'
  <2> SUFFICES ASSUME Said, [Next]_vars PROVE Said'
    OBVIOUS
  <2>1. CASE ConvertDetail
    BY <2>1 DEF ConvertDetail, Said, purchaseVars, Empty
  <2>2. CASE EndDetails
    BY <2>2 DEF EndDetails, Said, Empty
  <2>3. CASE Price
    BY <2>3 DEF Price, Said, Empty
  <2>4. CASE Announce
    <3>1. pc' = "answered" /\ UNCHANGED loyaltyValue /\ shown = Empty
      BY <2>4 DEF Announce, Answer, purchaseVars, Said
    <3>2. shown' = shown \/ shown' = toDisplayString(loyaltyValue, precision)
      BY <2>4 DEF Announce
    <3>3. shown' = Empty \/ shown' = toDisplayString(loyaltyValue, precision)'
      BY <3>1, <3>2 DEF toDisplayString, div, Absolute
    <3>4. Empty' = Empty
      BY DEF Empty
    <3>5. QED
      BY <3>1, <3>3, <3>4 DEF Said
  <2>5. CASE UNCHANGED vars
    BY <2>5 DEF vars, purchaseVars, Said, toDisplayString, div, Absolute, Empty
  <2>6. QED
    BY <2>1, <2>2, <2>3, <2>4, <2>5 DEF Next
<1>3. QED
  BY <1>1, <1>2, PTL DEF Spec

(* What the message to the customer spells is the loyalty that is signed   *)
(* and stored, cut at the precision of the points: toDisplayString drops   *)
(* no leading zero of the fraction and rounds nothing up.                  *)
THEOREM MessageNamesLoyaltyAlways == Spec => []MessageNamesLoyalty
<1>1. NothingNegative /\ Said => MessageNamesLoyalty
  <2> SUFFICES ASSUME NothingNegative, Said, shown # Empty PROVE
        /\ make(shown) <= loyaltyValue
        /\ \/ precision >= DECIMAL /\ make(shown) = loyaltyValue
           \/ /\ precision < DECIMAL
              /\ loyaltyValue < make(shown) + Power(DECIMAL - precision)
    BY DEF MessageNamesLoyalty
  <2>1. loyaltyValue \in Nat
    BY DEF NothingNegative
  <2>2. /\ Place \in Nat \ {0} /\ make(shown) \in Nat
        /\ make(shown) <= loyaltyValue /\ loyaltyValue < make(shown) + Place
    <3>1. shown = toDisplayString(loyaltyValue, precision)
      BY DEF Said
    <3>2. QED
      BY <2>1, <3>1, DisplayCuts
  <2>3. CASE precision < DECIMAL
    BY <2>2, <2>3 DEF Place
  <2>4. CASE ~ (precision < DECIMAL)
    <3>1. precision >= DECIMAL
      BY <2>4, AmountAssumption, PricingAssumption
    <3>2. Place = 1
      BY <2>4 DEF Place
    <3>3. QED
      BY <2>1, <2>2, <3>1, <3>2
  <2>5. QED
    BY <2>3, <2>4
<1>2. QED
  BY <1>1, NothingNegativeAlways, SaidAlways, PTL
============================================================================
