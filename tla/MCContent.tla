----------------------------- MODULE MCContent -----------------------------
(***************************************************************************)
(* Texts of one to four bytes of six values, so that lengths of one and of *)
(* two bytes occur. "a\b" is read back as "ab", and "a", a tab and "b" as   *)
(* "atb"; "q" holds a quotation mark. The product id #7 is a number, of    *)
(* which all bytes are hashed, and #null is hashed as nothing; #-1 cannot  *)
(* be hashed.                                                              *)
(***************************************************************************)
EXTENDS Content, TLC

TextBytes ==
    ("a" :> <<1>>) @@ ("ab" :> <<1, 2>>) @@ ("a\\b" :> <<1, 5, 2>>) @@ ("q" :> <<3>>)
    @@ ("shop" :> <<4, 1, 2, 0>>) @@ ("kiosk" :> <<2, 2>>) @@ ("publisher" :> <<2>>)
    @@ ("a\tb" :> <<1, 0, 2>>) @@ ("atb" :> <<1, 4, 2>>)

RawBytes == ("#7" :> <<1, 1, 0, 0, 0>>) @@ ("#null" :> <<>>)

RereadTexts ==
    [text \in DOMAIN TextBytes |->
        CASE text = "a\\b" -> "ab" [] text = "a\tb" -> "atb" [] OTHER -> text]

Order(purchaseId, total, cash, loyalty, details) ==
    [purchaseId |-> purchaseId, timestamp |-> 5, waiting |-> 1,
     totalAmount |-> total, cashAmount |-> cash, loyalty |-> loyalty,
     currency |-> "a", shopId |-> "shop", userAccount |-> "ab",
     userPhoneHash |-> "shop", details |-> details, sender |-> "kiosk"]

DetailOf(productId, amount, percent) ==
    [productId |-> productId, amount |-> amount, providePercent |-> percent]

(* Two details; a backslash and a tab; a quotation mark in a detail; a     *)
(* total below 0; product ids that are no texts.                           *)
PurchaseOrders ==
    {Order("a", 8, 7, 1, <<DetailOf("a", 2, 5), DetailOf("ab", 6, 7)>>),
     Order("a\\b", 8, 8, 0, <<DetailOf("a\tb", 8, 0)>>),
     Order("ab", 1, 1, 0, <<DetailOf("q", 1, 5)>>),
     Order("ab", -3, 0, 0, <<DetailOf("a", -3, 5)>>),
     Order("ab", 2, 2, 0, <<DetailOf("#null", 1, 5), DetailOf("#7", 1, 5)>>),
     Order("ab", 2, 2, 0, <<DetailOf("#-1", 2, 5)>>)}

(* Around the bounds at which an amount takes another byte, and the        *)
(* extremes.                                                               *)
Numbers == {0, 1, 5, 6, 7775}

Amounts == {0, 1, 5, 6, 36, 1295}

(* A timestamp may be numeric and negative.                                *)
CancelOrders ==
    [purchaseId : {"ab"}, timestamp : {5, -1}, waiting : {1}, sender : {"kiosk"}]

----------------------------------------------------------------------------
(* The bytes in front of a text say how many follow, also at the bounds    *)
(* where one, two, four and more bytes begin.                              *)
ReadNumber(bytes) == FoldLeft(LAMBDA value, byte : value * Byte + byte, 0, Reverse(bytes))

ReadVarInt(bytes) ==
    IF bytes[1] <= Byte - 4 THEN bytes[1] ELSE ReadNumber(Tail(bytes))

ASSUME VarIntIsRead ==
    \A value \in 0 .. 1400 :
        LET bytes == hashVarInt(value)
        IN /\ ReadVarInt(bytes) = value
           /\ Len(bytes) = CASE bytes[1] = Byte - 3 -> 3
                              [] bytes[1] = Byte - 2 -> 5
                              [] bytes[1] = Byte - 1 -> 1 + Wide
                              [] OTHER -> 1
============================================================================
