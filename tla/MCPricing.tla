----------------------------- MODULE MCPricing -----------------------------
(***************************************************************************)
(* Requests with one or two details; values have two places.               *)
(***************************************************************************)
EXTENDS Pricing

Number(sign, int, digits, frac) ==
    [sign |-> sign, int |-> int, digits |-> digits, frac |-> frac]

(* 0.05, 1.5, 2, 0.129 (a digit too many), -1.5, "" and a word             *)
DetailAmounts ==
    {Number("", 0, 2, 5), Number("", 1, 1, 5), Number("", 2, 0, 0),
     Number("", 0, 3, 129), Number("-", 1, 1, 5), Empty, Number("?", 0, 0, 0)}

(* 0.29 (whose double is below it), 5 and 100 per cent, and a negative one  *)
Percents == {29, 500, 10000, -500}

DetailSet ==
    [shape : {"whole"}, amount : DetailAmounts, numeric : {TRUE}, percent : Percents]
    \cup {[shape |-> shape, amount |-> Number("", 2, 0, 0), numeric |-> FALSE, percent |-> 0] :
              shape \in {"null", "partial", "whole"}}

TotalAmounts ==
    {Number("", 0, 2, 5), Number("", 1, 1, 5), Number("", 1, 2, 55),
     Number("", 3, 1, 5), Number("", 0, 2, 10), Number("", 0, 3, 129),
     Number("", 4, 0, 0), Number("-", 0, 1, 5), Number("-", 2, 0, 0)}

CashAmounts ==
    {Number("", 0, 0, 0), Number("", 0, 2, 99), Number("", 3, 0, 0),
     Number("+", 1, 0, 0), Number("-", 2, 0, 0)}

PurchaseRequests ==
    [details : {<<d>> : d \in DetailSet} \cup {<<d, e>> : d, e \in DetailSet},
     totalAmount : TotalAmounts, cashAmount : CashAmounts]

InexactHundredths == {29}
============================================================================
