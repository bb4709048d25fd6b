---------------------------- MODULE Transaction ----------------------------
(***************************************************************************)
(* Transactions of packages/sdk/src/modules/blockchain/data: their hashes, *)
(* signatures and JSON. A transaction is a record with the fields of the   *)
(* class; strings are texts. A JSON value is a record whose only field     *)
(* tells its kind: digits, hex and text are strings, a number is a number, *)
(* elements an array, members an object, other anything but a string.      *)
(***************************************************************************)
EXTENDS Serialization, SequencesExt

TypeNew == 0
TypeCancel == 1

(* A signature: who made it over the hash of what; "" before.              *)
NotSigned == [by |-> "", over |-> <<>>]

NumberFields == {"sequence", "timestamp", "waiting"}
AmountFields == {"totalAmount", "cashAmount", "loyalty", "amount", "providePercent"}
SignatureFields == {"signature", "purchaseSignature"}

BigNumber == {value \in Int : value < Span[MaxBytes]}

(* The product id is what the request has there, String() is not called.   *)
Detail == [productId : Texts \cup OtherIds, amount : BigNumber, providePercent : BigNumber]

(* What the handlers make of a request's parameters.                       *)
PurchaseOrder ==
    [purchaseId : Texts, timestamp : Int, waiting : Int,
     totalAmount : BigNumber, cashAmount : BigNumber, loyalty : BigNumber,
     currency : Texts, shopId : Texts, userAccount : Texts, userPhoneHash : Texts,
     details : Seq(Detail), sender : Texts]

CancelOrder == [purchaseId : Texts, timestamp : Int, waiting : Int, sender : Texts]

NewTransaction(sequence, order, purchaseSignature, signer) ==
    [type |-> TypeNew, sequence |-> sequence, purchaseId |-> order.purchaseId,
     timestamp |-> order.timestamp, waiting |-> order.waiting,
     totalAmount |-> order.totalAmount, cashAmount |-> order.cashAmount,
     loyalty |-> order.loyalty, currency |-> order.currency, shopId |-> order.shopId,
     userAccount |-> order.userAccount, userPhoneHash |-> order.userPhoneHash,
     details |-> order.details, sender |-> order.sender,
     purchaseSignature |-> purchaseSignature, signer |-> signer, signature |-> NotSigned]

CancelTransaction(sequence, order, signer) ==
    [type |-> TypeCancel, sequence |-> sequence, purchaseId |-> order.purchaseId,
     timestamp |-> order.timestamp, waiting |-> order.waiting, sender |-> order.sender,
     signer |-> signer, signature |-> NotSigned]

----------------------------------------------------------------------------
(* Hashes: the fields in the order computeHash writes them.                *)
HashedNew ==
    <<"type", "sequence", "purchaseId", "timestamp", "waiting", "totalAmount",
      "cashAmount", "loyalty", "currency", "shopId", "userAccount",
      "userPhoneHash", "sender", "signer">>

HashedCancel ==
    <<"type", "sequence", "purchaseId", "timestamp", "waiting", "sender", "signer">>

HashedDetail == <<"productId", "amount", "providePercent">>

hashPart(object, field) ==
    IF field \in NumberFields \cup {"type"} THEN hashNumber(object[field])
    ELSE IF field \in AmountFields THEN hashBigNumber(object[field])
    ELSE IF object[field] \in OtherIds THEN Raw[object[field]]
    ELSE hashText(object[field])

hashParts(object, fields) ==
    FlattenSeq([i \in DOMAIN fields |-> hashPart(object, fields[i])])

hashDetails(details) ==
    hashNumber(Len(details))
    \o FlattenSeq([i \in DOMAIN details |-> hashParts(details[i], HashedDetail)])

computeHash_NoSequence(tx) ==
    IF tx.type = TypeNew
    THEN hashParts(tx, SelectSeq(HashedNew, LAMBDA f : f # "sequence")) \o hashDetails(tx.details)
    ELSE hashParts(tx, SelectSeq(HashedCancel, LAMBDA f : f # "sequence"))

computeHash_NoWaiting(tx) ==
    IF tx.type = TypeNew
    THEN hashParts(tx, SelectSeq(HashedNew, LAMBDA f : f # "waiting")) \o hashDetails(tx.details)
    ELSE hashParts(tx, SelectSeq(HashedCancel, LAMBDA f : f # "waiting"))

computeHash(tx) ==
    IF tx.type = TypeNew
    THEN hashParts(tx, HashedNew) \o hashDetails(tx.details)
    ELSE hashParts(tx, HashedCancel)

(* hashFull throws for a sequence, timestamp or waiting out of range, and  *)
(* for a product id that is a number but no unsigned integer.              *)
Hashable(tx) ==
    /\ \A field \in NumberFields : Writes(tx[field])
    /\ tx.type = TypeNew => \A i \in DOMAIN tx.details :
                               tx.details[i].productId \in Texts \cup DOMAIN Raw

hashFull(tx) == [sha |-> computeHash(tx)]

(* verifyMessage: whoever signed this hash; another hash recovers to an    *)
(* address nobody has.                                                     *)
verifyMessage(hash, signature) ==
    IF hash.sha = signature.over THEN signature.by ELSE "nobody"

(* The signer is set before the hash that covers it is computed.           *)
sign_HashFirst(tx, wallet) ==
    [tx EXCEPT !.signer = wallet,
               !.signature = [by |-> wallet, over |-> computeHash(tx)]]

sign(tx, wallet) ==
    LET named == [tx EXCEPT !.signer = wallet]
    IN [named EXCEPT !.signature = [by |-> wallet, over |-> computeHash(named)]]

verify(tx) == verifyMessage(hashFull(tx), tx.signature) = tx.signer

(* What the contract of the loyalty is told; getPurchaseDataMessage makes  *)
(* the message for the second signature of the same data.                  *)
getPurchaseData(tx) ==
    [purchaseId |-> tx.purchaseId, amount |-> tx.cashAmount,
     loyalty |-> tx.loyalty, currency |-> tx.currency, shopId |-> tx.shopId,
     account |-> tx.userAccount, phone |-> tx.userPhoneHash, sender |-> tx.sender]

----------------------------------------------------------------------------
(* JSON *)
FieldJSON(field, value) ==
    IF field \in NumberFields \cup AmountFields THEN [digits |-> value]
    ELSE IF field \in SignatureFields THEN [hex |-> value]
    ELSE IF field = "type" THEN [number |-> value]
    ELSE IF value \in OtherIds THEN [other |-> value]
    ELSE [text |-> value]

detailJSON(detail) ==
    [members |-> [field \in DOMAIN detail |-> FieldJSON(field, detail[field])]]

toJSON(tx) ==
    [members |->
        [field \in DOMAIN tx |->
            IF field = "details"
            THEN [elements |-> [i \in DOMAIN tx.details |-> detailJSON(tx.details[i])]]
            ELSE FieldJSON(field, tx[field])]]

Kind(json) ==
    IF DOMAIN json = {"number"} THEN "number"
    ELSE IF DOMAIN json = {"elements"} THEN "array"
    ELSE IF DOMAIN json = {"members"} THEN "object"
    ELSE IF DOMAIN json = {"other"} THEN "other"
    ELSE "string"

(* The schemas of JSONValidator.ts: the kinds of all properties, and those *)
(* that must be there.                                                     *)
Properties(fields) ==
    [field \in fields |->
        IF field = "type" THEN "number" ELSE IF field = "details" THEN "array" ELSE "string"]

NewSchema ==
    [properties |-> Properties({HashedNew[i] : i \in DOMAIN HashedNew}
                               \cup {"details"} \cup SignatureFields),
     required |-> ({HashedNew[i] : i \in DOMAIN HashedNew} \ {"waiting", "loyalty"})
        \cup {"details", "signature"}]

CancelSchema ==
    [properties |-> Properties({HashedCancel[i] : i \in DOMAIN HashedCancel} \cup {"signature"}),
     required |-> ({HashedCancel[i] : i \in DOMAIN HashedCancel} \ {"waiting"})
        \cup {"signature"}]

DetailSchema ==
    [properties |-> Properties({"productId", "amount", "providePercent"}),
     required |-> {"productId", "amount", "providePercent"}]

isValid(schema, json) ==
    /\ DOMAIN json.members \subseteq DOMAIN schema.properties
    /\ schema.required \subseteq DOMAIN json.members
    /\ \A field \in DOMAIN json.members :
           Kind(json.members[field]) = schema.properties[field]

FieldValue(json) == json[CHOOSE kind \in DOMAIN json : TRUE]

RevivesDetail(json) == isValid(DetailSchema, json)

(* BigInt and BigNumber.from throw at what the schemas let be missing.     *)
Revives(json) ==
    IF json.members.type.number = TypeNew
    THEN /\ isValid(NewSchema, json)
         /\ {"waiting", "loyalty"} \subseteq DOMAIN json.members
         /\ \A i \in DOMAIN json.members.details.elements :
                RevivesDetail(json.members.details.elements[i])
    ELSE /\ isValid(CancelSchema, json)
         /\ "waiting" \in DOMAIN json.members

reviveDetail(json) ==
    [field \in DOMAIN json.members |-> FieldValue(json.members[field])]

reviver(json) ==
    [field \in DOMAIN json.members |->
        IF field = "details"
        THEN [i \in DOMAIN json.members.details.elements |->
                 reviveDetail(json.members.details.elements[i])]
        ELSE FieldValue(json.members[field])]

(* The type of one of the two classes.                                     *)
Known(json) == json.members.type.number \in {TypeNew, TypeCancel}
============================================================================
