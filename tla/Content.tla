------------------------------ MODULE Content ------------------------------
(***************************************************************************)
(* What a transaction becomes on its way from the request to the document  *)
(* on IPFS: it is signed, written as JSON into table txs, read back, put   *)
(* into a block whose header holds the root of a Merkle tree, and published*)
(* as JSON again, from which a reader revives it. Modules Node and Router  *)
(* have the awaits in between and their failures.                          *)
(***************************************************************************)
EXTENDS Transaction, Merkle, FiniteSets

CONSTANTS
    Purchases,      \* what can be made from a request to /purchase/new
    Cancellations,  \* and to /purchase/cancel
    Reread,         \* text -> what its JSON without backslashes is read as
    Quoted,         \* texts whose JSON does not parse without backslashes
    OtherNumbers,   \* what a sequence, timestamp or waiting is changed to,
    OtherAmounts,   \* and an amount (SignatureBinds)
    publisher,      \* address of the server's wallet
    max_txs,        \* config.node.max_txs
    Times,          \* Utils.getTimeStampBigInt()
    MaxSequence     \* bound: transactions

(* "nobody" is what verifyMessage recovers from another hash. Numbers are  *)
(* changed to any that can be hashed, amounts to any not below 0.          *)
ASSUME ContentAssumption ==
    /\ Purchases \subseteq PurchaseOrder /\ Cancellations \subseteq CancelOrder
    /\ Reread \in [Texts -> Texts] /\ Quoted \subseteq Texts
    /\ OtherNumbers \subseteq 0 .. Span[Wide] - 1
    /\ OtherAmounts \subseteq BigNumber \cap Nat
    /\ publisher \in Texts /\ "nobody" \notin Texts
    /\ max_txs \in Nat \ {0} /\ Times \subseteq Nat /\ MaxSequence \in Nat

VARIABLES
    txs_sequence,
    rows,           \* table txs: sequence -> [contents, hash]
    accepted,       \* sequence -> the transaction that was signed
    prev_hash, prev_height,
    documents       \* the published texts of blocks, the oldest first

vars == <<txs_sequence, rows, accepted, prev_hash, prev_height, documents>>

Nothing == [sequence \in {} |-> {}]

Init ==
    /\ txs_sequence = 0
    /\ rows = Nothing /\ accepted = Nothing
    /\ prev_hash = NullHash /\ prev_height = 0
    /\ documents = <<>>

(* DBTransaction.make                                                      *)
make(tx) == [contents |-> toJSON(tx), hash |-> hashFull(tx)]

With(function, x, value) ==
    [y \in DOMAIN function \cup {x} |-> IF y = x THEN value ELSE function[y]]

(* A transaction is signed and stored; one with a number out of range      *)
(* throws at the hash, when its sequence has been taken.                   *)
Store(tx) ==
    /\ txs_sequence' = tx.sequence
    /\ IF Hashable(tx)
       THEN LET signed == sign(tx, publisher)
            IN /\ accepted' = With(accepted, tx.sequence, signed)
               /\ rows' = With(rows, tx.sequence, make(signed))
       ELSE UNCHANGED <<accepted, rows>>
    /\ UNCHANGED <<prev_hash, prev_height, documents>>

postNewPurchase ==
    /\ txs_sequence < MaxSequence
    /\ \E order \in Purchases :
           LET unsigned == NewTransaction(txs_sequence + 1, order, NotSigned, publisher)
           IN Store([unsigned EXCEPT !.purchaseSignature =
                        [by |-> publisher, over |-> getPurchaseData(unsigned)]])

(* The parameters sender and signer of the constructor are given the       *)
(* publisher and the sender of the access key; sign replaces the signer.   *)
postCancelPurchase ==
    /\ txs_sequence < MaxSequence
    /\ \E order \in Cancellations :
           Store(CancelTransaction(txs_sequence + 1,
                                   [order EXCEPT !.sender = publisher], order.sender))

----------------------------------------------------------------------------
(* selectTxByLength reads the first rows and takes the backslashes out of  *)
(* contents. The library that fills in the statements put one before each  *)
(* quotation mark; those JSON.stringify wrote are lost as well: a backslash*)
(* disappears from a text, a tab or a newline is left as t or n, and a text*)
(* with a quotation mark is taken as one that no longer parses.            *)
TextsIn(members) ==
    {members[f].text : f \in {g \in DOMAIN members : DOMAIN members[g] = {"text"}}}

AllTexts(json) ==
    TextsIn(json.members)
    \cup IF "details" \in DOMAIN json.members
         THEN UNION {TextsIn(json.members.details.elements[i].members) :
                        i \in DOMAIN json.members.details.elements}
         ELSE {}

Parses(json) == AllTexts(json) \cap Quoted = {}

StripTexts(members) ==
    [f \in DOMAIN members |->
        IF DOMAIN members[f] = {"text"} THEN [text |-> Reread[members[f].text]]
        ELSE members[f]]

Stripped(json) ==
    LET members == StripTexts(json.members)
    IN [members |->
           IF "details" \in DOMAIN members
           THEN [members EXCEPT !.details.elements =
                    [i \in DOMAIN @ |-> [members |-> StripTexts(@[i].members)]]]
           ELSE members]

(* The numbers of a set, from the lowest to the highest.                   *)
InOrder(numbers) ==
    [i \in 1 .. Cardinality(numbers) |->
        CHOOSE n \in numbers : Cardinality({m \in numbers : m < n}) = i - 1]

selectTxByLength(length) ==
    LET sequences == InOrder(DOMAIN rows)
    IN SubSeq(sequences, 1, IF Len(sequences) < length THEN Len(sequences) ELSE length)

(* Elements of other types are passed over; Block.reviver has this loop too*)
converterTxArray(contents) ==
    LET known == InOrder({i \in DOMAIN contents : Known(contents[i])})
    IN [i \in DOMAIN known |-> reviver(contents[known[i]])]

----------------------------------------------------------------------------
(* Blocks *)
HeaderHash(header) ==
    [prevBlock |-> header.prevBlock, merkleRoot |-> header.merkleRoot,
     sha |-> hashNumber(header.height) \o hashNumber(header.timestamp)]

createBlock(prevHash, prevHeight, txs, now) ==
    LET merkleTree == buildMerkleTree([i \in DOMAIN txs |-> hashFull(txs[i])])
    IN [header |-> [prevBlock |-> prevHash, merkleRoot |-> Last(merkleTree),
                    height |-> prevHeight + 1, timestamp |-> now],
        txs |-> txs, merkleTree |-> merkleTree]

(* JSON.stringify(block)                                                   *)
BlockJSON(block) ==
    [members |->
        [header |-> [members |->
            [prevBlock |-> [hex |-> block.header.prevBlock],
             merkleRoot |-> [hex |-> block.header.merkleRoot],
             height |-> [digits |-> block.header.height],
             timestamp |-> [digits |-> block.header.timestamp]]],
         txs |-> [elements |-> [i \in DOMAIN block.txs |-> toJSON(block.txs[i])]],
         merkleTree |-> [elements |->
            [i \in DOMAIN block.merkleTree |-> [hex |-> block.merkleTree[i]]]]]]

BlockSchema ==
    [properties |-> [header |-> "object", txs |-> "array", merkleTree |-> "array"],
     required |-> {"header", "txs", "merkleTree"}]

HeaderSchema ==
    [properties |-> Properties({"prevBlock", "merkleRoot", "height", "timestamp"}),
     required |-> {"prevBlock", "merkleRoot", "height", "timestamp"}]

RevivesBlock(json) ==
    /\ isValid(BlockSchema, json)
    /\ isValid(HeaderSchema, json.members.header)
    /\ \A i \in DOMAIN json.members.txs.elements :
           Known(json.members.txs.elements[i]) => Revives(json.members.txs.elements[i])

(* Block.reviver: neither the tree nor the root is compared with the       *)
(* transactions.                                                           *)
reviveHeader(json) ==
    [field \in DOMAIN json.members |-> FieldValue(json.members[field])]

reviveBlock(json) ==
    LET tree == json.members.merkleTree.elements
    IN [header |-> reviveHeader(json.members.header),
        txs |-> converterTxArray(json.members.txs.elements),
        merkleTree |-> [i \in DOMAIN tree |-> tree[i].hex]]

(* DELETE FROM txs WHERE "hash" = ..., for each of the rows                *)
remove(sequences) ==
    LET hashes == {rows[sequences[i]].hash : i \in DOMAIN sequences}
    IN rows' = [s \in {t \in DOMAIN rows : rows[t].hash \notin hashes} |-> rows[s]]

(* Node.work; it throws when one of the texts cannot be parsed or revived. *)
work ==
    LET sequences == selectTxByLength(max_txs)
        contents == [i \in DOMAIN sequences |-> Stripped(rows[sequences[i]].contents)]
    IN /\ sequences # <<>>
       /\ \A i \in DOMAIN sequences : Parses(rows[sequences[i]].contents)
       /\ \A i \in DOMAIN contents : Known(contents[i]) => Revives(contents[i])
       /\ \E now \in Times :
              LET block == createBlock(prev_hash, prev_height, converterTxArray(contents), now)
              IN /\ documents' = Append(documents, BlockJSON(block))
                 /\ prev_hash' = HeaderHash(block.header)
                 /\ prev_height' = block.header.height
       /\ remove(sequences)
       /\ UNCHANGED <<txs_sequence, accepted>>

Next == postNewPurchase \/ postCancelPurchase \/ work

Spec == Init /\ [][Next]_vars

----------------------------------------------------------------------------
(* JSON.stringify writes the texts of tx without a backslash: none has a   *)
(* backslash, a quotation mark or a control character.                     *)
Plain(tx) == \A text \in AllTexts(toJSON(tx)) : text \notin Quoted /\ Reread[text] = text

Published == {reviveBlock(documents[i]) : i \in DOMAIN documents}

(* A reader can revive every document, follow the chain of headers, and    *)
(* finds the transactions as they were signed, both signatures good, unless*)
(* JSON.stringify wrote a backslash in a text, which selectTxByLength takes*)
(* away (a text with a backslash, a tab, a newline): then it finds another *)
(* text, and the signature is not good.                                    *)
PublishedIsAccepted ==
    \A i \in DOMAIN documents :
        /\ RevivesBlock(documents[i])
        /\ LET block == reviveBlock(documents[i])
           IN /\ block.header.prevBlock =
                     IF i = 1 THEN NullHash
                     ELSE HeaderHash(reviveBlock(documents[i - 1]).header)
              /\ \A j \in DOMAIN block.txs :
                     LET tx == block.txs[j]
                     IN Plain(accepted[tx.sequence]) =>
                            /\ tx = accepted[tx.sequence]
                            /\ verify(tx)
                            /\ tx.type = TypeNew =>
                                   tx.purchaseSignature.over = getPurchaseData(tx)

(* Root of a tree built level by level, the last node of an odd level      *)
(* paired with itself.                                                     *)
Above(level) ==
    [i \in 1 .. Half(Len(level)) |->
        hashMulti(level[2 * i - 1], level[IF 2 * i <= Len(level) THEN 2 * i ELSE Len(level)])]

Root(leaves) ==
    LET level[k \in 0 .. Len(leaves)] == IF k = 0 THEN leaves ELSE Above(level[k - 1])
        top == CHOOSE k \in 1 .. Len(leaves) :
                   Len(level[k]) = 1 /\ \A j \in 1 .. k - 1 : Len(level[j]) > 1
    IN level[top][1]

TreeIsReference ==
    \A n \in 1 .. 3 * max_txs :
        LET list == [i \in 1 .. n |-> [leaf |-> i]]
        IN Last(buildMerkleTree(list)) = Root(list)

(* The flat tree of buildMerkleTree ends with the root of the tree built   *)
(* level by level, for every shape up to three times the largest block.    *)
(* The root in a header is that of the transactions a reader finds, and    *)
(* buildMerkleTree gives it to no other list of transactions, neither      *)
(* shorter, longer nor in another order. (A list that repeats its last     *)
(* element would have the same root; the sequences exclude it.)            *)
RootCommits ==
    LET leaves == UNION {{hashFull(block.txs[j]) : j \in DOMAIN block.txs} : block \in Published}
        lists == UNION {{list \in [1 .. n -> leaves] : IsInjective(list)} : n \in 1 .. max_txs}
    IN \A block \in Published :
           LET hashes == [j \in DOMAIN block.txs |-> hashFull(block.txs[j])]
           IN /\ TreeIsReference
              /\ block.header.merkleRoot = Root(hashes)
              /\ \A list \in lists :
                     Last(buildMerkleTree(list)) = block.header.merkleRoot => list = hashes

Alternatives(field) ==
    IF field \in NumberFields THEN OtherNumbers
    ELSE IF field \in AmountFields THEN OtherAmounts
    ELSE Texts

(* Changing one signed field of a published transaction to another number  *)
(* that can be hashed, another amount that is not negative or another text *)
(* breaks its signature. (Between negative amounts it would not, they are  *)
(* hashed as nothing; and moving digits from one amount to the next, which *)
(* changes two fields, would not.)                                         *)
SignatureBinds ==
    \A block \in Published : \A j \in DOMAIN block.txs :
        LET tx == block.txs[j]
        IN verify(tx) =>
           /\ \A field \in DOMAIN tx \ ({"type", "details"} \cup SignatureFields) :
                  \A value \in Alternatives(field) \ {tx[field]} :
                      ~ verify([tx EXCEPT ![field] = value])
           /\ tx.type = TypeNew =>
                  \A k \in DOMAIN tx.details : \A field \in DOMAIN tx.details[k] :
                      \A value \in Alternatives(field) \ {tx.details[k][field]} :
                          ~ verify([tx EXCEPT !.details[k][field] = value])

(* Rows are deleted by hash, yet each accepted transaction is either in    *)
(* table txs or in exactly one document: no two rows have one hash.        *)
SealedByHash ==
    \A sequence \in DOMAIN accepted :
        LET holding == {i \in DOMAIN documents :
                           \E j \in DOMAIN documents[i].members.txs.elements :
                               documents[i].members.txs.elements[j].members.sequence.digits = sequence}
        IN IF sequence \in DOMAIN rows THEN holding = {} ELSE Cardinality(holding) = 1
============================================================================
