----------------------- MODULE StorePurchaseStorage -----------------------
(***************************************************************************)
(* The PostgreSQL tables behind packages/server/src/service/storage and    *)
(* the operations StorePurchaseStorage.ts offers on them (each one SQL     *)
(* statement of mapper/*.xml, so each one atomic).                         *)
(*                                                                         *)
(* A transaction is identified with its sequence number: the hash the      *)
(* server looks it up by covers the sequence. A row of table blocks is     *)
(* [height, curBlock, prevBlock, body], with body the transactions of the  *)
(* block (what the columns merkleRoot and CID commit to).                  *)
(***************************************************************************)
EXTENDS Integers, FiniteSets

VARIABLES
    blocks,        \* table blocks: a row for every height in DOMAIN blocks
    txs,           \* table txs: the sequences of the stored transactions
    txs_sequence   \* how often nextval('txs_sequence') was answered

tableVars == <<blocks, txs, txs_sequence>>

EmptyBlocks == [height \in {} |-> {}]

TablesInit ==
    /\ blocks = EmptyBlocks
    /\ txs = {}
    /\ txs_sequence = 0

----------------------------------------------------------------------------
(* Queries. *)
NoRows == DOMAIN blocks = {}

(* selectLastHeight: ORDER BY "height" DESC LIMIT 1; undefined if NoRows. *)
selectLastHeight ==
    CHOOSE height \in DOMAIN blocks : \A h \in DOMAIN blocks : h <= height

(* selectBlockByHeight(height) !== undefined; the row is blocks[height]. *)
HasBlock(height) == height \in DOMAIN blocks

(* selectTxByLength: ORDER BY sequence ASC LIMIT length. *)
selectTxByLength_Newest(length) ==
    {tx \in txs : Cardinality({other \in txs : other > tx}) < length}

selectTxByLength_OneMore(length) ==
    {tx \in txs : Cardinality({other \in txs : other < tx}) <= length}

selectTxByLength(length) ==
    {tx \in txs : Cardinality({other \in txs : other < tx}) < length}

----------------------------------------------------------------------------
(* Statements. INSERT ... ON CONFLICT ("height") DO UPDATE *)
insertBlock(row) ==
    blocks' = [h \in DOMAIN blocks \cup {row.height} |->
                  IF h = row.height THEN row ELSE blocks[h]]

(* DELETE FROM blocks WHERE "height" < height *)
deleteBlockByHeight_All(height) == blocks' = EmptyBlocks

deleteBlockByHeight_Submitted(height) ==
    blocks' = [h \in {g \in DOMAIN blocks : g > height + 1} |-> blocks[h]]

deleteBlockByHeight(height) ==
    blocks' = [h \in {g \in DOMAIN blocks : g >= height} |-> blocks[h]]

insertTx(tx) == txs' = txs \cup {tx}

deleteTxByHash_NoRow(tx) == UNCHANGED txs

deleteTxByHash(tx) == txs' = txs \ {tx}

(* TRUNCATE TABLE blocks; TRUNCATE TABLE txs: the sequence survives. *)
clear ==
    /\ blocks' = EmptyBlocks
    /\ txs' = {}
============================================================================
