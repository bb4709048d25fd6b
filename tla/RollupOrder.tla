---------------------------- MODULE RollupOrder ----------------------------
(***************************************************************************)
(* Rollup with a history variable, for what the ledger says about the      *)
(* order of the requests. Requests run concurrently: one that took its     *)
(* sequence first may store its transaction last.                          *)
(***************************************************************************)
EXTENDS Rollup

VARIABLE preceding  \* by sequence: what was accepted when it was handed out

OrderInit ==
    /\ Init
    /\ preceding = [tx \in {} |-> {}]

NotesPreceding ==
    preceding' = [tx \in 1 .. txs_sequence' |->
                     IF tx <= txs_sequence THEN preceding[tx] ELSE accepted]

OrderNext == Next /\ NotesPreceding

OrderSpec == OrderInit /\ [][OrderNext]_<<vars, preceding>>

FairOrderSpec == OrderSpec /\ Fairness

SealedBy(height, tx) == \E g \in 1 .. height : tx \in LedgerBlock(g).body

(* A transaction requested after another one was acknowledged is never     *)
(* sealed before it: the cancellation of a purchase does not come before   *)
(* the purchase, although sequences are handed out and stored in different *)
(* orders and a crash can have blocks sealed again. (In an orderly         *)
(* production: where a row is overwritten the earlier one may be lost.)    *)
AcknowledgedFirst ==
    Orderly /\ env.production =>
        \A height \in 1 .. LedgerHeight :
            \A tx \in LedgerBlock(height).body :
                \A earlier \in preceding[tx] : SealedBy(height, earlier)
============================================================================
