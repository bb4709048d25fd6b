------------------------------- MODULE Merkle -------------------------------
(***************************************************************************)
(* Block.buildMerkleTree of packages/sdk/src/modules/blockchain/data/      *)
(* Block.ts: the hashes of the transactions and, behind them, those of all *)
(* inner nodes, level by level.                                            *)
(***************************************************************************)
EXTENDS Integers, SequencesExt

NullHash == [null |-> 0]

hashMulti(a, b) == [left |-> a, right |-> b]

(* Math.min(left + 1, length - 1), with indexes from 0                     *)
RightOf_Shifted(left, length) == left

RightOf(left, length) == IF left + 1 < length THEN left + 1 ELSE length - 1

Half(length) == (length + 1) \div 2

(* The inner loop: one node for each pair of the level behind offset.      *)
PushLevel(tree, offset, length) ==
    tree \o [i \in 1 .. Half(length) |->
                LET left == 2 * (i - 1)
                IN hashMulti(tree[offset + left + 1],
                             tree[offset + RightOf(left, length) + 1])]

(* The outer loop; it makes a round for each level of more than one node.  *)
Round(loop) ==
    IF loop.length <= 1 THEN loop
    ELSE [tree |-> PushLevel(loop.tree, loop.offset, loop.length),
          offset |-> loop.offset + loop.length,
          length |-> Half(loop.length)]

PushLevels(list) ==
    LET loop[k \in 0 .. Len(list)] ==
            IF k = 0 THEN [tree |-> list, offset |-> 0, length |-> Len(list)]
            ELSE Round(loop[k - 1])
    IN loop[Len(list)].tree

buildMerkleTree(list) ==
    IF Len(list) < 1 THEN <<NullHash>>
    ELSE IF Len(list) = 1 THEN <<list[1], hashMulti(list[1], list[1])>>
    ELSE PushLevels(list)
============================================================================
