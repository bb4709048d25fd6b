------------------------ MODULE StorePurchaseProofs ------------------------
(***************************************************************************)
(* The contract, for every set of accounts, hashes and bodies: its types,  *)
(* the linked chain of headers, the index by hash, and that nothing stored *)
(* is ever rewritten.                                                      *)
(***************************************************************************)
EXTENDS StorePurchase, TLAPS

USE ContractAssumption

(* The headers before the new one are the ones that were there. *)
LEMMA PushKeeps ==
    ASSUME TypeOK, NEW header \in Header
    PROVE  /\ PushBlock(header) \in Seq(Header)
           /\ Len(PushBlock(header)) = Len(blockArray) + 1
           /\ \A i \in 1 .. Len(blockArray) : PushBlock(header)[i] = blockArray[i]
           /\ PushBlock(header)[Len(blockArray) + 1] = header
  BY DEF TypeOK, PushBlock

LEMMA GenesisHeader == genesis \in Header
  BY DEF genesis, Header, Uint64

(* Every reachable state has values of the Solidity types. *)
THEOREM TypeCorrect == Spec => []TypeOK
<1>1. Init => TypeOK
  BY GenesisHeader DEF Init, addGenesis, genesisMap, TypeOK, Uint64
<1>2. TypeOK /\ [Next]_vars => TypeOK'
  <2> SUFFICES ASSUME TypeOK, [Next]_vars PROVE TypeOK'
    OBVIOUS
  <2>1. ASSUME NEW caller \in Account, NEW header \in Header, add(caller, header)
        PROVE  TypeOK'
    <3>1. header.height \in Uint64 /\ header.curBlock \in Hash
      BY DEF Header
    <3>2. /\ DOMAIN blockMap' = DOMAIN blockMap \cup {header.curBlock}
          /\ \A hash \in DOMAIN blockMap' :
                 blockMap'[hash] = IF hash = header.curBlock THEN header.height
                                   ELSE blockMap[hash]
      BY <2>1 DEF add, IndexWith
    <3>3. blockArray' \in Seq(Header)
      BY <2>1, PushKeeps DEF add
    <3> QED
      BY <2>1, <3>1, <3>2, <3>3 DEF TypeOK, add
  <2>2. ASSUME NEW caller \in Account, NEW newOwner \in Account,
               transferOwnership(caller, newOwner)
        PROVE  TypeOK'
    BY <2>2 DEF TypeOK, transferOwnership
  <2>3. ASSUME NEW caller \in Account, renounceOwnership(caller)
        PROVE  TypeOK'
    BY <2>3 DEF TypeOK, renounceOwnership
  <2>4. CASE UNCHANGED vars
    BY <2>4 DEF TypeOK, vars
  <2> QED
    BY <2>1, <2>2, <2>3, <2>4 DEF Next
<1> QED
  BY <1>1, <1>2, PTL DEF Spec

(* Heights run from 0 without a gap and every header names its predecessor.*)
(* The two facts hold each other up: `3001' keeps the heights in step with *)
(* the array, so the block `3002' compares with is the last one stored.    *)
THEOREM SequentialAlways == Spec => []Sequential
<1>1. Init => Sequential
  BY DEF Init, addGenesis, genesis, Sequential, HeightsSequential, ChainLinked
<1>2. TypeOK /\ Sequential /\ [Next]_vars => Sequential'
  <2> SUFFICES ASSUME TypeOK, Sequential, [Next]_vars PROVE Sequential'
    OBVIOUS
  <2>1. ASSUME NEW caller \in Account, NEW header \in Header, add(caller, header)
        PROVE  Sequential'
    <3>1. /\ header.height = lastHeight + 1
          /\ header.prevBlock = blockArray[lastHeight + 1].curBlock
          /\ lastHeight' = lastHeight + 1
          /\ blockArray' = PushBlock(header)
      BY <2>1 DEF add, Accepts, NextHeight, LinksToLast, blockAt
    <3>2. Len(blockArray) = lastHeight + 1 /\ lastHeight \in Nat
      BY DEF Sequential, HeightsSequential, TypeOK, Uint64
    <3>3. HeightsSequential'
      BY <3>1, <3>2, PushKeeps DEF Sequential, HeightsSequential
    <3>4. ChainLinked'
      <4> SUFFICES ASSUME NEW i \in 2 .. Len(blockArray')
                   PROVE  blockArray'[i].prevBlock = blockArray'[i - 1].curBlock
        BY DEF ChainLinked
      <4>1. Len(blockArray') = Len(blockArray) + 1
        BY <3>1, PushKeeps
      <4>2. CASE i \in 2 .. Len(blockArray)
        BY <4>2, <3>1, <3>2, PushKeeps DEF Sequential, ChainLinked
      <4>3. CASE i = Len(blockArray) + 1
        BY <4>3, <3>1, <3>2, PushKeeps
      <4> QED
        BY <4>1, <4>2, <4>3, <3>2
    <3> QED
      BY <3>3, <3>4 DEF Sequential
  <2>2. ASSUME UNCHANGED <<lastHeight, blockArray, blockMap>> PROVE Sequential'
    BY <2>2 DEF Sequential, HeightsSequential, ChainLinked
  <2> QED
    BY <2>1, <2>2 DEF Next, transferOwnership, renounceOwnership, vars
<1> QED
  BY <1>1, <1>2, TypeCorrect, PTL DEF Spec

(* The index by hash: it points at a block with that hash, and no stored   *)
(* block lies behind what its hash points at.                              *)
Indexed ==
    /\ \A hash \in DOMAIN blockMap :
           /\ blockMap[hash] + 1 \in 1 .. Len(blockArray)
           /\ blockArray[blockMap[hash] + 1].curBlock = hash
    /\ \A i \in 1 .. Len(blockArray) :
           /\ blockArray[i].curBlock \in DOMAIN blockMap
           /\ i <= blockMap[blockArray[i].curBlock] + 1

LEMMA IndexedStep ==
    ASSUME TypeOK, Sequential, Indexed, [Next]_vars PROVE Indexed'
<1>1. ASSUME NEW caller \in Account, NEW header \in Header, add(caller, header)
      PROVE  Indexed'
  <2>1. /\ header.height = lastHeight + 1 /\ header.curBlock \in Hash
        /\ blockArray' = PushBlock(header)
    BY <1>1 DEF add, Accepts, NextHeight, Header
  <2>2. Len(blockArray) = lastHeight + 1 /\ lastHeight \in Nat
    BY DEF Sequential, HeightsSequential, TypeOK, Uint64
  <2>3. /\ DOMAIN blockMap' = DOMAIN blockMap \cup {header.curBlock}
        /\ \A hash \in DOMAIN blockMap' :
               blockMap'[hash] = IF hash = header.curBlock THEN lastHeight + 1 ELSE blockMap[hash]
    BY <1>1, <2>1 DEF add, IndexWith
  <2>4. ASSUME NEW hash \in DOMAIN blockMap'
        PROVE  /\ blockMap'[hash] + 1 \in 1 .. Len(blockArray')
               /\ blockArray'[blockMap'[hash] + 1].curBlock = hash
    <3>1. CASE hash = header.curBlock
      BY <2>1, <2>2, <2>3, <3>1, PushKeeps
    <3>2. CASE hash # header.curBlock
      BY <2>1, <2>2, <2>3, <3>2, PushKeeps DEF Indexed
    <3> QED
      BY <3>1, <3>2
  <2>5. ASSUME NEW i \in 1 .. Len(blockArray')
        PROVE  /\ blockArray'[i].curBlock \in DOMAIN blockMap'
               /\ i <= blockMap'[blockArray'[i].curBlock] + 1
    <3>1. CASE i \in 1 .. Len(blockArray)
      BY <2>1, <2>2, <2>3, <3>1, PushKeeps DEF Indexed
    <3>2. CASE i = Len(blockArray) + 1
      BY <2>1, <2>2, <2>3, <3>2, PushKeeps
    <3> QED
      BY <2>1, <2>2, <3>1, <3>2, PushKeeps
  <2> QED
    BY <2>4, <2>5 DEF Indexed
<1>2. ASSUME UNCHANGED <<lastHeight, blockArray, blockMap>> PROVE Indexed'
  BY <1>2 DEF Indexed
<1> QED
  BY <1>1, <1>2 DEF Next, transferOwnership, renounceOwnership, vars

(* getByHash finds a block exactly for the hashes of stored blocks, and it *)
(* is the newest with that hash, however often the owner repeats one.      *)
THEOREM HashIndexNewestAlways == Spec => []HashIndexNewest
<1>1. Init => Indexed
  BY DEF Init, addGenesis, genesis, genesisMap, Indexed
<1>2. TypeOK /\ Indexed => HashIndexNewest
  <2> SUFFICES ASSUME TypeOK, Indexed, NEW hash \in Hash
               PROVE  LET found == {i \in 1 .. Len(blockArray) : blockArray[i].curBlock = hash}
                      IN  IF found = {}
                          THEN ~ getByHash(hash).ok
                          ELSE /\ getByHash(hash).ok
                               /\ \E i \in found : /\ \A j \in found : j <= i
                                                   /\ getByHash(hash).value = blockArray[i]
    BY DEF HashIndexNewest
  <2> DEFINE found == {i \in 1 .. Len(blockArray) : blockArray[i].curBlock = hash}
  <2>1. CASE hash \notin DOMAIN blockMap
    <3>1. found = {} /\ ~ getByHash(hash).ok
      BY <2>1 DEF Indexed, getByHash, revert
    <3> QED
      BY <3>1
  <2>2. CASE hash \in DOMAIN blockMap
    <3> DEFINE newest == blockMap[hash] + 1
    <3>1. newest \in found /\ \A j \in found : j <= newest
      BY <2>2 DEF Indexed
    <3>2. getByHash(hash).ok /\ getByHash(hash).value = blockArray[newest]
      BY <2>2 DEF getByHash, answer, blockAt
    <3> HIDE DEF newest, found
    <3>3. found # {} /\ \E i \in found : /\ \A j \in found : j <= i
                                         /\ getByHash(hash).value = blockArray[i]
      BY <3>1, <3>2
    <3> QED
      BY <3>2, <3>3, Zenon DEF found
  <2> QED
    BY <2>1, <2>2
<1> QED
  BY <1>1, <1>2, IndexedStep, SequentialAlways, TypeCorrect, PTL DEF Spec

(* Reading page by page meets every block, as long as no height is at the  *)
(* largest uint64: no page is refused, and pages agree with single reads.  *)
THEOREM PagesCoverChainAlways == Spec => []PagesCoverChain
<1>1. TypeOK /\ Sequential => PagesCoverChain
  <2> SUFFICES ASSUME TypeOK, Sequential, lastHeight < MaxUint64,
                      NEW height \in 0 .. lastHeight, NEW count \in 1 .. MaxPage,
                      height + count <= size
               PROVE  /\ getByFromHeight(height, count).ok
                      /\ \A j \in 1 .. count :
                             answer(getByFromHeight(height, count).value[j])
                                 = getByHeight(height + j - 1)
    BY DEF PagesCoverChain
  <2>1. size = lastHeight + 1 /\ lastHeight \in Nat
    BY DEF Sequential, HeightsSequential, TypeOK, Uint64, size
  <2>2. height + (count - 1) <= lastHeight /\ height + (count - 1) + 1 <= MaxUint64
    BY <2>1
  <2>3. getByFromHeight(height, count) = answer([j \in 1 .. count |-> blockAt(height + j - 1)])
    BY <2>1, <2>2 DEF getByFromHeight
  <2>4. getByFromHeight(height, count).ok
    BY <2>3 DEF answer
  <2>5. \A j \in 1 .. count : getByFromHeight(height, count).value[j] = blockAt(height + j - 1)
    BY <2>3 DEF answer
  <2>6. \A j \in 1 .. count : height + j - 1 <= lastHeight
    BY <2>1, <2>2
  <2>7. \A j \in 1 .. count : getByHeight(height + j - 1) = answer(blockAt(height + j - 1))
    BY <2>6 DEF getByHeight
  <2> QED
    BY <2>4, <2>5, <2>7
<1> QED
  BY <1>1, SequentialAlways, TypeCorrect, PTL

(* No call of anybody rewrites or drops a stored header. *)
THEOREM AppendOnlyAlways == Spec => AppendOnly
<1> DEFINE Keeps == /\ IsPrefix(blockArray, blockArray')
                    /\ Len(blockArray') <= Len(blockArray) + 1
<1>1. TypeOK /\ [Next]_vars => [Keeps]_vars
  <2> SUFFICES ASSUME TypeOK, Next PROVE Keeps
    BY DEF vars
  <2>1. ASSUME NEW caller \in Account, NEW header \in Header, add(caller, header)
        PROVE  Keeps
    <3>1. blockArray' = PushBlock(header)
      BY <2>1 DEF add
    <3>2. blockArray \in Seq(Header) /\ blockArray' \in Seq(Header)
      BY <3>1, PushKeeps DEF TypeOK
    <3>3. /\ Len(blockArray') = Len(blockArray) + 1
          /\ \A i \in 1 .. Len(blockArray) : blockArray'[i] = blockArray[i]
      BY <3>1, PushKeeps
    <3>4. SubSeq(blockArray', 1, Len(blockArray)) = SubSeq(blockArray, 1, Len(blockArray))
      BY <3>2, <3>3
    <3> QED
      BY <3>2, <3>3, <3>4 DEF IsPrefix
  <2>2. ASSUME blockArray' = blockArray PROVE Keeps
    BY <2>2 DEF IsPrefix, TypeOK
  <2> QED
    BY <2>1, <2>2 DEF Next, transferOwnership, renounceOwnership
<1> QED
  BY <1>1, TypeCorrect, PTL DEF Spec, AppendOnly
============================================================================
