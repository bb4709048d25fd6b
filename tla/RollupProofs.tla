---------------------------- MODULE RollupProofs ----------------------------
(***************************************************************************)
(* The pipeline for every block size, any number of requests, crashes and  *)
(* failing calls: the rows and the chain are one linked ledger that only   *)
(* grows, and nothing that was accepted is lost.                           *)
(***************************************************************************)
EXTENDS Rollup, TLAPS

(* A block of the ledger. *)
InLedger(row) ==
    /\ row.height \in 1 .. LedgerHeight
    /\ row = LedgerBlock(row.height)

Info == [height : Nat, hash : Nat]

Types ==
    /\ blockArray \in Seq(Block) /\ lastHeight \in Nat
    /\ \A h \in DOMAIN blocks : blocks[h] \in Block
    /\ pending \subseteq Block
    /\ txs \subseteq Nat /\ inflight \subseteq Nat /\ txs_sequence \in Nat
    /\ created \in Nat
    /\ prev_hash \in Nat /\ prev_height \in Nat
    /\ latestHeightContract \in Nat /\ info_storage \in Info \cup {None}
    /\ batch \subseteq Nat
    /\ work = "insert" => block \in Block
    /\ contractHeight \in Nat
    /\ sending = "submit" => data \in Block

(* The chain of the contract, which starts with the genesis block. *)
Chain == Contract!Sequential /\ blockArray[1] = Contract!genesis

(* The rows have no gap, and each names the one below it. *)
RowsLinked ==
    /\ DOMAIN blocks \subseteq Nat \ {0}
    /\ NoRows \/ \E lo, hi \in DOMAIN blocks : DOMAIN blocks = lo .. hi
    /\ \A h \in DOMAIN blocks :
           /\ blocks[h].height = h
           /\ h = 1 => blocks[h].prevBlock = 0
           /\ h - 1 \in DOMAIN blocks => blocks[h].prevBlock = blocks[h - 1].curBlock

(* Rows and chain meet: the highest row is not below the contract's last   *)
(* block, and the lowest one does not leave a gap above it.                *)
Joined ==
    /\ NoRows => lastHeight = 0
    /\ ~ NoRows => /\ lastHeight <= selectLastHeight
                   /\ 1 \in DOMAIN blocks \/ lastHeight \in DOMAIN blocks
    /\ \A h \in DOMAIN blocks : h <= lastHeight => blocks[h] = Contract!blockAt(h)
    /\ \A call \in pending : InLedger(call)

(* Outside production rows of an older contract may be there until onStart *)
(* has looked at them, but then no call is on its way.                     *)
Whole == env.production \/ Cleared \/ pending # {}

Starting ==
    /\ boot # "up" => work = "idle" /\ sending = "idle"
    /\ ~ env.production /\ boot \in {"contract", "database", "clear"} =>
           lastHeight = 0 /\ pending = {}
    /\ boot = "database" =>
           IF env.production THEN ~ LostBlocks(latestHeightContract)
                             ELSE latestHeightContract = 0
    /\ boot = "clear" => ~ env.production
    /\ boot = "contractInfo" =>
           info_storage = IF NoRows THEN None ELSE LastInfo(blocks[selectLastHeight])

Previous ==
    boot = "up" => /\ prev_height = LedgerHeight
                   /\ prev_hash = LedgerLast.curBlock

Working ==
    /\ work = "insert" => /\ block.height = prev_height + 1
                          /\ block.prevBlock = prev_hash
                          /\ block.body = batch
    /\ work = "remove" => batch \subseteq Sealed

Submitting ==
    /\ sending # "idle" => contractHeight <= lastHeight
    /\ sending = "submit" => InLedger(data)

Kept == env.production => StoredIsKept

Inv ==
    /\ Types /\ Chain /\ RowsLinked
    /\ Whole => Joined
    /\ Starting /\ Previous /\ Working /\ Submitting /\ Kept

IInv == Orderly => Inv

----------------------------------------------------------------------------
(* What follows from the invariant about the ledger in one state.          *)
Shape ==
    /\ LedgerHeight \in Nat /\ lastHeight \in 0 .. LedgerHeight
    /\ NoRows => LedgerHeight = 0
    /\ ~ NoRows => selectLastHeight \in DOMAIN blocks /\ LedgerHeight = selectLastHeight
    /\ \A h \in DOMAIN blocks : h \in 1 .. LedgerHeight /\ LedgerBlock(h) = blocks[h]
    /\ \A h \in lastHeight + 1 .. LedgerHeight : h \in DOMAIN blocks
    /\ \A h \in 0 .. lastHeight : LedgerBlock(h) = Contract!blockAt(h)
    /\ \A h \in 0 .. LedgerHeight : LedgerBlock(h) \in Block /\ LedgerBlock(h).height = h
    /\ \A h \in 1 .. LedgerHeight : LedgerBlock(h).prevBlock = LedgerBlock(h - 1).curBlock

LEMMA Top ==
    ASSUME NEW D, NEW hi \in D, D \subseteq Nat, \A h \in D : h <= hi
    PROVE  (CHOOSE height \in D : \A h \in D : h <= height) = hi
<1> DEFINE Highest(height) == height \in D /\ \A h \in D : h <= height
<1>1. Highest(hi)
  OBVIOUS
<1>2. \A height : Highest(height) => height = hi
  OBVIOUS
<1>3. QED
  BY <1>1, <1>2

LEMMA TopRow ==
    RowsLinked /\ ~ NoRows => /\ selectLastHeight \in DOMAIN blocks
                              /\ \A h \in DOMAIN blocks : h <= selectLastHeight
                              /\ \A h \in DOMAIN blocks : h .. selectLastHeight \subseteq DOMAIN blocks
<1> SUFFICES ASSUME RowsLinked, ~ NoRows
             PROVE  /\ selectLastHeight \in DOMAIN blocks
                    /\ \A h \in DOMAIN blocks : h <= selectLastHeight
                    /\ \A h \in DOMAIN blocks : h .. selectLastHeight \subseteq DOMAIN blocks
  OBVIOUS
<1>1. PICK lo \in DOMAIN blocks, hi \in DOMAIN blocks : DOMAIN blocks = lo .. hi
  BY DEF RowsLinked, NoRows
<1>2. DOMAIN blocks \subseteq Nat
  BY DEF RowsLinked
<1>3. \A h \in DOMAIN blocks : h <= hi /\ lo <= h
  BY <1>1, <1>2
<1>4. selectLastHeight = hi
  BY <1>2, <1>3, Top DEF selectLastHeight
<1>5. QED
  BY <1>1, <1>2, <1>3, <1>4

LEMMA ChainBlocks ==
    Types /\ Chain =>
        /\ \A h \in 0 .. lastHeight : /\ Contract!blockAt(h) \in Block
                                      /\ Contract!blockAt(h).height = h
        /\ \A h \in 1 .. lastHeight :
               Contract!blockAt(h).prevBlock = Contract!blockAt(h - 1).curBlock
        /\ Contract!blockAt(0).curBlock = 0
<1> SUFFICES ASSUME Types, Chain
             PROVE  /\ \A h \in 0 .. lastHeight : /\ Contract!blockAt(h) \in Block
                                                  /\ Contract!blockAt(h).height = h
                    /\ \A h \in 1 .. lastHeight :
                           Contract!blockAt(h).prevBlock = Contract!blockAt(h - 1).curBlock
                    /\ Contract!blockAt(0).curBlock = 0
  OBVIOUS
<1>1. /\ lastHeight \in Nat /\ blockArray \in Seq(Block)
      /\ Len(blockArray) = lastHeight + 1
      /\ \A i \in 1 .. Len(blockArray) : blockArray[i].height = i - 1
      /\ \A i \in 2 .. Len(blockArray) : blockArray[i].prevBlock = blockArray[i - 1].curBlock
      /\ blockArray[1].curBlock = 0
  BY DEF Types, Chain, Contract!Sequential, Contract!HeightsSequential, Contract!ChainLinked,
         Contract!genesis
<1>2. ASSUME NEW h \in 0 .. lastHeight
      PROVE  Contract!blockAt(h) \in Block /\ Contract!blockAt(h).height = h
  <2>1. h + 1 \in 1 .. Len(blockArray) /\ (h + 1) - 1 = h
    BY <1>1
  <2>2. QED
    BY <1>1, <2>1 DEF Contract!blockAt
<1>3. ASSUME NEW h \in 1 .. lastHeight
      PROVE  Contract!blockAt(h).prevBlock = Contract!blockAt(h - 1).curBlock
  <2>1. h + 1 \in 2 .. Len(blockArray) /\ (h + 1) - 1 = (h - 1) + 1
    BY <1>1
  <2>2. QED
    BY <1>1, <2>1 DEF Contract!blockAt
<1>4. QED
  BY <1>1, <1>2, <1>3 DEF Contract!blockAt

(* The rows reach down to the block after the last one of the contract.    *)
LEMMA RowsMeet ==
    RowsLinked /\ Joined /\ lastHeight \in Nat =>
        \A h \in Nat : lastHeight < h /\ ~ NoRows /\ h <= selectLastHeight => h \in DOMAIN blocks
<1> SUFFICES ASSUME RowsLinked, Joined, lastHeight \in Nat,
                    NEW h \in Nat, lastHeight < h, ~ NoRows, h <= selectLastHeight
             PROVE  h \in DOMAIN blocks
  OBVIOUS
<1>1. PICK g \in {1, lastHeight} : g \in DOMAIN blocks
  BY DEF Joined
<1>2. selectLastHeight \in Nat /\ g .. selectLastHeight \subseteq DOMAIN blocks
  BY <1>1, TopRow DEF RowsLinked
<1>3. QED
  BY <1>1, <1>2

LEMMA LedgerShape == Types /\ Chain /\ RowsLinked /\ Joined => Shape
<1> SUFFICES ASSUME Types, Chain, RowsLinked, Joined PROVE Shape
  OBVIOUS
<1>1. lastHeight \in Nat /\ DOMAIN blocks \subseteq Nat \ {0}
  BY DEF Types, RowsLinked
<1>2. NoRows => LedgerHeight = 0 /\ lastHeight = 0
  BY DEF LedgerHeight, Joined
<1>3. ~ NoRows => /\ selectLastHeight \in DOMAIN blocks
                  /\ lastHeight <= selectLastHeight
                  /\ LedgerHeight = selectLastHeight
  BY <1>1, TopRow DEF LedgerHeight, Joined
<1>4. LedgerHeight \in Nat /\ lastHeight \in 0 .. LedgerHeight
  BY <1>1, <1>2, <1>3
<1>5. ASSUME NEW h \in DOMAIN blocks
      PROVE  h \in 1 .. LedgerHeight /\ LedgerBlock(h) = blocks[h]
  <2>1. ~ NoRows
    BY DEF NoRows
  <2>2. h \in 1 .. LedgerHeight
    BY <2>1, <1>1, <1>3, TopRow
  <2>3. QED
    BY <2>2, <1>1 DEF LedgerBlock, Joined
<1>6. \A h \in lastHeight + 1 .. LedgerHeight : h \in DOMAIN blocks
  BY <1>1, <1>2, <1>3, RowsMeet
<1>7. \A h \in 0 .. lastHeight : LedgerBlock(h) = Contract!blockAt(h)
  BY <1>1 DEF LedgerBlock
<1>8. ASSUME NEW h \in 0 .. LedgerHeight
      PROVE  LedgerBlock(h) \in Block /\ LedgerBlock(h).height = h
  <2>1. CASE h \in 0 .. lastHeight
    BY <2>1, <1>7, ChainBlocks
  <2>2. CASE h \in lastHeight + 1 .. LedgerHeight
    BY <2>2, <1>5, <1>6 DEF Types, RowsLinked
  <2>3. QED
    BY <2>1, <2>2, <1>4
<1>9. ASSUME NEW h \in 1 .. LedgerHeight
      PROVE  LedgerBlock(h).prevBlock = LedgerBlock(h - 1).curBlock
  <2>1. CASE h \in 1 .. lastHeight
    <3>1. h \in 0 .. lastHeight /\ h - 1 \in 0 .. lastHeight
      BY <2>1, <1>1
    <3>2. QED
      BY <2>1, <3>1, <1>7, ChainBlocks
  <2>2. CASE h = lastHeight + 1
    <3>1. h \in DOMAIN blocks /\ LedgerBlock(h) = blocks[h] /\ h - 1 = lastHeight
      BY <2>2, <1>1, <1>4, <1>5, <1>6
    <3>2. LedgerBlock(h - 1) = Contract!blockAt(lastHeight)
      BY <3>1, <1>1, <1>7
    <3>3. CASE lastHeight \in DOMAIN blocks
      BY <3>1, <3>2, <3>3, <1>1 DEF Joined, RowsLinked
    <3>4. CASE lastHeight \notin DOMAIN blocks
      <4>1. 1 \in DOMAIN blocks /\ ~ NoRows
        BY <3>1, <3>4 DEF Joined, NoRows
      <4>2. 1 .. selectLastHeight \subseteq DOMAIN blocks
        BY <4>1, TopRow
      <4>3. lastHeight = 0
        BY <4>1, <4>2, <3>4, <1>1, <1>3
      <4>4. blocks[h].prevBlock = 0
        BY <3>1, <4>3, <2>2 DEF RowsLinked
      <4>5. Contract!blockAt(lastHeight).curBlock = 0
        BY <4>3, ChainBlocks
      <4>6. QED
        BY <3>1, <3>2, <4>4, <4>5
    <3>5. QED
      BY <3>3, <3>4
  <2>3. CASE h \in lastHeight + 2 .. LedgerHeight
    <3>1. h \in DOMAIN blocks /\ h - 1 \in DOMAIN blocks
      BY <2>3, <1>1, <1>4, <1>6
    <3>2. LedgerBlock(h) = blocks[h] /\ LedgerBlock(h - 1) = blocks[h - 1]
      BY <3>1, <1>5
    <3>3. QED
      BY <3>1, <3>2 DEF RowsLinked
  <2>4. QED
    BY <2>1, <2>2, <2>3, <1>1, <1>4
<1>10. QED
  BY <1>2, <1>3, <1>4, <1>5, <1>6, <1>7, <1>8, <1>9 DEF Shape

(* A step that touches neither rows nor contract leaves the ledger alone.  *)
ledgerVars == <<blocks, lastHeight, blockArray>>

LEMMA SameLedger ==
    UNCHANGED ledgerVars =>
        /\ NoRows' = NoRows /\ selectLastHeight' = selectLastHeight
        /\ LedgerHeight' = LedgerHeight
        /\ \A h : LedgerBlock(h)' = LedgerBlock(h)
        /\ \A h : Contract!blockAt(h)' = Contract!blockAt(h)
        /\ LedgerLast' = LedgerLast
        /\ \A row : InLedger(row)' <=> InLedger(row)
        /\ Sealed' = Sealed
        /\ Chain' = Chain /\ RowsLinked' = RowsLinked
<1> SUFFICES ASSUME UNCHANGED ledgerVars
             PROVE  /\ NoRows' = NoRows /\ selectLastHeight' = selectLastHeight
                    /\ LedgerHeight' = LedgerHeight
                    /\ \A h : LedgerBlock(h)' = LedgerBlock(h)
                    /\ \A h : Contract!blockAt(h)' = Contract!blockAt(h)
                    /\ LedgerLast' = LedgerLast
                    /\ \A row : InLedger(row)' <=> InLedger(row)
                    /\ Sealed' = Sealed
                    /\ Chain' = Chain /\ RowsLinked' = RowsLinked
  OBVIOUS
<1>1. blocks' = blocks /\ lastHeight' = lastHeight /\ blockArray' = blockArray
  BY DEF ledgerVars
<1>2. NoRows' = NoRows /\ selectLastHeight' = selectLastHeight
  BY <1>1 DEF NoRows, selectLastHeight
<1>3. LedgerHeight' = LedgerHeight
  BY <1>1, <1>2 DEF LedgerHeight
<1>4. \A h : Contract!blockAt(h)' = Contract!blockAt(h)
  BY <1>1 DEF Contract!blockAt
<1>5. \A h : LedgerBlock(h)' = LedgerBlock(h)
  BY <1>1, <1>4 DEF LedgerBlock
<1>6. Sealed' = Sealed
  BY <1>1, <1>4 DEF Sealed, Anchored
<1>7. Chain' = Chain
  BY <1>1 DEF Chain, Contract!Sequential, Contract!HeightsSequential, Contract!ChainLinked,
              Contract!genesis
<1>8. RowsLinked' = RowsLinked
  BY <1>1, <1>2 DEF RowsLinked
<1>9. LedgerLast' = LedgerLast
  BY <1>1, <1>3 DEF LedgerLast, LedgerBlock, Contract!blockAt
<1>10. \A row : InLedger(row)' <=> InLedger(row)
  BY <1>3, <1>5 DEF InLedger
<1>11. QED
  BY <1>2, <1>3, <1>4, <1>5, <1>6, <1>7, <1>8, <1>9, <1>10

----------------------------------------------------------------------------
(* The steps, one lemma for each part of the invariant they can disturb.   *)
USE DEF tableVars, contractVars, chainVars, bootVars, workVars, prevVars, nodeVars,
        sendVars, requestVars, outside, ledgerVars

Contents == UNION {LedgerBlock(h).body : h \in 1 .. LedgerHeight}

SealedIsContents == Sealed = Contents

LEMMA SealedInLedger == Shape => SealedIsContents
<1> SUFFICES ASSUME Shape, NEW tx
             PROVE  tx \in Sealed <=> \E h \in 1 .. LedgerHeight : tx \in LedgerBlock(h).body
  BY DEF Contents, SealedIsContents
<1>1. /\ LedgerHeight \in Nat /\ lastHeight \in 0 .. LedgerHeight
      /\ \A h \in DOMAIN blocks : h \in 1 .. LedgerHeight /\ LedgerBlock(h) = blocks[h]
      /\ \A h \in lastHeight + 1 .. LedgerHeight : h \in DOMAIN blocks
      /\ \A h \in 0 .. lastHeight : LedgerBlock(h) = Contract!blockAt(h)
  BY DEF Shape
<1>2. tx \in Anchored <=> \E h \in 1 .. lastHeight : tx \in Contract!blockAt(h).body
  BY DEF Anchored
<1>3. tx \in Sealed <=> \/ tx \in Anchored
                        \/ \E h \in DOMAIN blocks : h > lastHeight /\ tx \in blocks[h].body
  BY DEF Sealed
<1>4. ASSUME NEW h \in 1 .. lastHeight
      PROVE  h \in 1 .. LedgerHeight /\ LedgerBlock(h) = Contract!blockAt(h)
  BY <1>1
<1>5. ASSUME NEW h \in 1 .. LedgerHeight, ~ (h \in 1 .. lastHeight)
      PROVE  h > lastHeight /\ h \in DOMAIN blocks /\ LedgerBlock(h) = blocks[h]
  BY <1>1, <1>5
<1>6. QED
  BY <1>1, <1>2, <1>3, <1>4, <1>5

(* What is in the ledger stays, and what is new is above it.               *)
Keeps ==
    /\ LedgerHeight' \in Nat /\ LedgerHeight <= LedgerHeight'
    /\ \A h \in 0 .. LedgerHeight : LedgerBlock(h)' = LedgerBlock(h)

LEMMA ShapeNext == Types' /\ Chain' /\ RowsLinked' /\ Joined' => Shape'
  BY LedgerShape, PTL

LEMMA SealedNext == Shape' => SealedIsContents'
  BY SealedInLedger, PTL

LEMMA KeepsSealed == Shape /\ Shape' /\ Keeps => Sealed \subseteq Sealed'
<1> SUFFICES ASSUME Shape, Shape', Keeps, NEW tx \in Sealed PROVE tx \in Sealed'
  OBVIOUS
<1>1. PICK h \in 1 .. LedgerHeight : tx \in LedgerBlock(h).body
  BY SealedInLedger DEF Contents, SealedIsContents
<1>2. LedgerHeight \in Nat
  BY DEF Shape
<1>3. h \in 1 .. LedgerHeight' /\ LedgerBlock(h)' = LedgerBlock(h)
  BY <1>2 DEF Keeps
<1>4. QED
  BY <1>1, <1>3, SealedNext DEF Contents, SealedIsContents

LEMMA KeepsRow ==
    ASSUME NEW row, Shape, Keeps, InLedger(row)
    PROVE  row.height \in 1 .. LedgerHeight' /\ row = LedgerBlock(row.height)'
<1>1. LedgerHeight \in Nat /\ row.height \in 1 .. LedgerHeight /\ row = LedgerBlock(row.height)
  BY DEF Shape, InLedger
<1>2. QED
  BY <1>1 DEF Keeps

(* A block that follows the last one is inserted.                          *)
LEMMA InsertStep ==
    ASSUME Types, Chain, RowsLinked, Joined,
           block \in Block,
           block.height = LedgerHeight + 1, block.prevBlock = LedgerLast.curBlock,
           insertBlock(block), UNCHANGED <<lastHeight, blockArray, pending>>
    PROVE  /\ RowsLinked' /\ Joined' /\ Keeps
           /\ LedgerHeight' = LedgerHeight + 1
           /\ LedgerLast' = block
<1>1. Shape
  BY LedgerShape
<1>top. PICK top \in Nat : top = LedgerHeight + 1
  BY <1>1 DEF Shape
<1>2. /\ LedgerHeight \in Nat /\ lastHeight \in 0 .. LedgerHeight /\ lastHeight < top
      /\ NoRows => LedgerHeight = 0
      /\ ~ NoRows => LedgerHeight \in DOMAIN blocks
      /\ \A h \in DOMAIN blocks : h \in 1 .. LedgerHeight /\ LedgerBlock(h) = blocks[h]
      /\ \A h \in lastHeight + 1 .. LedgerHeight : h \in DOMAIN blocks
  BY <1>1, <1>top DEF Shape
<1>3. /\ DOMAIN blocks' = DOMAIN blocks \cup {top}
      /\ blocks'[top] = block
      /\ \A h \in DOMAIN blocks : h # top /\ blocks'[h] = blocks[h]
  BY <1>2, <1>top DEF insertBlock
<1>4. \A h : Contract!blockAt(h)' = Contract!blockAt(h)
  BY DEF Contract!blockAt
<1>5. NoRows' = FALSE /\ selectLastHeight' = top
  <2>1. DOMAIN blocks' \subseteq Nat /\ \A h \in DOMAIN blocks' : h <= top
    BY <1>2, <1>3
  <2>2. QED
    BY <1>3, <2>1, Top DEF NoRows, selectLastHeight
<1>6. LedgerHeight' = top
  BY <1>2, <1>5 DEF LedgerHeight
<1>7. ASSUME NEW h \in 0 .. LedgerHeight PROVE LedgerBlock(h)' = LedgerBlock(h)
  <2>1. CASE h <= lastHeight
    BY <2>1, <1>4 DEF LedgerBlock
  <2>2. CASE ~ (h <= lastHeight)
    BY <2>2, <1>2, <1>3 DEF LedgerBlock
  <2>3. QED
    BY <2>1, <2>2
<1>8. LedgerBlock(top)' = block /\ LedgerLast' = block
  BY <1>2, <1>3, <1>6 DEF LedgerBlock, LedgerLast
<1>9. RowsLinked'
  <2>1. DOMAIN blocks' \subseteq Nat \ {0}
    BY <1>2, <1>3
  <2>2. \E lo, hi \in DOMAIN blocks' : DOMAIN blocks' = lo .. hi
    <3>1. CASE NoRows
      <4>1. DOMAIN blocks' = top .. top
        BY <3>1, <1>2, <1>3 DEF NoRows
      <4>2. QED
        BY <4>1, <1>3
    <3>2. CASE ~ NoRows
      <4>1. PICK lo \in DOMAIN blocks, hi \in DOMAIN blocks : DOMAIN blocks = lo .. hi
        BY <3>2 DEF RowsLinked
      <4>2. hi = LedgerHeight
        BY <4>1, <3>2, <1>2
      <4>3. DOMAIN blocks' = lo .. top
        BY <4>1, <4>2, <1>top, <1>2, <1>3
      <4>4. QED
        BY <4>3, <1>3
    <3>3. QED
      BY <3>1, <3>2
  <2>3. ASSUME NEW h \in DOMAIN blocks'
        PROVE  /\ blocks'[h].height = h
               /\ h = 1 => blocks'[h].prevBlock = 0
               /\ h - 1 \in DOMAIN blocks' => blocks'[h].prevBlock = blocks'[h - 1].curBlock
    <3>1. CASE h = top
      <4>1. LedgerHeight = 0 => LedgerLast.curBlock = 0
        BY <1>1, <1>2, ChainBlocks DEF Shape, LedgerLast
      <4>2. LedgerHeight \in DOMAIN blocks => LedgerLast = blocks'[LedgerHeight]
        BY <1>2, <1>3 DEF LedgerLast
      <4>3. top - 1 = LedgerHeight /\ top - 1 # top /\ (top = 1 => LedgerHeight = 0)
        BY <1>top, <1>2
      <4>4. QED
        BY <3>1, <4>1, <4>2, <4>3, <1>3
    <3>2. CASE h # top
      <4>1. h \in DOMAIN blocks /\ h \in 1 .. LedgerHeight /\ h - 1 # top
        BY <3>2, <1>2, <1>3
      <4>2. QED
        BY <4>1, <1>3 DEF RowsLinked
    <3>3. QED
      BY <3>1, <3>2
  <2>4. QED
    BY <2>1, <2>2, <2>3 DEF RowsLinked
<1>10. Keeps
  BY <1>top, <1>2, <1>6, <1>7 DEF Keeps
<1>11. Joined'
  <2>1. 1 \in DOMAIN blocks' \/ lastHeight \in DOMAIN blocks'
    BY <1>top, <1>2, <1>3 DEF Joined
  <2>2. \A h \in DOMAIN blocks' : h <= lastHeight' => blocks'[h] = Contract!blockAt(h)'
    BY <1>2, <1>3, <1>4 DEF Joined
  <2>3. \A call \in pending' : InLedger(call)'
    BY <1>1, <1>10, KeepsRow DEF Joined, InLedger
  <2>4. QED
    BY <2>1, <2>2, <2>3, <1>2, <1>5 DEF Joined
<1>12. QED
  BY <1>top, <1>6, <1>8, <1>9, <1>10, <1>11

(* Rows below a block of the contract are deleted.                         *)
LEMMA DeleteStep ==
    ASSUME Types, Chain, RowsLinked, Joined, contractHeight <= lastHeight,
           deleteBlockByHeight(contractHeight), UNCHANGED <<lastHeight, blockArray, pending>>
    PROVE  RowsLinked' /\ Joined' /\ Keeps /\ LedgerHeight' = LedgerHeight
<1>1. Shape
  BY LedgerShape
<1>2. /\ LedgerHeight \in Nat /\ lastHeight \in 0 .. LedgerHeight /\ contractHeight \in Nat
      /\ NoRows => LedgerHeight = 0
      /\ ~ NoRows => selectLastHeight \in DOMAIN blocks /\ LedgerHeight = selectLastHeight
      /\ \A h \in DOMAIN blocks : h \in 1 .. LedgerHeight
      /\ \A h \in lastHeight + 1 .. LedgerHeight : h \in DOMAIN blocks
  BY <1>1 DEF Shape, Types
<1>3. /\ DOMAIN blocks' = {h \in DOMAIN blocks : h >= contractHeight}
      /\ \A h \in DOMAIN blocks' : blocks'[h] = blocks[h]
  BY DEF deleteBlockByHeight
<1>4. \A h : Contract!blockAt(h)' = Contract!blockAt(h)
  BY DEF Contract!blockAt
<1>5. /\ NoRows' <=> NoRows
      /\ ~ NoRows => /\ selectLastHeight \in DOMAIN blocks'
                     /\ selectLastHeight' = selectLastHeight
  <2>1. CASE NoRows
    <3>1. DOMAIN blocks' = {}
      BY <2>1, <1>3 DEF NoRows
    <3>2. QED
      BY <2>1, <3>1 DEF NoRows
  <2>2. CASE ~ NoRows
    <3>1. LedgerHeight \in DOMAIN blocks' /\ LedgerHeight = selectLastHeight
      BY <2>2, <1>2, <1>3
    <3>2. DOMAIN blocks' \subseteq Nat /\ \A h \in DOMAIN blocks' : h <= LedgerHeight
      BY <1>2, <1>3
    <3>3. selectLastHeight' = LedgerHeight
      BY <3>1, <3>2, Top DEF selectLastHeight
    <3>4. ~ NoRows'
      BY <3>1 DEF NoRows
    <3>5. QED
      BY <2>2, <3>1, <3>3, <3>4
  <2>3. QED
    BY <2>1, <2>2
<1>6. LedgerHeight' = LedgerHeight
  BY <1>5 DEF LedgerHeight
<1>7. ASSUME NEW h \in 0 .. LedgerHeight PROVE LedgerBlock(h)' = LedgerBlock(h)
  <2>1. CASE h <= lastHeight
    BY <2>1, <1>4 DEF LedgerBlock
  <2>2. CASE ~ (h <= lastHeight)
    BY <2>2, <1>2, <1>3 DEF LedgerBlock
  <2>3. QED
    BY <2>1, <2>2
<1>8. Keeps
  BY <1>2, <1>6, <1>7 DEF Keeps
<1>9. RowsLinked'
  <2>1. DOMAIN blocks' \subseteq Nat \ {0}
    BY <1>2, <1>3
  <2>2. NoRows' \/ \E lo, hi \in DOMAIN blocks' : DOMAIN blocks' = lo .. hi
    <3>1. SUFFICES ASSUME ~ NoRows PROVE \E lo, hi \in DOMAIN blocks' : DOMAIN blocks' = lo .. hi
      BY <1>5
    <3>2. PICK lo \in DOMAIN blocks, hi \in DOMAIN blocks : DOMAIN blocks = lo .. hi
      BY <3>1 DEF RowsLinked
    <3>3. contractHeight <= hi /\ lo \in Nat /\ hi \in Nat
      BY <3>1, <3>2, <1>2
    <3>4. CASE contractHeight <= lo
      <4>1. DOMAIN blocks' = lo .. hi
        BY <3>2, <3>3, <3>4, <1>2, <1>3
      <4>2. QED
        BY <4>1, <3>2, <3>3
    <3>5. CASE ~ (contractHeight <= lo)
      <4>1. DOMAIN blocks' = contractHeight .. hi
        BY <3>2, <3>3, <3>5, <1>2, <1>3
      <4>2. contractHeight \in DOMAIN blocks' /\ hi \in DOMAIN blocks'
        BY <4>1, <3>3, <1>2
      <4>3. QED
        BY <4>1, <4>2
    <3>6. QED
      BY <3>4, <3>5
  <2>3. ASSUME NEW h \in DOMAIN blocks'
        PROVE  /\ blocks'[h].height = h
               /\ h = 1 => blocks'[h].prevBlock = 0
               /\ h - 1 \in DOMAIN blocks' => blocks'[h].prevBlock = blocks'[h - 1].curBlock
    BY <1>3 DEF RowsLinked
  <2>4. QED
    BY <2>1, <2>2, <2>3 DEF RowsLinked
<1>10. Joined'
  <2>1. ~ NoRows => 1 \in DOMAIN blocks' \/ lastHeight \in DOMAIN blocks'
    <3>1. CASE lastHeight \in DOMAIN blocks
      BY <3>1, <1>2, <1>3
    <3>2. CASE lastHeight \notin DOMAIN blocks /\ ~ NoRows
      <4>1. 1 \in DOMAIN blocks /\ 1 .. selectLastHeight \subseteq DOMAIN blocks
        BY <3>2, TopRow DEF Joined
      <4>2. lastHeight = 0
        BY <4>1, <3>2, <1>2
      <4>3. QED
        BY <4>1, <4>2, <1>2, <1>3
    <3>3. QED
      BY <3>1, <3>2
  <2>2. \A h \in DOMAIN blocks' : h <= lastHeight' => blocks'[h] = Contract!blockAt(h)'
    BY <1>3, <1>4 DEF Joined
  <2>3. \A call \in pending' : InLedger(call)'
    BY <1>1, <1>8, KeepsRow DEF Joined, InLedger
  <2>4. QED
    BY <2>1, <2>2, <2>3, <1>5 DEF Joined
<1>11. QED
  BY <1>6, <1>8, <1>9, <1>10

(* The contract takes over a block of the ledger.                          *)
LEMMA AddStep ==
    ASSUME Types, Chain, RowsLinked, Joined, NEW call \in pending,
           Contract!add(Publisher, call), pending' \subseteq pending, UNCHANGED blocks
    PROVE  /\ Chain' /\ RowsLinked' /\ Joined' /\ Keeps
           /\ LedgerHeight' = LedgerHeight /\ lastHeight' = lastHeight + 1
<1>1. Shape
  BY LedgerShape
<1>2. /\ LedgerHeight \in Nat /\ lastHeight \in 0 .. LedgerHeight
      /\ NoRows => LedgerHeight = 0
      /\ ~ NoRows => LedgerHeight = selectLastHeight
      /\ \A h \in DOMAIN blocks : h \in 1 .. LedgerHeight /\ LedgerBlock(h) = blocks[h]
      /\ \A h \in lastHeight + 1 .. LedgerHeight : h \in DOMAIN blocks
  BY <1>1 DEF Shape
<1>3. /\ call \in Block /\ call.height = lastHeight + 1
      /\ call.prevBlock = Contract!blockAt(lastHeight).curBlock
      /\ lastHeight' = lastHeight + 1 /\ blockArray' = Append(blockArray, call)
  BY DEF Types, Contract!add, Contract!Accepts, Contract!NextHeight, Contract!LinksToLast,
         Contract!PushBlock
<1>4. call.height \in 1 .. LedgerHeight /\ call = LedgerBlock(call.height)
  BY DEF Joined, InLedger
<1>5. lastHeight + 1 \in DOMAIN blocks /\ ~ NoRows /\ call = blocks[lastHeight + 1]
  BY <1>2, <1>3, <1>4 DEF NoRows
<1>6. /\ blockArray \in Seq(Block) /\ Len(blockArray) = lastHeight + 1
      /\ \A i \in 1 .. Len(blockArray) : blockArray[i].height = i - 1
      /\ \A i \in 2 .. Len(blockArray) : blockArray[i].prevBlock = blockArray[i - 1].curBlock
      /\ blockArray[1] = Contract!genesis
  BY DEF Types, Chain, Contract!Sequential, Contract!HeightsSequential, Contract!ChainLinked
<1>7. /\ Len(blockArray') = lastHeight + 2 /\ blockArray'[lastHeight + 2] = call
      /\ \A i \in 1 .. lastHeight + 1 : blockArray'[i] = blockArray[i]
  BY <1>2, <1>3, <1>6
<1>8. Chain'
  <2>1. Contract!HeightsSequential'
    <3>1. ASSUME NEW i \in 1 .. Len(blockArray') PROVE blockArray'[i].height = i - 1
      <4>1. CASE i \in 1 .. lastHeight + 1
        BY <4>1, <1>6, <1>7
      <4>2. CASE i = lastHeight + 2
        BY <4>2, <1>2, <1>3, <1>7
      <4>3. QED
        BY <4>1, <4>2, <1>2, <1>7
    <3>2. QED
      BY <3>1, <1>2, <1>3, <1>7 DEF Contract!HeightsSequential
  <2>2. Contract!ChainLinked'
    <3>1. ASSUME NEW i \in 2 .. Len(blockArray')
          PROVE  blockArray'[i].prevBlock = blockArray'[i - 1].curBlock
      <4>1. CASE i \in 2 .. lastHeight + 1
        BY <4>1, <1>2, <1>6, <1>7
      <4>2. CASE i = lastHeight + 2
        <5>1. blockArray'[i - 1] = Contract!blockAt(lastHeight)
          BY <4>2, <1>2, <1>7 DEF Contract!blockAt
        <5>2. QED
          BY <4>2, <5>1, <1>3, <1>7
      <4>3. QED
        BY <4>1, <4>2, <1>2, <1>7
    <3>2. QED
      BY <3>1 DEF Contract!ChainLinked
  <2>3. blockArray'[1] = Contract!genesis'
    BY <1>2, <1>6, <1>7 DEF Contract!genesis
  <2>4. QED
    BY <2>1, <2>2, <2>3 DEF Chain, Contract!Sequential
<1>9. NoRows' = NoRows /\ selectLastHeight' = selectLastHeight
  BY DEF NoRows, selectLastHeight
<1>10. LedgerHeight' = LedgerHeight
  BY <1>2, <1>3, <1>5, <1>9 DEF LedgerHeight
<1>11. /\ \A h \in 0 .. lastHeight : Contract!blockAt(h)' = Contract!blockAt(h)
       /\ \A h \in Nat : h = lastHeight + 1 => Contract!blockAt(h)' = call
  BY <1>2, <1>7 DEF Contract!blockAt
<1>12. ASSUME NEW h \in 0 .. LedgerHeight PROVE LedgerBlock(h)' = LedgerBlock(h)
  <2>1. CASE h \in 0 .. lastHeight
    BY <2>1, <1>2, <1>3, <1>11 DEF LedgerBlock
  <2>2. CASE h = lastHeight + 1
    BY <2>2, <1>2, <1>3, <1>5, <1>11 DEF LedgerBlock
  <2>3. CASE h > lastHeight + 1
    BY <2>3, <1>2, <1>3 DEF LedgerBlock
  <2>4. QED
    BY <2>1, <2>2, <2>3, <1>2
<1>13. Keeps
  BY <1>2, <1>10, <1>12 DEF Keeps
<1>14. RowsLinked'
  BY <1>9 DEF RowsLinked
<1>15. Joined'
  <2>1. ASSUME NEW h \in DOMAIN blocks', h <= lastHeight'
        PROVE  blocks'[h] = Contract!blockAt(h)'
    <3>1. CASE h \in 0 .. lastHeight
      BY <3>1, <1>11 DEF Joined
    <3>2. CASE h = lastHeight + 1
      BY <3>2, <1>2, <1>5, <1>11
    <3>3. QED
      BY <2>1, <3>1, <3>2, <1>2, <1>3
  <2>2. \A row \in pending' : InLedger(row)'
    BY <1>1, <1>13, KeepsRow DEF Joined, InLedger
  <2>3. lastHeight' <= selectLastHeight'
    BY <1>2, <1>3, <1>4, <1>5, <1>9
  <2>4. QED
    BY <2>1, <2>2, <2>3, <1>3, <1>5, <1>9 DEF Joined
<1>16. QED
  BY <1>3, <1>8, <1>10, <1>13, <1>14, <1>15

(* getInfo when the contract has answered. *)
LEMMA LaterOfTwo ==
    ASSUME NEW inStorage, NEW inContract, inContract # None
    PROVE  Later(inStorage, inContract) =
               IF inStorage = None THEN inContract
               ELSE IF inContract.height >= inStorage.height THEN inContract ELSE inStorage
  BY Zenon DEF Later

LEMMA TypesStep == Types /\ Chain /\ RowsLinked /\ [Next]_vars => Types'
<1> SUFFICES ASSUME Types, Chain, RowsLinked, [Next]_vars PROVE Types'
  OBVIOUS
<1> USE DEF Types
<1> DEFINE LastOnChain == LastInfo(Contract!blockAt(lastHeight))
<1>1. LastOnChain \in Info
  BY ChainBlocks DEF LastInfo, Info, Block
<1>2. ~ NoRows => LastInfo(blocks[selectLastHeight]) \in Info
  BY TopRow DEF LastInfo, Info, Block
<1> HIDE DEF LastOnChain
<1>3. CASE TakeSequence
  BY <1>3 DEF TakeSequence, RequestIntake!TakeSequence
<1>4. ASSUME NEW tx \in inflight, StoreTransaction(tx) PROVE Types'
  BY <1>4 DEF StoreTransaction, RequestIntake!Store, insertTx
<1>5. ASSUME NEW call \in pending, Execute(call) PROVE Types'
  <2>1. call \in Block /\ call.height \in Nat
    BY DEF Block
  <2>2. CASE Contract!add(Publisher, call)
    BY <1>5, <2>1, <2>2 DEF Execute, Contract!add, Contract!PushBlock
  <2>3. CASE UNCHANGED contractVars
    BY <1>5, <2>3 DEF Execute
  <2>4. QED
    BY <1>5, <2>2, <2>3 DEF Execute
<1>6. ASSUME NEW call \in pending, Drop(call) PROVE Types'
  BY <1>6 DEF Drop
<1>7. CASE Crash
  BY <1>7 DEF Crash, NodeLost, EndWork, EndSend, InitialHash
<1>8. CASE Restart
  <2>1. <<Contract!genesis>> \in Seq(Block)
    BY DEF Contract!genesis, Block
  <2>2. CASE UNCHANGED chainVars
    BY <1>8, <2>2 DEF Restart
  <2>3. CASE blockArray' = <<Contract!genesis>> /\ lastHeight' = 0 /\ pending' = {}
    <3>1. blockArray' \in Seq(Block) /\ lastHeight' \in Nat /\ pending' \subseteq Block
      BY <2>1, <2>3
    <3>2. QED
      BY <1>8, <3>1 DEF Restart
  <2>4. QED
    BY <1>8, <2>2, <2>3 DEF Restart
<1>9. CASE SendStep
  <2>1. CASE SendReadContract
    BY <1>9, <2>1 DEF SendStep, SendReadContract
  <2>2. CASE SendReadDatabase
    <3>1. NextToSend(contractHeight) \in Block \cup {None}
      BY DEF NextToSend, HasBlock
    <3>2. QED
      BY <1>9, <2>2, <3>1 DEF SendStep, SendReadDatabase, EndSend
  <2>3. CASE SendSubmit
    BY <1>9, <2>3 DEF SendStep, SendSubmit
  <2>4. CASE SendDelete
    BY <1>9, <2>4 DEF SendStep, SendDelete, EndSend, deleteBlockByHeight
  <2>5. QED
    BY <1>9, <2>1, <2>2, <2>3, <2>4 DEF SendStep, SendNext
<1>10. CASE NodeStep
  <2>1. CASE StartReadContract
    BY <1>10, <2>1 DEF NodeStep, StartReadContract
  <2>2. CASE StartReadDatabase
    BY <1>10, <2>2 DEF NodeStep, StartReadDatabase
  <2>3. CASE StartClear
    BY <1>10, <2>3 DEF NodeStep, StartClear, clear, EmptyBlocks
  <2>4. CASE StartReadStorageInfo
    BY <1>10, <2>4, <1>2 DEF NodeStep, StartReadStorageInfo
  <2>5. CASE StartReadContractInfo
    <3>1. LastOnChain # None /\ None \notin Info
      BY <1>1, RollupAssumption DEF Info
    <3>2. ASSUME NEW info \in Info, SetPrevious(info) PROVE prev_hash' \in Nat /\ prev_height' \in Nat
      BY <3>1, <3>2 DEF SetPrevious, Info
    <3>3. Later(info_storage, LastOnChain) \in Info
      BY <1>1, <3>1, LaterOfTwo
    <3>4. Later(info_storage, None) \in Info \cup {None}
      BY Zenon DEF Later
    <3>5. CASE SetPrevious(Later(info_storage, LastOnChain))
      BY <1>10, <2>5, <3>2, <3>3, <3>5 DEF NodeStep, StartReadContractInfo
    <3>6. CASE SetPrevious(Later(info_storage, None))
      <4>1. prev_hash' \in Nat /\ prev_height' \in Nat
        BY <3>2, <3>4, <3>6 DEF SetPrevious
      <4>2. QED
        BY <1>10, <2>5, <4>1 DEF NodeStep, StartReadContractInfo
    <3>7. QED
      BY <2>5, <3>5, <3>6 DEF StartReadContractInfo, LastOnChain
  <2>6. CASE WorkGet
    BY <1>10, <2>6 DEF NodeStep, WorkGet, selectTxByLength
  <2>7. CASE WorkCreate
    <3>1. created' \in Nat /\ UNCHANGED <<tableVars, chainVars, bootVars, prevVars>>
      BY <2>7 DEF WorkCreate
    <3>2. CASE GoesOn
      <4>1. createBlock(created') \in Block
        BY <3>1 DEF createBlock, Block
      <4>2. QED
        BY <1>10, <3>1, <3>2, <4>1 DEF NodeStep, GoesOn
    <3>3. CASE AfterFailedUpload
      BY <1>10, <3>1, <3>3 DEF NodeStep, AfterFailedUpload, EndWork
    <3>4. QED
      BY <2>7, <3>2, <3>3 DEF WorkCreate
  <2>8. CASE WorkInsert
    BY <1>10, <2>8 DEF NodeStep, WorkInsert, insertBlock, RemembersBlock, EndWork, Block
  <2>9. CASE WorkRemove
    BY <1>10, <2>9 DEF NodeStep, WorkRemove, deleteTxByHash, EndWork
  <2>10. QED
    BY <1>10, <2>1, <2>2, <2>3, <2>4, <2>5, <2>6, <2>7, <2>8, <2>9 DEF NodeStep, NodeNext
<1>11. CASE UNCHANGED vars
  BY <1>11 DEF vars
<1>12. QED
  BY <1>3, <1>4, <1>5, <1>6, <1>7, <1>8, <1>9, <1>10, <1>11 DEF Next, RequestStep, ChainStep

----------------------------------------------------------------------------
(* The steps of onStart find the ledger as it is.                          *)
Ready == Orderly /\ Inv

Others == Starting /\ Previous /\ Working /\ Submitting /\ Kept

LEMMA QuietJoined ==
    Joined /\ UNCHANGED ledgerVars /\ (\A call \in pending' : call \in pending \/ InLedger(call))
        => Joined'
  BY SameLedger DEF Joined

LEMMA StartReadContractStep == Ready /\ StartReadContract /\ NodeStep => (Whole => Joined)' /\ Others'
<1> SUFFICES ASSUME Ready, StartReadContract, NodeStep PROVE (Whole => Joined)' /\ Others'
  OBVIOUS
<1> USE DEF Ready, Inv, StartReadContract, NodeStep
<1>1. UNCHANGED <<ledgerVars, pending, work, sending, env, txs, accepted>>
  OBVIOUS
<1>2. (Whole => Joined)'
  BY <1>1, QuietJoined DEF Whole, Cleared
<1>3. Starting'
  <2>1. CASE env.production
    <3>1. ~ LostBlocks(lastHeight)
      <4>1. lastHeight \in Nat /\ Joined /\ RowsLinked /\ (selectLastHeight \in Nat \/ NoRows)
        BY <2>1, TopRow DEF Whole, Types, RowsLinked
      <4>2. QED
        BY <2>1, <4>1, RowsMeet DEF LostBlocks, HasBlock, Whole, Types
    <3>2. ~ LostBlocks(latestHeightContract)'
      BY <3>1, <1>1, SameLedger DEF LostBlocks, HasBlock
    <3>3. QED
      BY <1>1, <2>1, <3>2 DEF Starting
  <2>2. CASE ~ env.production
    BY <1>1, <2>2 DEF Starting
  <2>3. QED
    BY <2>1, <2>2
<1>4. Previous' /\ Working' /\ Submitting'
  BY <1>1 DEF Previous, Working, Submitting, Starting
<1>5. Kept'
  BY <1>1, SameLedger DEF Kept, StoredIsKept
<1>6. QED
  BY <1>2, <1>3, <1>4, <1>5 DEF Others

LEMMA StartReadDatabaseStep == Ready /\ StartReadDatabase /\ NodeStep => (Whole => Joined)' /\ Others'
<1> SUFFICES ASSUME Ready, StartReadDatabase, NodeStep PROVE (Whole => Joined)' /\ Others'
  OBVIOUS
<1> USE DEF Ready, Inv, StartReadDatabase, NodeStep
<1>1. UNCHANGED <<ledgerVars, pending, work, sending, env, txs, accepted>>
  OBVIOUS
<1>2. (Whole => Joined)'
  <2>1. CASE Whole
    BY <1>1, <2>1, QuietJoined
  <2>2. CASE ~ Whole /\ Whole'
    <3>1. lastHeight = 0 /\ pending = {} /\ ~ LostBlocks(0)
      BY <1>1, <2>2 DEF Whole, Cleared, Starting
    <3>2. ~ NoRows => selectLastHeight \in DOMAIN blocks /\ selectLastHeight \in Nat \ {0}
      BY TopRow DEF RowsLinked
    <3>3. ~ NoRows => 1 \in DOMAIN blocks
      BY <3>1, <3>2 DEF LostBlocks, HasBlock
    <3>4. \A h \in DOMAIN blocks : ~ (h <= 0)
      BY DEF RowsLinked
    <3>5. Joined
      BY <3>1, <3>2, <3>3, <3>4 DEF Joined
    <3>6. QED
      BY <1>1, <3>5, QuietJoined
  <2>3. QED
    BY <2>1, <2>2
<1>3. Starting'
  BY <1>1 DEF Starting
<1>4. Previous' /\ Working' /\ Submitting'
  BY <1>1 DEF Previous, Working, Submitting, Starting
<1>5. Kept'
  BY <1>1, SameLedger DEF Kept, StoredIsKept
<1>6. QED
  BY <1>2, <1>3, <1>4, <1>5 DEF Others

LEMMA StartClearStep ==
    Ready /\ StartClear /\ NodeStep => RowsLinked' /\ (Whole => Joined)' /\ Others'
<1> SUFFICES ASSUME Ready, StartClear, NodeStep
             PROVE  RowsLinked' /\ (Whole => Joined)' /\ Others'
  OBVIOUS
<1> USE DEF Ready, Inv, StartClear, NodeStep
<1>1. UNCHANGED <<chainVars, work, sending, env>> /\ DOMAIN blocks' = {}
  BY DEF clear, EmptyBlocks
<1>2. ~ env.production /\ lastHeight = 0 /\ pending = {}
  BY DEF Starting
<1>3. RowsLinked' /\ Joined'
  BY <1>1, <1>2 DEF RowsLinked, Joined, NoRows
<1>4. Starting' /\ Previous' /\ Working' /\ Submitting' /\ Kept'
  BY <1>1, <1>2 DEF Starting, Previous, Working, Submitting, Kept
<1>5. QED
  BY <1>3, <1>4 DEF Others

LEMMA StartReadStorageInfoStep ==
    Ready /\ StartReadStorageInfo /\ NodeStep => (Whole => Joined)' /\ Others'
<1> SUFFICES ASSUME Ready, StartReadStorageInfo, NodeStep PROVE (Whole => Joined)' /\ Others'
  OBVIOUS
<1> USE DEF Ready, Inv, StartReadStorageInfo, NodeStep
<1>1. UNCHANGED <<ledgerVars, pending, work, sending, env, txs, accepted>>
  OBVIOUS
<1>2. (Whole => Joined)'
  BY <1>1, QuietJoined DEF Whole, Cleared
<1>3. Starting'
  <2>1. info_storage' = IF NoRows THEN None ELSE LastInfo(blocks[selectLastHeight])
    BY DEF Orderly
  <2>2. LastInfo(blocks[selectLastHeight])' = LastInfo(blocks[selectLastHeight])
    BY <1>1, SameLedger DEF LastInfo
  <2>3. QED
    BY <1>1, <2>1, <2>2, SameLedger DEF Starting
<1>4. Previous' /\ Working' /\ Submitting'
  BY <1>1 DEF Previous, Working, Submitting, Starting
<1>5. Kept'
  BY <1>1, SameLedger DEF Kept, StoredIsKept
<1>6. QED
  BY <1>2, <1>3, <1>4, <1>5 DEF Others

(* The previous block becomes the last one of the ledger: LastBlockInfo    *)
(* takes the higher of the highest row and the last block of the contract. *)
LEMMA StartReadContractInfoStep ==
    Ready /\ StartReadContractInfo /\ NodeStep => (Whole => Joined)' /\ Others'
<1> SUFFICES ASSUME Ready, StartReadContractInfo, NodeStep PROVE (Whole => Joined)' /\ Others'
  OBVIOUS
<1> USE DEF Ready, Inv, StartReadContractInfo, NodeStep
<1> DEFINE LastOnChain == LastInfo(Contract!blockAt(lastHeight))
<1>1. UNCHANGED <<ledgerVars, pending, work, sending, env, txs, accepted>>
  OBVIOUS
<1>2. Joined /\ Shape
  BY LedgerShape DEF Whole, Cleared
<1>3. (Whole => Joined)'
  BY <1>1, <1>2, QuietJoined
<1>4. Starting' /\ Working' /\ Submitting'
  BY <1>1 DEF Working, Submitting, Starting
<1>5. prev_height' = LedgerHeight /\ prev_hash' = LedgerLast.curBlock
  <2>1. SetPrevious(Later(info_storage, LastOnChain))
    BY DEF Orderly
  <2>2. LastOnChain # None /\ LastOnChain = LastInfo(LedgerBlock(lastHeight))
        /\ LastOnChain.height = lastHeight
    <3>1. /\ Contract!blockAt(lastHeight) \in Block
          /\ Contract!blockAt(lastHeight).height = lastHeight
          /\ LedgerBlock(lastHeight) = Contract!blockAt(lastHeight)
      BY <1>2, ChainBlocks DEF Shape, Types
    <3>2. LastOnChain \in [height : Nat, hash : Nat]
      BY <3>1 DEF LastInfo, Block
    <3>3. QED
      BY <3>1, <3>2, RollupAssumption DEF LastInfo
  <2>3. LedgerHeight \in Nat /\ lastHeight \in 0 .. LedgerHeight
    BY <1>2 DEF Shape
  <2>4. CASE NoRows
    <3>1. info_storage = None /\ lastHeight = LedgerHeight
      BY <1>2, <2>3, <2>4 DEF Starting, Shape
    <3>2. Later(info_storage, LastOnChain) = LastInfo(LedgerBlock(LedgerHeight))
      BY <2>2, <3>1, LaterOfTwo
    <3>3. QED
      BY <2>1, <2>2, <3>1, <3>2 DEF SetPrevious, LastInfo, LedgerLast
  <2>5. CASE ~ NoRows
    <3>1. /\ LedgerBlock(LedgerHeight) \in Block /\ LedgerBlock(LedgerHeight).height = LedgerHeight
          /\ LedgerBlock(LedgerHeight) = blocks[selectLastHeight]
      BY <1>2, <2>3, <2>5 DEF Shape
    <3>2. info_storage = LastInfo(LedgerBlock(LedgerHeight))
      BY <2>5, <3>1 DEF Starting
    <3>3. info_storage \in [height : Nat, hash : Nat] /\ info_storage.height = LedgerHeight
      BY <3>1, <3>2 DEF LastInfo, Block
    <3>4. info_storage # None
      BY <3>3, RollupAssumption
    <3>5. Later(info_storage, LastOnChain) = LastInfo(LedgerBlock(LedgerHeight))
      BY <2>2, <2>3, <3>2, <3>3, <3>4, LaterOfTwo
    <3>6. QED
      BY <2>1, <3>1, <3>2, <3>3, <3>4, <3>5 DEF SetPrevious, LastInfo, LedgerLast
  <2>6. QED
    BY <2>4, <2>5
<1>6. Previous'
  BY <1>1, <1>5, SameLedger DEF Previous
<1>7. Kept'
  BY <1>1, SameLedger DEF Kept, StoredIsKept
<1>8. QED
  BY <1>3, <1>4, <1>6, <1>7 DEF Others

(* The steps of work: they happen when the server is up.                   *)
LEMMA WorkQuietStep ==
    Ready /\ NodeStep
    /\ (WorkGet \/ WorkCreate \/ (WorkInsert /\ work' = "idle") \/ WorkRemove)
        => (Whole => Joined)' /\ Others'
<1> SUFFICES ASSUME Ready, NodeStep,
                    WorkGet \/ WorkCreate \/ (WorkInsert /\ work' = "idle") \/ WorkRemove
             PROVE  (Whole => Joined)' /\ Others'
  OBVIOUS
<1> USE DEF Ready, Inv, NodeStep
<1>1. boot = "up"
  BY DEF Starting, WorkGet, WorkCreate, WorkInsert, WorkRemove, Orderly, TakesTicks
<1>2. UNCHANGED <<ledgerVars, pending, bootVars, prevVars, sendVars, env, accepted, inflight>>
  <2>1. CASE WorkInsert /\ work' = "idle"
    BY <2>1 DEF WorkInsert, Orderly
  <2>2. CASE WorkGet \/ WorkCreate \/ WorkRemove
    BY <2>2 DEF WorkGet, WorkCreate, WorkRemove
  <2>3. QED
    BY <2>1, <2>2
<1>3. (Whole => Joined)'
  BY <1>1, <1>2, QuietJoined DEF Whole, Cleared
<1>4. Starting'
  BY <1>1, <1>2 DEF Starting
<1>5. Previous'
  BY <1>1, <1>2, SameLedger DEF Previous
<1>6. Submitting'
  BY <1>1, <1>2, SameLedger DEF Submitting
<1>7. Working' /\ Kept'
  <2>1. CASE WorkGet
    BY <1>2, <2>1, SameLedger DEF WorkGet, Working, Kept, StoredIsKept
  <2>2. CASE WorkCreate
    BY <1>2, <2>2, SameLedger
       DEF WorkCreate, GoesOn, createBlock, AfterFailedUpload, EndWork, Working, Kept, StoredIsKept
  <2>3. CASE WorkInsert /\ work' = "idle"
    BY <1>2, <2>3, SameLedger DEF WorkInsert, EndWork, Working, Kept, StoredIsKept
  <2>4. CASE WorkRemove
    <3>1. batch \subseteq Sealed /\ work = "remove"
      BY <2>4 DEF WorkRemove, Working
    <3>2. PICK tx \in batch : txs' = txs \ {tx} \/ txs' = txs
      BY <2>4 DEF WorkRemove, deleteTxByHash
    <3>3. Kept'
      BY <1>2, <3>1, <3>2, SameLedger DEF Kept, StoredIsKept
    <3>4. work' = "idle" \/ (work' = "remove" /\ batch' \subseteq batch)
      BY <2>4, <3>1 DEF WorkRemove, EndWork
    <3>5. Working'
      BY <1>2, <3>1, <3>4, SameLedger DEF Working
    <3>6. QED
      BY <3>3, <3>5
  <2>5. QED
    BY <2>1, <2>2, <2>3, <2>4
<1>8. QED
  BY <1>3, <1>4, <1>5, <1>6, <1>7 DEF Others

(* The new block extends the ledger, since Node's memory of the previous   *)
(* block is the last one.                                                  *)
LEMMA WorkInsertStep ==
    Ready /\ NodeStep /\ WorkInsert /\ work' # "idle" => RowsLinked' /\ (Whole => Joined)' /\ Others'
<1> SUFFICES ASSUME Ready, NodeStep, WorkInsert, work' # "idle"
             PROVE  RowsLinked' /\ (Whole => Joined)' /\ Others'
  OBVIOUS
<1> USE DEF Ready, Inv, NodeStep
<1>1. boot = "up" /\ work = "insert" /\ Joined
  BY DEF Starting, WorkInsert, Whole, Cleared
<1>2. /\ insertBlock(block) /\ RemembersBlock /\ work' = "remove" /\ UNCHANGED <<batch, block>>
      /\ UNCHANGED <<lastHeight, blockArray, pending, bootVars, sendVars, env, txs, accepted>>
  BY DEF WorkInsert, EndWork
<1>3. /\ block \in Block /\ block.height = LedgerHeight + 1
      /\ block.prevBlock = LedgerLast.curBlock /\ block.body = batch
  BY <1>1 DEF Types, Working, Previous
<1>4. RowsLinked' /\ Joined' /\ Keeps /\ LedgerHeight' = LedgerHeight + 1 /\ LedgerLast' = block
  BY <1>1, <1>2, <1>3, InsertStep
<1>5. Shape /\ Types' /\ Chain'
  <2>1. Types'
    BY TypesStep DEF Next
  <2>2. Chain'
    BY <1>2 DEF Chain, Contract!Sequential, Contract!HeightsSequential, Contract!ChainLinked,
                Contract!genesis
  <2>3. QED
    BY <1>1, <2>1, <2>2, LedgerShape
<1>6. Shape'
  BY <1>4, <1>5, ShapeNext
<1>7. Sealed \subseteq Sealed'
  BY <1>4, <1>5, <1>6, KeepsSealed
<1>8. batch \subseteq Sealed'
  <2>1. PICK top \in Nat : top = LedgerHeight'
    BY <1>4 DEF Keeps
  <2>2. top \in 1 .. LedgerHeight' /\ LedgerBlock(top)' = block
    BY <1>3, <1>4, <1>5, <2>1 DEF Shape, LedgerLast, LedgerBlock, Contract!blockAt
  <2>3. QED
    BY <1>3, <1>6, <2>2, SealedNext DEF Contents, SealedIsContents
<1>9. Starting'
  BY <1>1, <1>2 DEF Starting
<1>10. Previous'
  BY <1>2, <1>3, <1>4 DEF Previous, RemembersBlock
<1>11. Working'
  BY <1>2, <1>8 DEF Working
<1>12. Submitting'
  <2>1. CASE sending = "submit"
    <3>1. PICK row : row = data
      OBVIOUS
    <3>2. InLedger(row)
      BY <2>1, <3>1 DEF Submitting
    <3>3. row.height \in 1 .. LedgerHeight' /\ row = LedgerBlock(row.height)'
      BY <1>4, <1>5, <3>2, KeepsRow
    <3>4. InLedger(data)'
      BY <1>2, <3>1, <3>3 DEF InLedger, LedgerBlock, Contract!blockAt
    <3>5. QED
      BY <1>2, <3>4 DEF Submitting
  <2>2. CASE sending # "submit"
    BY <1>2, <2>2 DEF Submitting
  <2>3. QED
    BY <2>1, <2>2
<1>13. Kept'
  BY <1>2, <1>7 DEF Kept, StoredIsKept
<1>14. QED
  BY <1>4, <1>9, <1>10, <1>11, <1>12, <1>13 DEF Others

(* The steps of SendBlock, which runs when the server is up.               *)
LEMMA SendQuietStep ==
    Ready /\ SendStep /\ (SendReadContract \/ SendReadDatabase \/ SendSubmit)
        => (Whole => Joined)' /\ Others'
<1> SUFFICES ASSUME Ready, SendStep, SendReadContract \/ SendReadDatabase \/ SendSubmit
             PROVE  (Whole => Joined)' /\ Others'
  OBVIOUS
<1> USE DEF Ready, Inv, SendStep
<1>1. boot = "up" /\ Joined /\ Shape
  BY LedgerShape DEF Whole, Cleared
<1>2. UNCHANGED <<ledgerVars, nodeVars, env, txs, accepted>>
  BY DEF SendReadContract, SendReadDatabase, SendSubmit
<1>3. \A call \in pending' : call \in pending \/ InLedger(call)
  BY DEF SendReadContract, SendReadDatabase, SendSubmit, Submitting
<1>4. (Whole => Joined)'
  BY <1>1, <1>2, <1>3, QuietJoined
<1>5. Starting' /\ Previous' /\ Working' /\ Kept'
  BY <1>1, <1>2, SameLedger DEF Starting, Previous, Working, Kept, StoredIsKept
<1>6. Submitting'
  <2>1. CASE SendReadContract
    BY <1>1, <1>2, <2>1 DEF SendReadContract, Submitting, Shape
  <2>2. CASE SendReadDatabase
    <3>1. sending = "database" /\ contractHeight <= lastHeight
      BY <2>2 DEF SendReadDatabase, Submitting
    <3>2. CASE sending' = "submit"
      <4>1. /\ HasBlock(contractHeight + 1) /\ data' = blocks[contractHeight + 1]
            /\ contractHeight' = contractHeight
        BY <2>2, <3>2 DEF SendReadDatabase, NextToSend, EndSend
      <4>2. PICK row : row = blocks[contractHeight + 1]
        OBVIOUS
      <4>3. /\ row.height = contractHeight + 1 /\ row.height \in 1 .. LedgerHeight
            /\ row = LedgerBlock(row.height)
        BY <1>1, <4>1, <4>2 DEF HasBlock, Shape, RowsLinked
      <4>4. row.height \in 1 .. LedgerHeight' /\ row = LedgerBlock(row.height)'
        BY <1>2, <4>3, SameLedger
      <4>5. InLedger(data)'
        BY <4>1, <4>2, <4>4 DEF InLedger, LedgerBlock, Contract!blockAt
      <4>6. QED
        BY <1>2, <3>1, <4>1, <4>5 DEF Submitting
    <3>3. CASE sending' # "submit"
      BY <1>1, <1>2, <2>2, <3>1, <3>3 DEF SendReadDatabase, EndSend, Submitting, Shape
    <3>4. QED
      BY <3>2, <3>3
  <2>3. CASE SendSubmit
    BY <1>2, <2>3 DEF SendSubmit, Submitting
  <2>4. QED
    BY <2>1, <2>2, <2>3
<1>7. QED
  BY <1>4, <1>5, <1>6 DEF Others

(* What keeps the ledger keeps what was said about it.                     *)
LEMMA KeptLedger ==
    ASSUME Ready, Joined, Types', Chain', RowsLinked', Joined', Keeps,
           LedgerHeight' = LedgerHeight, lastHeight <= lastHeight',
           UNCHANGED <<nodeVars, env, txs, accepted>>
    PROVE  /\ Previous' /\ Working' /\ Kept'
           /\ UNCHANGED sendVars => Submitting'
<1> USE DEF Ready, Inv
<1>1. Shape /\ Shape'
  BY LedgerShape, ShapeNext
<1>2. Sealed \subseteq Sealed'
  BY <1>1, KeepsSealed
<1>3. LedgerLast' = LedgerLast
  <2>1. PICK top \in 0 .. LedgerHeight : top = LedgerHeight
    BY <1>1 DEF Shape
  <2>2. LedgerLast' = LedgerBlock(top)'
    BY <2>1 DEF LedgerLast, LedgerBlock, Contract!blockAt
  <2>3. QED
    BY <2>1, <2>2 DEF Keeps, LedgerLast
<1>4. Previous'
  BY <1>3 DEF Previous
<1>5. Working' /\ Kept'
  BY <1>2 DEF Working, Kept, StoredIsKept
<1>6. ASSUME UNCHANGED sendVars PROVE Submitting'
  <2>1. sending' # "idle" => contractHeight' <= lastHeight'
    BY <1>1, <1>6 DEF Submitting, Shape, Types
  <2>2. CASE sending = "submit"
    <3>1. PICK row : row = data
      OBVIOUS
    <3>2. InLedger(row)
      BY <2>2, <3>1 DEF Submitting
    <3>3. row.height \in 1 .. LedgerHeight' /\ row = LedgerBlock(row.height)'
      BY <1>1, <3>2, KeepsRow
    <3>4. InLedger(data)'
      BY <1>6, <3>1, <3>3 DEF InLedger, LedgerBlock, Contract!blockAt
    <3>5. QED
      BY <2>1, <3>4 DEF Submitting
  <2>3. CASE sending # "submit"
    BY <1>6, <2>1, <2>3 DEF Submitting
  <2>4. QED
    BY <2>2, <2>3
<1>7. QED
  BY <1>4, <1>5, <1>6

LEMMA SendDeleteStep ==
    Ready /\ SendStep /\ SendDelete => RowsLinked' /\ (Whole => Joined)' /\ Others'
<1> SUFFICES ASSUME Ready, SendStep, SendDelete
             PROVE  RowsLinked' /\ (Whole => Joined)' /\ Others'
  OBVIOUS
<1> USE DEF Ready, Inv, SendStep
<1>1. boot = "up" /\ Joined /\ Shape /\ contractHeight <= lastHeight
  BY LedgerShape DEF Whole, Cleared, SendDelete, Submitting
<1>2. /\ UNCHANGED <<lastHeight, blockArray, pending, nodeVars, env, txs, accepted>>
      /\ EndSend
  BY DEF SendDelete
<1>3. Types' /\ Chain'
  BY <1>2, TypesStep DEF Next, Chain, Contract!Sequential, Contract!HeightsSequential,
                         Contract!ChainLinked, Contract!genesis
<1>4. RowsLinked' /\ Joined' /\ Keeps /\ LedgerHeight' = LedgerHeight
  <2>1. CASE deleteBlockByHeight(contractHeight)
    BY <1>1, <1>2, <2>1, DeleteStep
  <2>2. CASE UNCHANGED blocks
    <3>1. UNCHANGED ledgerVars
      BY <1>2, <2>2
    <3>2. RowsLinked' /\ LedgerHeight' = LedgerHeight
      BY <3>1, SameLedger
    <3>3. Keeps
      BY <1>1, <3>1, SameLedger DEF Keeps, Shape
    <3>4. Joined'
      BY <1>1, <1>2, <3>1, QuietJoined
    <3>5. QED
      BY <3>2, <3>3, <3>4
  <2>3. QED
    BY <2>1, <2>2 DEF SendDelete
<1>5. Previous' /\ Working' /\ Kept'
  BY <1>1, <1>2, <1>3, <1>4, KeptLedger DEF Shape
<1>6. Starting' /\ Submitting'
  BY <1>1, <1>2 DEF EndSend, Starting, Submitting
<1>7. QED
  BY <1>4, <1>5, <1>6 DEF Others

(* The chain executes a call, whatever the server is doing.                *)
LEMMA ExecuteStep ==
    ASSUME Ready, NEW call \in pending, Execute(call)
    PROVE  Chain' /\ RowsLinked' /\ (Whole => Joined)' /\ Others'
<1> USE DEF Ready, Inv
<1>1. Joined /\ Shape
  BY LedgerShape DEF Whole
<1>2. /\ pending' = pending \ {call}
      /\ UNCHANGED <<tableVars, nodeVars, sendVars, env, accepted>>
  BY DEF Execute
<1>3. Types'
  BY TypesStep DEF Next, ChainStep
<1>4. /\ Chain' /\ RowsLinked' /\ Joined' /\ Keeps
      /\ LedgerHeight' = LedgerHeight /\ lastHeight <= lastHeight'
  <2>1. CASE Contract!add(Publisher, call)
    BY <1>1, <1>2, <2>1, AddStep DEF Shape
  <2>2. CASE UNCHANGED contractVars
    <3>1. UNCHANGED ledgerVars
      BY <1>2, <2>2
    <3>2. Chain' /\ RowsLinked' /\ LedgerHeight' = LedgerHeight
      BY <3>1, SameLedger
    <3>3. Keeps /\ lastHeight <= lastHeight'
      BY <1>1, <3>1, SameLedger DEF Keeps, Shape
    <3>4. Joined'
      BY <1>1, <1>2, <3>1, QuietJoined
    <3>5. QED
      BY <3>2, <3>3, <3>4
  <2>3. QED
    BY <2>1, <2>2 DEF Execute
<1>5. Previous' /\ Working' /\ Kept' /\ Submitting'
  BY <1>1, <1>2, <1>3, <1>4, KeptLedger
<1>6. Starting'
  <2>1. NoRows' = NoRows /\ selectLastHeight' = selectLastHeight
    BY <1>2 DEF NoRows, selectLastHeight
  <2>2. LastInfo(blocks[selectLastHeight])' = LastInfo(blocks[selectLastHeight])
    BY <1>2, <2>1 DEF LastInfo
  <2>3. LostBlocks(latestHeightContract)' = LostBlocks(latestHeightContract)
    BY <1>2, <2>1 DEF LostBlocks, HasBlock
  <2>4. QED
    BY <1>2, <2>1, <2>2, <2>3 DEF Starting
<1>7. QED
  BY <1>4, <1>5, <1>6 DEF Others

(* Requests, forgotten calls and crashes leave the ledger as it is.        *)
LEMMA OutsideStep ==
    Ready /\ (RequestStep \/ (\E call \in pending : Drop(call)) \/ Crash \/ UNCHANGED vars)
        => Chain' /\ RowsLinked' /\ (Whole => Joined)' /\ Others'
<1> SUFFICES ASSUME Ready,
                    RequestStep \/ (\E call \in pending : Drop(call)) \/ Crash \/ UNCHANGED vars
             PROVE  Chain' /\ RowsLinked' /\ (Whole => Joined)' /\ Others'
  OBVIOUS
<1> USE DEF Ready, Inv
<1>1. /\ UNCHANGED <<ledgerVars, env>> /\ pending' \subseteq pending
      /\ accepted' \ txs' \subseteq accepted \ txs
  BY DEF RequestStep, TakeSequence, StoreTransaction, RequestIntake!TakeSequence,
         RequestIntake!Store, insertTx, Drop, Crash, vars
<1>2. UNCHANGED <<nodeVars, sendVars>> \/ (NodeLost /\ EndSend)
  BY DEF RequestStep, TakeSequence, StoreTransaction, Drop, Crash, vars
<1>3. Chain' /\ RowsLinked'
  BY <1>1, SameLedger
<1>4. (Whole => Joined)'
  <2>1. Whole' => Whole
    BY <1>1, <1>2 DEF Whole, Cleared, NodeLost
  <2>2. QED
    BY <1>1, <2>1, QuietJoined
<1>5. Kept'
  BY <1>1, SameLedger DEF Kept, StoredIsKept
<1>6. Starting' /\ Previous' /\ Working' /\ Submitting'
  <2>1. CASE NodeLost /\ EndSend
    BY <2>1 DEF NodeLost, EndWork, EndSend, Starting, Previous, Working, Submitting
  <2>2. CASE UNCHANGED <<nodeVars, sendVars>>
    <3>1. LastInfo(blocks[selectLastHeight])' = LastInfo(blocks[selectLastHeight])
      BY <1>1, SameLedger DEF LastInfo
    <3>2. LostBlocks(latestHeightContract)' = LostBlocks(latestHeightContract)
      BY <1>1, <2>2, SameLedger DEF LostBlocks, HasBlock
    <3>3. Starting'
      BY <1>1, <2>2, <3>1, <3>2, SameLedger DEF Starting
    <3>4. Previous' /\ Working'
      BY <1>1, <2>2, SameLedger DEF Previous, Working
    <3>5. Submitting'
      BY <1>1, <2>2, SameLedger DEF Submitting, InLedger, LedgerBlock, Contract!blockAt
    <3>6. QED
      BY <3>3, <3>4, <3>5
  <2>3. QED
    BY <1>2, <2>1, <2>2
<1>7. QED
  BY <1>3, <1>4, <1>5, <1>6 DEF Others

(* A restart outside production begins a ledger of its own; the rows of    *)
(* the old one are looked at before Node relies on them.                   *)
LEMMA RestartStep == Ready /\ Restart => Chain' /\ RowsLinked' /\ (Whole => Joined)' /\ Others'
<1> SUFFICES ASSUME Ready, Restart
             PROVE  Chain' /\ RowsLinked' /\ (Whole => Joined)' /\ Others'
  OBVIOUS
<1> USE DEF Ready, Inv, Restart
<1>1. UNCHANGED <<blocks, txs, workVars, prevVars, sendVars, accepted, env>>
  OBVIOUS
<1>2. RowsLinked'
  BY <1>1 DEF RowsLinked, NoRows
<1>3. Starting' /\ Previous' /\ Working' /\ Submitting'
  BY <1>1 DEF Starting, Previous, Working, Submitting
<1>4. CASE env.production
  <2>1. UNCHANGED <<ledgerVars, pending>>
    BY <1>1, <1>4
  <2>2. QED
    BY <1>1, <1>2, <1>3, <1>4, <2>1, SameLedger, QuietJoined
       DEF Others, Whole, Kept, StoredIsKept
<1>5. CASE ~ env.production
  <2>1. blockArray' = <<Contract!genesis>> /\ lastHeight' = 0 /\ pending' = {}
    BY <1>5
  <2>2. Chain'
    BY <2>1 DEF Chain, Contract!Sequential, Contract!HeightsSequential, Contract!ChainLinked,
                Contract!genesis
  <2>3. ~ Whole' /\ Kept'
    BY <1>1, <1>5, <2>1 DEF Whole, Cleared, Kept
  <2>4. QED
    BY <1>2, <1>3, <2>2, <2>3 DEF Others
<1>6. QED
  BY <1>4, <1>5

LEMMA InvInitial == Init => Inv
<1> SUFFICES ASSUME Init PROVE Inv
  OBVIOUS
<1> USE DEF Init, TablesInit, ChainInit, NodeInit, SendIdle, InitialHash
<1>1. blockArray = <<Contract!genesis>> /\ lastHeight = 0 /\ Contract!genesis \in Block
  BY DEF Contract!addGenesis, Contract!genesis, Block
<1>2. DOMAIN blocks = {} /\ NoRows
  BY DEF EmptyBlocks, NoRows
<1>3. Types
  BY <1>1, <1>2 DEF Types
<1>4. Chain
  BY <1>1 DEF Chain, Contract!Sequential, Contract!HeightsSequential, Contract!ChainLinked,
              Contract!genesis
<1>5. RowsLinked /\ Joined
  BY <1>1, <1>2 DEF RowsLinked, Joined
<1>6. Starting /\ Previous /\ Working /\ Submitting /\ Kept
  BY <1>1 DEF Starting, Previous, Working, Submitting, Kept, StoredIsKept
<1>7. QED
  BY <1>3, <1>4, <1>5, <1>6 DEF Inv

LEMMA InvStep == IInv /\ [Next]_vars => IInv'
<1> SUFFICES ASSUME IInv, [Next]_vars, Orderly' PROVE Inv'
  BY DEF IInv
<1>1. env' = env
  BY DEF Next, NodeStep, SendStep, RequestStep, TakeSequence, StoreTransaction, ChainStep, Execute,
         Drop, Crash, Restart, vars
<1>2. Ready
  BY <1>1 DEF IInv, Ready, Orderly
<1>3. Types'
  BY <1>2, TypesStep DEF Ready, Inv
<1>4. Chain' /\ RowsLinked' /\ (Whole => Joined)' /\ Others'
  <2>1. CASE NodeStep
    <3>1. UNCHANGED <<lastHeight, blockArray>>
      BY <2>1 DEF NodeStep, NodeNext, StartReadContract, StartReadDatabase, StartClear,
                  StartReadStorageInfo, StartReadContractInfo, WorkGet, WorkCreate, WorkInsert,
                  WorkRemove
    <3>2. Chain'
      BY <1>2, <3>1 DEF Ready, Inv, Chain, Contract!Sequential, Contract!HeightsSequential,
                        Contract!ChainLinked, Contract!genesis
    <3>3. CASE StartClear
      BY <1>2, <2>1, <3>2, <3>3, StartClearStep
    <3>4. CASE WorkInsert /\ work' # "idle"
      BY <1>2, <2>1, <3>2, <3>4, WorkInsertStep
    <3>5. CASE ~ StartClear /\ ~ (WorkInsert /\ work' # "idle")
      <4>1. UNCHANGED ledgerVars
        <5>1. CASE WorkInsert /\ work' = "idle"
          BY <1>2, <2>1, <5>1 DEF WorkInsert, Ready, Orderly
        <5>2. CASE ~ WorkInsert
          BY <2>1, <3>1, <3>5, <5>2
             DEF NodeStep, NodeNext, StartReadContract, StartReadDatabase, StartReadStorageInfo,
                 StartReadContractInfo, WorkGet, WorkCreate, WorkRemove
        <5>3. QED
          BY <3>5, <5>1, <5>2
      <4>2. RowsLinked'
        BY <1>2, <4>1, SameLedger DEF Ready, Inv
      <4>3. (Whole => Joined)' /\ Others'
        BY <1>2, <2>1, <3>5, StartReadContractStep, StartReadDatabaseStep,
           StartReadStorageInfoStep, StartReadContractInfoStep, WorkQuietStep
           DEF NodeStep, NodeNext
      <4>4. QED
        BY <3>2, <4>2, <4>3
    <3>6. QED
      BY <3>3, <3>4, <3>5
  <2>2. CASE SendStep
    <3>1. CASE SendDelete
      <4>1. Chain'
        BY <1>2, <2>2, <3>1 DEF SendDelete, Ready, Inv, Chain, Contract!Sequential,
                                Contract!HeightsSequential, Contract!ChainLinked, Contract!genesis
      <4>2. QED
        BY <1>2, <2>2, <3>1, <4>1, SendDeleteStep
    <3>2. CASE SendReadContract \/ SendReadDatabase \/ SendSubmit
      <4>1. UNCHANGED ledgerVars
        BY <3>2 DEF SendReadContract, SendReadDatabase, SendSubmit
      <4>2. Chain' /\ RowsLinked'
        BY <1>2, <4>1, SameLedger DEF Ready, Inv
      <4>3. QED
        BY <1>2, <2>2, <3>2, <4>2, SendQuietStep
    <3>3. QED
      BY <2>2, <3>1, <3>2 DEF SendStep, SendNext
  <2>3. CASE ChainStep
    <3>1. PICK call \in pending : Execute(call) \/ Drop(call)
      BY <2>3 DEF ChainStep
    <3>2. QED
      BY <1>2, <3>1, ExecuteStep, OutsideStep
  <2>4. CASE Restart
    BY <1>2, <2>4, RestartStep
  <2>5. CASE RequestStep \/ Crash \/ UNCHANGED vars
    BY <1>2, <2>5, OutsideStep
  <2>6. QED
    BY <2>1, <2>2, <2>3, <2>4, <2>5 DEF Next
<1>5. QED
  BY <1>3, <1>4 DEF Inv, Others

(* The invariant holds in every behaviour.                                 *)
THEOREM InvAlways == Spec => []IInv
<1>1. Init => IInv
  BY InvInitial DEF IInv
<1>2. QED
  BY <1>1, InvStep, PTL DEF Spec

(* Rows and chain agree where they overlap, and no block is missing that   *)
(* SendBlock has still to send.                                            *)
THEOREM OneLedgerAlways == Spec => []OneLedger
<1>1. IInv => OneLedger
  <2> SUFFICES ASSUME IInv, Orderly, env.production \/ Cleared
               PROVE  /\ \A height \in DOMAIN blocks :
                             height <= lastHeight => blocks[height] = Contract!blockAt(height)
                      /\ \A height \in lastHeight + 1 .. LedgerHeight : HasBlock(height)
    BY DEF OneLedger
  <2>1. Joined /\ Shape
    BY LedgerShape DEF IInv, Inv, Whole
  <2>2. QED
    BY <2>1 DEF Joined, Shape, HasBlock
<1>2. QED
  BY <1>1, InvAlways, PTL

(* The headers of rows and chain form one chain of hashes.                 *)
THEOREM HeadersLinkedAlways == Spec => []HeadersLinked
<1>1. IInv => HeadersLinked
  <2> SUFFICES ASSUME IInv, Orderly, env.production \/ Cleared, NEW height \in 1 .. LedgerHeight
               PROVE  /\ LedgerBlock(height).height = height
                      /\ LedgerBlock(height).prevBlock = LedgerBlock(height - 1).curBlock
    BY DEF HeadersLinked
  <2>1. Shape
    BY LedgerShape DEF IInv, Inv, Whole
  <2>2. height \in 0 .. LedgerHeight
    BY <2>1 DEF Shape
  <2>3. QED
    BY <2>1, <2>2 DEF Shape
<1>2. QED
  BY <1>1, InvAlways, PTL

(* Node's memory of the previous block is the newest block of the ledger.  *)
THEOREM PreviousIsLastAlways == Spec => []PreviousIsLast
<1>1. IInv => PreviousIsLast
  BY DEF IInv, Inv, Previous, PreviousIsLast
<1>2. QED
  BY <1>1, InvAlways, PTL

(* Every call on its way to the chain is for a block of the ledger.        *)
THEOREM CallsMatchLedgerAlways == Spec => []CallsMatchLedger
<1>1. IInv => CallsMatchLedger
  BY DEF IInv, Inv, Whole, Joined, InLedger, CallsMatchLedger
<1>2. QED
  BY <1>1, InvAlways, PTL

(* In production no accepted transaction disappears.                       *)
THEOREM NothingLostAlways == Spec => []NothingLost
<1>1. IInv => NothingLost
  BY DEF IInv, Inv, Kept, NothingLost
<1>2. QED
  BY <1>1, InvAlways, PTL

----------------------------------------------------------------------------
(* The contract guards its chain by itself: this needs nothing of what the *)
(* server does, and holds with early ticks and read errors as well.        *)
OnChain ==
    /\ lastHeight \in Nat
    /\ \E S : blockArray \in Seq(S)
    /\ Contract!Sequential

LEMMA OnChainAdd ==
    ASSUME OnChain, NEW call, Contract!add(Publisher, call)
    PROVE  OnChain'
<1>1. PICK S : blockArray \in Seq(S)
  BY DEF OnChain
<1>2. /\ lastHeight \in Nat /\ Len(blockArray) = lastHeight + 1
      /\ \A i \in 1 .. Len(blockArray) : blockArray[i].height = i - 1
      /\ \A i \in 2 .. Len(blockArray) : blockArray[i].prevBlock = blockArray[i - 1].curBlock
  BY DEF OnChain, Contract!Sequential, Contract!HeightsSequential, Contract!ChainLinked
<1>3. /\ call.height = lastHeight + 1 /\ call.prevBlock = blockArray[lastHeight + 1].curBlock
      /\ lastHeight' = lastHeight + 1 /\ blockArray' = Append(blockArray, call)
  BY DEF Contract!add, Contract!Accepts, Contract!NextHeight, Contract!LinksToLast,
         Contract!PushBlock, Contract!blockAt
<1>4. blockArray \in Seq(S \cup {call}) /\ blockArray' \in Seq(S \cup {call})
  BY <1>1, <1>3
<1>5. /\ Len(blockArray') = lastHeight + 2 /\ blockArray'[lastHeight + 2] = call
      /\ \A i \in 1 .. lastHeight + 1 : blockArray'[i] = blockArray[i]
  BY <1>2, <1>3, <1>4
<1>6. \A i \in 1 .. Len(blockArray') : blockArray'[i].height = i - 1
  BY <1>2, <1>3, <1>5
<1>7. ASSUME NEW i \in 2 .. Len(blockArray')
      PROVE  blockArray'[i].prevBlock = blockArray'[i - 1].curBlock
  <2>1. CASE i \in 2 .. lastHeight + 1
    BY <2>1, <1>2, <1>5
  <2>2. CASE i = lastHeight + 2
    BY <2>2, <1>2, <1>3, <1>5
  <2>3. QED
    BY <2>1, <2>2, <1>2, <1>5
<1>8. Contract!Sequential'
  BY <1>2, <1>3, <1>5, <1>6, <1>7
     DEF Contract!Sequential, Contract!HeightsSequential, Contract!ChainLinked
<1>9. QED
  BY <1>2, <1>3, <1>4, <1>8 DEF OnChain

(* No step of the server or of the chain breaks the order of the headers.  *)
LEMMA OnChainAlways == Spec => []OnChain
<1> DEFINE SameChain == lastHeight' = lastHeight /\ blockArray' = blockArray
<1>1. /\ \E S : <<Contract!genesis>> \in Seq(S)
      /\ Len(<<Contract!genesis>>) = 1 /\ <<Contract!genesis>>[1].height = 0
  <2>1. <<Contract!genesis>> \in Seq({Contract!genesis})
    OBVIOUS
  <2>2. QED
    BY <2>1 DEF Contract!genesis
<1>2. Init => OnChain
  BY <1>1 DEF Init, ChainInit, Contract!addGenesis, OnChain, Contract!Sequential,
              Contract!HeightsSequential, Contract!ChainLinked
<1>3. OnChain /\ [Next]_vars => OnChain'
  <2> SUFFICES ASSUME OnChain, [Next]_vars PROVE OnChain'
    OBVIOUS
  <2>1. ASSUME SameChain PROVE OnChain'
    BY <2>1 DEF OnChain, Contract!Sequential, Contract!HeightsSequential, Contract!ChainLinked
  <2>2. CASE NodeStep \/ SendStep \/ RequestStep \/ Crash \/ UNCHANGED vars
    <3>1. SameChain
      BY <2>2 DEF NodeStep, NodeNext, StartReadContract, StartReadDatabase, StartClear,
                  StartReadStorageInfo, StartReadContractInfo, WorkGet, WorkCreate, WorkInsert,
                  WorkRemove, SendStep, SendNext, SendReadContract, SendReadDatabase, SendSubmit,
                  SendDelete, RequestStep, TakeSequence, StoreTransaction, Crash, vars
    <3>2. QED
      BY <2>1, <3>1
  <2>3. CASE ChainStep
    <3>1. PICK call \in pending : Execute(call) \/ Drop(call)
      BY <2>3 DEF ChainStep
    <3>2. SameChain \/ Contract!add(Publisher, call)
      BY <3>1 DEF Execute, Drop
    <3>3. QED
      BY <2>1, <3>2, OnChainAdd
  <2>4. CASE Restart
    <3>1. CASE SameChain
      BY <2>1, <3>1
    <3>2. CASE blockArray' = <<Contract!genesis>> /\ lastHeight' = 0
      BY <1>1, <3>2 DEF OnChain, Contract!Sequential, Contract!HeightsSequential,
                        Contract!ChainLinked
    <3>3. QED
      BY <2>4, <3>1, <3>2 DEF Restart
  <2>5. QED
    BY <2>2, <2>3, <2>4 DEF Next
<1>4. QED
  BY <1>2, <1>3, PTL DEF Spec
============================================================================
