--------------------------- MODULE StorePurchase ---------------------------
(***************************************************************************)
(* The roll-up contract packages/contracts/contracts/StorePurchase.sol     *)
(* with its storage layout StorePurchaseStorage.sol.                       *)
(*                                                                         *)
(* A header is [height, curBlock, prevBlock, body]: `body' stands for the  *)
(* three fields the contract stores and never looks at (merkleRoot,        *)
(* timestamp, CID). blockArray is 0-based in Solidity and a sequence here: *)
(* the block of height h is blockArray[h + 1]. A call that reverts has no  *)
(* effect on the state, so it is a predicate (Accepts) and not an action;  *)
(* an external view answers with a record that says whether it reverted.   *)
(***************************************************************************)
EXTENDS Integers, Sequences, SequencesExt

CONSTANTS
    Account,    \* addresses that may call the contract
    NoAccount,  \* address(0), the owner once ownership is renounced
    Hash,       \* values of bytes32
    NullHash,   \* bytes32(0x0)
    Body,       \* the stored fields the contract does not interpret
    GenesisBody,
    MaxUint64,  \* the largest uint64: heights live in 0..MaxUint64
    MaxPage     \* 32 in getByFromHeight

ASSUME ContractAssumption ==
    /\ NoAccount \notin Account
    /\ NullHash \in Hash
    /\ GenesisBody \in Body
    /\ MaxUint64 \in Nat \ {0}
    /\ MaxPage \in Nat \ {0}

VARIABLES
    owner,       \* OwnableUpgradeable: the account onlyOwner lets in
    lastHeight,
    blockArray,
    blockMap     \* height by block hash; DOMAIN = the hashes that `exist'

vars == <<owner, lastHeight, blockArray, blockMap>>

Uint64 == 0 .. MaxUint64

Header == [height : Uint64, curBlock : Hash, prevBlock : Hash, body : Body]

genesis == [height |-> 0, curBlock |-> NullHash, prevBlock |-> NullHash,
            body |-> GenesisBody]

(* blockArray[_height] of the Solidity code *)
blockAt(h) == blockArray[h + 1]

----------------------------------------------------------------------------
(* initialize runs inside the deployment transaction of the proxy, so the  *)
(* first state anyone can observe already holds the genesis block.         *)
genesisMap == [hash \in {NullHash} |-> 0]

addGenesis ==
    /\ blockArray = <<genesis>>
    /\ blockMap = genesisMap
    /\ lastHeight = 0

Init ==
    /\ owner \in Account
    /\ addGenesis

----------------------------------------------------------------------------
(* The two checks of add, in the order of the code: "3001" and "3002".     *)
(* The sum lastHeight + 1 is checked arithmetic: it reverts at the largest *)
(* uint64.                                                                 *)
NextHeight(height) == lastHeight < MaxUint64 /\ height = lastHeight + 1

LinksToLast_Unchecked(prevBlock) == TRUE

LinksToLast(prevBlock) == prevBlock = blockAt(lastHeight).curBlock

Accepts(caller, header) ==
    /\ caller = owner
    /\ NextHeight(header.height)
    /\ LinksToLast(header.prevBlock)

IndexWith_FirstWins(hash, height) ==
    [h \in DOMAIN blockMap \cup {hash} |->
        IF h \in DOMAIN blockMap THEN blockMap[h] ELSE height]

IndexWith_Length(hash, height) ==
    [h \in DOMAIN blockMap \cup {hash} |->
        IF h = hash THEN height + 1 ELSE blockMap[h]]

IndexWith(hash, height) ==
    [h \in DOMAIN blockMap \cup {hash} |->
        IF h = hash THEN height ELSE blockMap[h]]

PushBlock_InPlace(header) == [blockArray EXCEPT ![lastHeight + 1] = header]

PushBlock(header) == Append(blockArray, header)

add(caller, header) ==
    /\ Accepts(caller, header)
    /\ blockArray' = PushBlock(header)
    /\ blockMap' = IndexWith(header.curBlock, header.height)
    /\ lastHeight' = header.height
    /\ owner' = owner

(* Inherited from OwnableUpgradeable. *)
transferOwnership(caller, newOwner) ==
    /\ caller = owner
    /\ owner' = newOwner
    /\ UNCHANGED <<lastHeight, blockArray, blockMap>>

renounceOwnership(caller) ==
    /\ caller = owner
    /\ owner' = NoAccount
    /\ UNCHANGED <<lastHeight, blockArray, blockMap>>

Next ==
    \E caller \in Account :
        \/ \E header \in Header : add(caller, header)
        \/ \E newOwner \in Account : transferOwnership(caller, newOwner)
        \/ renounceOwnership(caller)

Spec == Init /\ [][Next]_vars

----------------------------------------------------------------------------
(* The views. *)
answer(value) == [ok |-> TRUE, value |-> value]

revert(code) == [ok |-> FALSE, code |-> code]

getByHeight(height) ==
    IF height <= lastHeight THEN answer(blockAt(height)) ELSE revert("3003")

getByHash(hash) ==
    IF hash \in DOMAIN blockMap
    THEN answer(blockAt(blockMap[hash]))
    ELSE revert("3005")

(* _height + (_size - 1) and the loop bound _height + _size are uint64     *)
(* sums that revert when they overflow.                                    *)
getByFromHeight_OneShort(height, count) ==
    IF count \in 1 .. MaxPage /\ height + count <= lastHeight
    THEN answer([j \in 1 .. count |-> blockAt(height + j)])
    ELSE revert("3003")

getByFromHeight(height, count) ==
    LET last == height + (count - 1)
    IN  IF count \notin 1 .. MaxPage THEN revert("3006")
        ELSE IF last > MaxUint64 THEN revert("Panic")
        ELSE IF last > lastHeight THEN revert("3003")
        ELSE IF last + 1 > MaxUint64 THEN revert("Panic")
        ELSE answer([j \in 1 .. count |-> blockAt(height + j - 1)])

size == Len(blockArray)

----------------------------------------------------------------------------
(* Every variable holds a value of its Solidity type. *)
TypeOK ==
    /\ owner \in Account \cup {NoAccount}
    /\ lastHeight \in Uint64
    /\ blockArray \in Seq(Header)
    /\ DOMAIN blockMap \subseteq Hash
    /\ \A hash \in DOMAIN blockMap : blockMap[hash] \in Uint64

(* "Stored block headers sequentially": the array holds the heights        *)
(* 0..lastHeight without a gap, and every header names the hash of the     *)
(* header stored just before it.                                           *)
HeightsSequential ==
    /\ Len(blockArray) = lastHeight + 1
    /\ \A i \in 1 .. Len(blockArray) : blockArray[i].height = i - 1

ChainLinked ==
    \A i \in 2 .. Len(blockArray) :
        blockArray[i].prevBlock = blockArray[i - 1].curBlock

Sequential == HeightsSequential /\ ChainLinked

(* A lookup by hash succeeds for the hash of every stored block, and only  *)
(* for those; what it finds is the newest block stored under that hash     *)
(* (the owner may store a hash twice, and blockMap then moves).            *)
HashIndexNewest ==
    \A hash \in Hash :
        LET found == {i \in 1 .. Len(blockArray) : blockArray[i].curBlock = hash}
        IN  IF found = {}
            THEN ~ getByHash(hash).ok
            ELSE /\ getByHash(hash).ok
                 /\ \E i \in found : /\ \A j \in found : j <= i
                                     /\ getByHash(hash).value = blockArray[i]

(* A reader that pages through the chain meets every block: the page that  *)
(* ends at the last block is served, and page and single reads agree.      *)
PagesCoverChain ==
    lastHeight < MaxUint64 =>
        \A height \in 0 .. lastHeight, count \in 1 .. MaxPage :
            height + count <= size =>
                LET page == getByFromHeight(height, count)
                IN  /\ page.ok
                    /\ \A j \in 1 .. count :
                           answer(page.value[j]) = getByHeight(height + j - 1)

(* What is on the chain is never rewritten, whoever calls: a step leaves   *)
(* the stored headers alone or appends exactly one.                        *)
AppendOnly ==
    [][ /\ IsPrefix(blockArray, blockArray')
        /\ Len(blockArray') <= Len(blockArray) + 1 ]_vars
============================================================================
