------------------------------- MODULE Node -------------------------------
(***************************************************************************)
(* The block producer: packages/server/src/service/scheduler/Node.ts with  *)
(* the pool it reads (TransactionPool.ts) and LastBlockInfo.ts.            *)
(*                                                                         *)
(* Each action runs from one await to the next. `boot' is where onStart    *)
(* stands and `work' where work stands; Scheduler.start registers the cron *)
(* task before it awaits onStart, so both can be under way at once.        *)
(***************************************************************************)
EXTENDS RollupState

VARIABLES
    prev_hash, prev_height,  \* of the block created last
    boot,                    \* program counter of onStart
    latestHeightContract,    \* local variable of onStart
    info_storage,            \* local variable of LastBlockInfo.getInfo
    work,                    \* program counter of work
    batch,                   \* work: the transactions taken from the pool
    block,                   \* work: the block under construction
    created                  \* number of blocks created: the source of hashes

bootVars == <<boot, latestHeightContract, info_storage>>
workVars == <<work, batch, block, created>>
prevVars == <<prev_hash, prev_height>>
nodeVars == <<bootVars, workVars, prevVars>>

(* Hash.Null *)
InitialHash == 0

(* The constructor of Node, and nothing under way. *)
NodeInit ==
    /\ prev_hash = InitialHash /\ prev_height = 0
    /\ boot = "down" /\ latestHeightContract = 0 /\ info_storage = None
    /\ work = "idle" /\ batch = {} /\ block = None
    /\ created = 0

EndWork ==
    /\ work' = "idle"
    /\ batch' = {}
    /\ block' = None

(* The process is gone, and the next one constructs a new Node. *)
NodeLost ==
    /\ prev_hash' = InitialHash /\ prev_height' = 0
    /\ boot' = "down" /\ latestHeightContract' = 0 /\ info_storage' = None
    /\ EndWork
    /\ UNCHANGED created

----------------------------------------------------------------------------
(* onStart. A failing call here makes start reject and the process exit,   *)
(* which is a crash of the server; only LastBlockInfo swallows errors.     *)
StartReadContract ==
    /\ boot = "contract"
    /\ latestHeightContract' = lastHeight
    /\ boot' = "database"
    /\ UNCHANGED <<tableVars, chainVars, ipfs, faults, info_storage, workVars, prevVars>>

(* Blocks the contract lacks can only be sent if the next one is there. *)
LostBlocks_Never(height) == FALSE

LostBlocks(height) ==
    ~ NoRows /\ selectLastHeight > height /\ ~ HasBlock(height + 1)

StartReadDatabase ==
    /\ boot = "database"
    /\ boot' = IF LostBlocks(latestHeightContract) THEN "clear" ELSE "storageInfo"
    /\ UNCHANGED <<tableVars, chainVars, ipfs, faults, latestHeightContract,
                   info_storage, workVars, prevVars>>

StartClear ==
    /\ boot = "clear"
    /\ clear
    /\ boot' = "storageInfo"
    /\ UNCHANGED <<txs_sequence, chainVars, ipfs, faults, latestHeightContract,
                   info_storage, workVars, prevVars>>

LastInfo(row) == [height |-> row.height, hash |-> row.curBlock]

(* getInfoByStorage: undefined without rows, and when the query fails. *)
StartReadStorageInfo ==
    /\ boot = "storageInfo"
    /\ \/ /\ info_storage' = IF NoRows THEN None ELSE LastInfo(blocks[selectLastHeight])
          /\ Succeeds
       \/ /\ env.readErrors
          /\ info_storage' = None
          /\ Fails
    /\ boot' = "contractInfo"
    /\ UNCHANGED <<tableVars, chainVars, ipfs, latestHeightContract, workVars, prevVars>>

(* getInfo: of the two the higher one, the contract's if they are equal. *)
Later_Contract(inStorage, inContract) == inContract

Later(inStorage, inContract) ==
    CASE inContract = None -> inStorage
      [] inContract # None /\ inStorage = None -> inContract
      [] OTHER -> IF inContract.height >= inStorage.height
                  THEN inContract ELSE inStorage

SetPrevious(info) ==
    /\ prev_height' = IF info = None THEN prev_height ELSE info.height
    /\ prev_hash' = IF info = None THEN prev_hash ELSE info.hash

StartReadContractInfo ==
    /\ boot = "contractInfo"
    /\ \/ /\ SetPrevious(Later(info_storage, LastInfo(Contract!blockAt(lastHeight))))
          /\ Succeeds
       \/ /\ env.readErrors
          /\ SetPrevious(Later(info_storage, None))
          /\ Fails
    /\ boot' = "up"
    /\ latestHeightContract' = 0
    /\ info_storage' = None
    /\ UNCHANGED <<tableVars, chainVars, ipfs, workVars>>

----------------------------------------------------------------------------
(* work. The first action stands for the tick on which the period changes  *)
(* and for pool.get; with an empty pool, or when pool.get or the parsing   *)
(* of a row throws, work ends without a trace.                             *)
(* DBTransaction.converterTxArray throws at a text JSON.parse or a reviver *)
(* refuses: selectTxByLength strips every backslash from the text, so one  *)
(* with an escaped quote is refused.                                       *)
Readable(rows) == rows \cap env.unreadable = {}

TakesTicks == boot = "up" \/ (env.earlyTick /\ boot # "down")

WorkGet ==
    /\ TakesTicks
    /\ work = "idle"
    /\ batch' = selectTxByLength(max_txs)
    /\ batch' # {}
    /\ Readable(batch')
    /\ work' = "create"
    /\ UNCHANGED <<tableVars, chainVars, ipfs, faults, block, created, bootVars, prevVars>>

(* Block.createBlock(prev_hash, prev_height, txs) *)
createBlock(hash) ==
    [height |-> prev_height + 1, curBlock |-> hash, prevBlock |-> prev_hash, body |-> batch]

GoesOn ==
    /\ block' = createBlock(created')
    /\ work' = "insert"
    /\ UNCHANGED batch

AfterFailedUpload_GoesOn == GoesOn

AfterFailedUpload == EndWork

(* Creating the block and ipfs.add, which may fail with or without effect. *)
WorkCreate ==
    /\ work = "create"
    /\ created' = created + 1
    /\ \/ /\ GoesOn
          /\ ipfs' = ipfs \cup {created'}
          /\ Succeeds
       \/ /\ AfterFailedUpload
          /\ ipfs' \in {ipfs, ipfs \cup {created'}}
          /\ Fails
    /\ UNCHANGED <<tableVars, chainVars, bootVars, prevVars>>

RemembersBlock_HeightOnly ==
    /\ prev_height' = block.height
    /\ UNCHANGED prev_hash

RemembersBlock ==
    /\ prev_height' = block.height
    /\ prev_hash' = block.curBlock

(* storage.insertBlock; only when it succeeds does the block become the    *)
(* previous one.                                                           *)
WorkInsert ==
    /\ work = "insert"
    /\ \/ /\ insertBlock(block)
          /\ RemembersBlock
          /\ work' = "remove"
          /\ UNCHANGED <<batch, block>>
          /\ Succeeds
       \/ /\ EndWork
          /\ \/ UNCHANGED blocks
             \/ env.lateErrors /\ insertBlock(block)
          /\ UNCHANGED prevVars
          /\ Fails
    /\ UNCHANGED <<txs, txs_sequence, chainVars, ipfs, created, bootVars>>

(* pool.remove deletes one transaction after the other, in their order;    *)
(* the first error ends work and leaves the rest in the pool.              *)
WorkRemove ==
    /\ work = "remove"
    /\ \E tx \in batch :
        /\ \A other \in batch : tx <= other
        /\ \/ /\ deleteTxByHash(tx)
              /\ IF batch = {tx}
                 THEN EndWork
                 ELSE batch' = batch \ {tx} /\ UNCHANGED <<work, block>>
              /\ Succeeds
           \/ EndWork /\ UNCHANGED txs /\ Fails
    /\ UNCHANGED <<blocks, txs_sequence, chainVars, ipfs, created, bootVars, prevVars>>

NodeNext ==
    \/ StartReadContract
    \/ StartReadDatabase
    \/ StartClear
    \/ StartReadStorageInfo
    \/ StartReadContractInfo
    \/ WorkGet
    \/ WorkCreate
    \/ WorkInsert
    \/ WorkRemove
============================================================================
