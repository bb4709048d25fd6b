------------------------------ MODULE Rollup ------------------------------
(***************************************************************************)
(* The pipeline of the store purchase server: requests put transactions    *)
(* into the pool, Node seals them into blocks, SendBlock anchors the       *)
(* blocks in the contract, and the server process may crash and restart    *)
(* between any two awaits. The chain executes submitted calls when it      *)
(* likes, in any order, and may drop them.                                 *)
(***************************************************************************)
EXTENDS Node, SendBlock

VARIABLES
    inflight,   \* sequences of requests that have not stored their transaction
    accepted,   \* history: the transactions that pool.add stored
    crashes     \* crashes so far

requestVars == <<inflight, accepted>>
outside == <<crashes, env>>
vars == <<tableVars, chainVars, ipfs, faults, nodeVars, sendVars, requestVars, outside>>

Init ==
    /\ TablesInit
    /\ ChainInit
    /\ NodeInit
    /\ SendIdle
    /\ inflight = {}
    /\ accepted = {}
    /\ crashes = 0

----------------------------------------------------------------------------
(* The requests do what the router has been shown to do: getNextSequence,  *)
(* later pool.add, or nothing any more. The server listens once every      *)
(* scheduler has started. A request whose pool.add fails after it took     *)
(* effect is one that stores; one that never stores has failed.            *)
RequestIntake == INSTANCE Intake

TakeSequence ==
    /\ boot = "up"
    /\ txs_sequence < env.sequences
    /\ RequestIntake!TakeSequence
    /\ UNCHANGED <<blocks, txs, chainVars, ipfs, faults, nodeVars, sendVars, outside>>

StoreTransaction(tx) ==
    /\ RequestIntake!Store(tx)
    /\ insertTx(tx)
    /\ UNCHANGED <<blocks, chainVars, ipfs, faults, nodeVars, sendVars, outside>>

(* The chain executes a submitted call: add takes effect or reverts. *)
Execute(call) ==
    /\ call \in pending
    /\ pending' = pending \ {call}
    /\ \/ Contract!add(Publisher, call)
       \/ ~ Contract!Accepts(Publisher, call) /\ UNCHANGED contractVars
    /\ UNCHANGED <<tableVars, ipfs, faults, nodeVars, sendVars, requestVars, outside>>

(* The chain forgets a call: it is priced out or its nonce is taken. *)
Drop(call) ==
    /\ call \in pending
    /\ pending' = pending \ {call}
    /\ Fails
    /\ UNCHANGED <<tableVars, contractVars, ipfs, nodeVars, sendVars, requestVars, outside>>

(* The process dies (or exits because a scheduler could not start); what   *)
(* is in memory is gone, the tables and the chain stay.                    *)
Crash ==
    /\ boot # "down"
    /\ crashes < env.crashes
    /\ crashes' = crashes + 1
    /\ NodeLost
    /\ EndSend
    /\ inflight' = {}
    /\ UNCHANGED <<tableVars, chainVars, ipfs, faults, accepted, env>>

(* main: outside production every start deploys a contract of its own, and *)
(* the calls submitted to the old one do not reach it.                     *)
Restart ==
    /\ boot = "down"
    /\ boot' = "contract"
    /\ \/ env.production /\ UNCHANGED chainVars
       \/ /\ ~ env.production
          /\ blockArray' = <<Contract!genesis>>
          /\ blockMap' = Contract!genesisMap
          /\ lastHeight' = 0
          /\ pending' = {}
    /\ UNCHANGED <<tableVars, ipfs, faults, workVars, prevVars, latestHeightContract,
                   info_storage, sendVars, requestVars, outside>>

NodeStep == NodeNext /\ UNCHANGED <<sendVars, requestVars, outside>>

(* SendBlock is started after Node. *)
SendStep == boot = "up" /\ SendNext /\ UNCHANGED <<nodeVars, requestVars, outside>>

RequestStep == TakeSequence \/ \E tx \in inflight : StoreTransaction(tx)

ChainStep == \E call \in pending : Execute(call) \/ Drop(call)

Next == NodeStep \/ SendStep \/ RequestStep \/ ChainStep \/ Crash \/ Restart

Spec == Init /\ [][Next]_vars

(* cron ticks both schedulers for as long as the process lives, an awaited *)
(* call returns, the process is started again after a crash, and a chain   *)
(* that does not drop a call executes it.                                  *)
Fairness ==
    /\ WF_vars(NodeStep)
    /\ WF_vars(SendStep)
    /\ WF_vars(\E call \in pending : Execute(call))
    /\ WF_vars(Restart)

FairSpec == Spec /\ Fairness

----------------------------------------------------------------------------
(* Every sequence some behaviour may hand out. *)
Numbers == UNION {1 .. circumstances.sequences : circumstances \in Environments}

(* onStart runs before the first work, its queries are answered, and an    *)
(* insert reported as failed did not take effect.                          *)
Orderly == ~ env.earlyTick /\ ~ env.readErrors /\ ~ env.lateErrors

Cleared == boot \notin {"down", "contract", "database", "clear"}

(* The rows and the chain are one ledger: a row the contract has anchored  *)
(* is that very block, and the rows above it continue it without a gap, so *)
(* SendBlock can always go on. (Outside production this is restored by the *)
(* first steps of onStart.)                                                *)
OneLedger ==
    Orderly /\ (env.production \/ Cleared) =>
        /\ \A height \in DOMAIN blocks :
               height <= lastHeight => blocks[height] = Contract!blockAt(height)
        /\ \A height \in lastHeight + 1 .. LedgerHeight : HasBlock(height)

(* Every block of the ledger names the block before it by hash and stands  *)
(* one above it: the chain of headers has no fork, in the contract and in  *)
(* what is still to be sent to it.                                         *)
HeadersLinked ==
    Orderly /\ (env.production \/ Cleared) =>
        \A height \in 1 .. LedgerHeight :
            /\ LedgerBlock(height).height = height
            /\ LedgerBlock(height).prevBlock = LedgerBlock(height - 1).curBlock

(* When the server is up, Node's memory of the previous block is the       *)
(* newest block of the ledger, whatever crashes, stale rows and submitted  *)
(* calls preceded: the next block will extend the ledger.                  *)
PreviousIsLast ==
    Orderly /\ boot = "up" =>
        /\ prev_height = LedgerHeight
        /\ prev_hash = LedgerLast.curBlock

(* A submitted call, however late or repeated, is for a block of the       *)
(* ledger: the chain will take it or reject it for its height ("3001"),    *)
(* never for its parent ("3002").                                          *)
CallsMatchLedger ==
    Orderly =>
        \A call \in pending : /\ call.height \in 1 .. LedgerHeight
                              /\ call = LedgerBlock(call.height)

(* A transaction the pool has stored is still in the pool or is in a block *)
(* of the ledger.                                                          *)
StoredIsKept == accepted \subseteq txs \cup Sealed

(* In an orderly production it stays so across crashes and failing calls.  *)
(* (Outside production clear() empties the pool, and the blocks stay with  *)
(* the old contract; with an early tick a row is overwritten.)             *)
NothingLost == Orderly /\ env.production => StoredIsKept

(* The content of every block of the ledger was stored on IPFS before the  *)
(* block could be seen in the table or on the chain. (In production also   *)
(* with early ticks and hidden errors; a new contract next to the rows of  *)
(* an old one can then leave a height without a block.)                    *)
ContentAvailable ==
    env.production \/ (Orderly /\ Cleared) =>
        \A height \in 1 .. LedgerHeight : LedgerBlock(height).curBlock \in ipfs

(* Without crashes and failing calls no transaction is in two blocks.      *)
SealedOnce ==
    (crashes = 0 /\ faults = 0) =>
        \A g, h \in 1 .. LedgerHeight :
            g # h => LedgerBlock(g).body \cap LedgerBlock(h).body = {}

(* What was sealed twice never left the pool in between: a new block holds *)
(* no transaction that was accepted and has been removed. (Outside         *)
(* production clear() can empty the pool under a work that an early tick   *)
(* began.)                                                                 *)
NoReplay ==
    [][ env.production \/ Orderly =>
            \A height \in LedgerHeight + 1 .. LedgerHeight' :
                LedgerBlock(height)'.body \cap (accepted \ txs) = {} ]_vars

(* A row is the only thing SendBlock can submit a block from, so in         *)
(* production no row is given up before the contract has a block of that   *)
(* height: neither by deleteBlockByHeight, with its stale height, nor by   *)
(* onStart, which must never take the blocks for lost, whatever early      *)
(* ticks and hidden errors did to the rows. Without these what is given up *)
(* or replaced is the block the contract holds.                            *)
RowsLeaveAnchored ==
    [][ env.production =>
            /\ DOMAIN blocks \ DOMAIN blocks' \subseteq 1 .. lastHeight
            /\ Orderly =>
                   \A height \in DOMAIN blocks :
                       \/ height \in DOMAIN blocks' /\ blocks'[height] = blocks[height]
                       \/ height <= lastHeight /\ blocks[height] = Contract!blockAt(height) ]_vars

(* Every transaction the pool has stored and can read back is in a block   *)
(* of the contract eventually, whatever the other transactions are.        *)
EventuallyAnchored ==
    \A tx \in Numbers : tx \in accepted \ env.unreadable ~> tx \in Anchored

(* What the pipeline promises its callers (module Ledger): accepted        *)
(* transactions wait until a block holds them, the log of blocks only      *)
(* grows, and the contract takes its blocks over in their order. A new     *)
(* contract starts a new ledger, and what onStart or an insert hides from  *)
(* Node breaks it, so this is the promise of an orderly production.        *)
AbstractLedger == INSTANCE Ledger
    WITH Tx <- Numbers,
         waiting <- txs,
         log <- [height \in 1 .. LedgerHeight |-> LedgerBlock(height).body],
         anchored <- lastHeight

ImplementsLedger ==
    /\ AbstractLedger!Init
    /\ [][ Orderly /\ env.production =>
            [AbstractLedger!Next]_(AbstractLedger!vars) ]_vars
============================================================================
