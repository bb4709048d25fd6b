---------------------------- MODULE RollupState ----------------------------
(***************************************************************************)
(* What the server's schedulers share: the database tables, the contract   *)
(* on the chain, the calls submitted to it and not yet executed, and the   *)
(* content stored on IPFS.                                                 *)
(*                                                                         *)
(* A block hash is the number of the block's creation: the header holds a  *)
(* timestamp, and the period gate of Node.work admits one creation per     *)
(* period, so no two created blocks have equal headers; 0 is Hash.Null.    *)
(***************************************************************************)
EXTENDS StorePurchaseStorage, Sequences

CONSTANTS
    max_txs,    \* config.node.max_txs: most transactions in a block
    Publisher,  \* the account that owns the contract and signs every call
    None,       \* undefined
    MaxUint64,
    MaxPage,
    Environments  \* the circumstances a behaviour may run under

(* The circumstances of a behaviour: how it is deployed, what may go wrong  *)
(* while it runs, and the bounds of the instance.                          *)
Environment ==
    [production : BOOLEAN,  \* NODE_ENV: a restart deploys no contract
     earlyTick : BOOLEAN,   \* may the first period boundary fall inside onStart?
     readErrors : BOOLEAN,  \* may a query of LastBlockInfo fail?
     lateErrors : BOOLEAN,  \* may an insert that took effect be reported as failed?
     unreadable : SUBSET Nat, \* transactions whose stored text does not parse
     sequences : Nat,       \* bound: sequences handed out
     faults : Nat,          \* bound: failing calls
     crashes : Nat]         \* bound: crashes of the process

(* A row of table blocks, and what add is called with. *)
Block == [height : Nat, curBlock : Nat, prevBlock : Nat, body : SUBSET Nat]

ASSUME RollupAssumption ==
    /\ max_txs \in Nat \ {0}
    /\ MaxUint64 \in Nat \ {0}
    /\ Environments \subseteq Environment
    /\ None \notin Block /\ None \notin [height : Nat, hash : Nat]

VARIABLES
    env,       \* the circumstances, fixed in the beginning
    lastHeight, blockArray, blockMap,   \* the contract
    pending,   \* calls of add that were submitted and not executed
    ipfs,      \* curBlock of the blocks whose content IPFS holds
    faults     \* how many calls have failed so far

contractVars == <<lastHeight, blockArray, blockMap>>
chainVars == <<contractVars, pending>>

Contract == INSTANCE StorePurchase
    WITH Account <- {Publisher}, NoAccount <- None, owner <- Publisher,
         Hash <- Nat, NullHash <- 0, Body <- SUBSET Nat, GenesisBody <- {}

(* A remote call ends well, or it ends with an error. *)
Succeeds == UNCHANGED faults
Fails == faults < env.faults /\ faults' = faults + 1

ChainInit ==
    /\ env \in Environments
    /\ Contract!addGenesis
    /\ pending = {}
    /\ ipfs = {}
    /\ faults = 0

----------------------------------------------------------------------------
(* The ledger: the blocks the contract holds, continued by the rows of     *)
(* table blocks above them.                                                *)
LedgerHeight ==
    IF NoRows \/ selectLastHeight <= lastHeight
    THEN lastHeight
    ELSE selectLastHeight

LedgerBlock(height) ==
    IF height <= lastHeight THEN Contract!blockAt(height) ELSE blocks[height]

LedgerLast == LedgerBlock(LedgerHeight)

Anchored == UNION {Contract!blockAt(height).body : height \in 1 .. lastHeight}

(* In a block of the contract, or in a row that is still to be sent. *)
Sealed ==
    Anchored \cup UNION {blocks[h].body : h \in {g \in DOMAIN blocks : g > lastHeight}}
============================================================================
