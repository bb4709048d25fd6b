---------------------------- MODULE LedgerProofs ----------------------------
(***************************************************************************)
(* The pipeline in an orderly production does what module Ledger promises: *)
(* every step is one of Ledger or changes nothing Ledger speaks about,     *)
(* whatever crashes, fails or comes late.                                  *)
(*                                                                         *)
(* Then, what the pipeline never does, also with early ticks and hidden    *)
(* errors: show a block whose content is not stored, give up a row the     *)
(* contract has no block for, seal without a crash or a failing call what  *)
(* it has sealed, or take back what has left the pool; and the order of    *)
(* the requests in the ledger of an orderly production.                    *)
(***************************************************************************)
EXTENDS RollupOrder, RollupProofs, FiniteSetTheorems

USE DEF tableVars, contractVars, chainVars, bootVars, workVars, prevVars, nodeVars,
        sendVars, requestVars, outside, ledgerVars

(* Sequences come from the table, so there are no more than were handed    *)
(* out, and what work holds is a batch that the pool had.                  *)
Numbered ==
    /\ env \in Environments
    /\ txs_sequence \in 0 .. env.sequences
    /\ inflight \subseteq 1 .. txs_sequence /\ txs \subseteq 1 .. txs_sequence

Taken ==
    work \in {"create", "insert"} =>
        batch \subseteq txs /\ batch # {} /\ Cardinality(batch) <= max_txs

LInv == Numbered /\ (Orderly => Taken)

----------------------------------------------------------------------------
(* selectTxByLength takes no more than it was asked for: the rank of a row *)
(* among the others tells the rows it takes apart.                         *)
LEMMA FewTaken ==
    ASSUME NEW K \in Nat, txs \subseteq 1 .. K
    PROVE  Cardinality(selectTxByLength(max_txs)) <= max_txs
<1> DEFINE Below(tx) == {other \in txs : other < tx}
           rank == [tx \in selectTxByLength(max_txs) |-> Cardinality(Below(tx))]
<1>1. max_txs \in Nat \ {0} /\ selectTxByLength(max_txs) \subseteq txs
  BY RollupAssumption DEF selectTxByLength
<1>2. IsFiniteSet(txs) /\ txs \subseteq Int
  <2>1. IsFiniteSet(1 .. K)
    BY FS_Interval
  <2>2. IsFiniteSet(txs)
    BY <2>1, FS_Subset
  <2>3. QED
    BY <2>2
<1>3. ASSUME NEW tx \in txs
      PROVE  IsFiniteSet(Below(tx)) /\ Cardinality(Below(tx)) \in Nat
  <2>1. Below(tx) \in SUBSET txs
    OBVIOUS
  <2>2. IsFiniteSet(Below(tx))
    BY <1>2, <2>1, FS_Subset
  <2>3. QED
    BY <2>2, FS_CardinalityType
<1>4. ASSUME NEW a \in txs, NEW b \in txs, a < b
      PROVE  Cardinality(Below(a)) # Cardinality(Below(b))
  <2>1. Below(a) \in SUBSET Below(b) /\ Below(a) # Below(b)
    <3>1. a \in Int /\ b \in Int /\ txs \subseteq Int
      OBVIOUS
    <3>2. \A tx \in Below(a) : tx \in Below(b)
      BY <1>4, <3>1
    <3>3. a \in Below(b) /\ a \notin Below(a)
      BY <1>4, <3>1
    <3>4. QED
      BY <3>2, <3>3
  <2>2. QED
    BY <1>3, <2>1, FS_Subset
<1>5. rank \in Injection(selectTxByLength(max_txs), 0 .. max_txs - 1)
  <2>1. ASSUME NEW tx \in selectTxByLength(max_txs)
        PROVE  tx \in txs /\ Cardinality(Below(tx)) \in 0 .. max_txs - 1
    <3>1. tx \in txs /\ Cardinality(Below(tx)) < max_txs
      BY DEF selectTxByLength
    <3>2. QED
      BY <1>1, <1>3, <3>1
  <2> HIDE DEF Below
  <2>2. rank \in [selectTxByLength(max_txs) -> 0 .. max_txs - 1]
    BY <2>1
  <2>3. ASSUME NEW a \in selectTxByLength(max_txs), NEW b \in selectTxByLength(max_txs),
               rank[a] = rank[b]
        PROVE  a = b
    <3>1. a \in txs /\ b \in txs /\ a \in Int /\ b \in Int
      BY <1>2, <2>1
    <3>2. Cardinality(Below(a)) = Cardinality(Below(b))
      BY <2>3
    <3>3. QED
      BY <1>4, <3>1, <3>2
  <2>4. QED
    BY <2>2, <2>3 DEF Injection, IsInjective
<1>6. IsFiniteSet(0 .. max_txs - 1) /\ Cardinality(0 .. max_txs - 1) = max_txs
  BY <1>1, FS_Interval
<1>7. QED
  BY <1>5, <1>6, FS_Injection

LEMMA LInvInitial == Init => LInv
<1> SUFFICES ASSUME Init PROVE LInv
  OBVIOUS
<1>1. env \in Environments /\ env.sequences \in Nat
  BY RollupAssumption DEF Init, ChainInit, Environment
<1>2. QED
  BY <1>1 DEF Init, TablesInit, NodeInit, LInv, Numbered, Taken

LEMMA LInvStep == IInv /\ LInv /\ [Next]_vars => LInv'
<1> SUFFICES ASSUME IInv, LInv, [Next]_vars PROVE LInv'
  OBVIOUS
<1>1. env' = env
  BY DEF Next, NodeStep, SendStep, RequestStep, TakeSequence, StoreTransaction, ChainStep, Execute,
         Drop, Crash, Restart, vars
<1>2. Numbered /\ env.sequences \in Nat
  BY RollupAssumption DEF LInv, Numbered, Environment
<1>3. CASE RequestStep
  <2>1. UNCHANGED <<work, batch>>
    BY <1>3 DEF RequestStep, TakeSequence, StoreTransaction
  <2>2. txs \subseteq txs' /\ Numbered'
    <3>1. CASE TakeSequence
      BY <1>1, <1>2, <3>1 DEF TakeSequence, RequestIntake!TakeSequence, Numbered
    <3>2. CASE \E tx \in inflight : StoreTransaction(tx)
      BY <1>1, <1>2, <3>2 DEF StoreTransaction, RequestIntake!Store, insertTx, Numbered
    <3>3. QED
      BY <1>3, <3>1, <3>2 DEF RequestStep
  <2>3. QED
    BY <1>1, <2>1, <2>2 DEF LInv, Taken, Orderly
<1>4. CASE NodeStep
  <2>1. UNCHANGED <<txs_sequence, inflight>> /\ txs' \subseteq txs
    BY <1>4 DEF NodeStep, NodeNext, StartReadContract, StartReadDatabase, StartClear, clear,
                StartReadStorageInfo, StartReadContractInfo, WorkGet, WorkCreate, WorkInsert,
                WorkRemove, deleteTxByHash
  <2>2. Numbered'
    BY <1>1, <1>2, <2>1 DEF Numbered
  <2>3. ASSUME Orderly, Taken PROVE Taken'
    <3>1. CASE WorkGet
      <4>1. batch' = selectTxByLength(max_txs) /\ batch' # {} /\ txs' = txs
        BY <3>1 DEF WorkGet
      <4>2. txs_sequence \in Nat /\ txs \subseteq 1 .. txs_sequence
        BY <1>2 DEF Numbered
      <4>3. Cardinality(batch') <= max_txs
        BY <4>1, <4>2, FewTaken
      <4>4. batch' \subseteq txs
        BY <4>1 DEF selectTxByLength
      <4>5. QED
        BY <4>1, <4>3, <4>4 DEF Taken
    <3>2. CASE WorkCreate
      BY <2>3, <3>2 DEF WorkCreate, GoesOn, AfterFailedUpload, EndWork, Taken
    <3>3. CASE WorkInsert
      BY <3>3 DEF WorkInsert, EndWork, Taken
    <3>4. CASE WorkRemove
      BY <3>4 DEF WorkRemove, EndWork, Taken
    <3>5. CASE StartClear
      BY <2>3, <3>5 DEF StartClear, IInv, Inv, Starting, Taken
    <3>6. CASE StartReadContract \/ StartReadDatabase \/ StartReadStorageInfo
               \/ StartReadContractInfo
      BY <2>3, <3>6 DEF StartReadContract, StartReadDatabase, StartReadStorageInfo,
                        StartReadContractInfo, Taken
    <3>7. QED
      BY <1>4, <3>1, <3>2, <3>3, <3>4, <3>5, <3>6 DEF NodeStep, NodeNext
  <2>4. QED
    BY <1>1, <2>2, <2>3 DEF LInv, Orderly
<1>5. CASE SendStep \/ ChainStep \/ Restart \/ UNCHANGED vars
  <2>1. UNCHANGED <<txs, txs_sequence, inflight, work, batch>>
    BY <1>5 DEF SendStep, SendNext, SendReadContract, SendReadDatabase, SendSubmit, SendDelete,
                ChainStep, Execute, Drop, Restart, vars
  <2>2. QED
    BY <1>1, <2>1 DEF LInv, Numbered, Taken, Orderly
<1>6. CASE Crash
  BY <1>1, <1>6 DEF Crash, NodeLost, EndWork, LInv, Numbered, Taken, Orderly
<1>7. QED
  BY <1>3, <1>4, <1>5, <1>6 DEF Next

----------------------------------------------------------------------------
(* The log of module Ledger, and what the steps do to it.                  *)
Log == [height \in 1 .. LedgerHeight |-> LedgerBlock(height).body]

LEMMA SameLog ==
    Shape /\ Keeps /\ LedgerHeight' = LedgerHeight => Log' = Log
<1> SUFFICES ASSUME Shape, Keeps, LedgerHeight' = LedgerHeight PROVE Log' = Log
  OBVIOUS
<1>1. \A h \in 1 .. LedgerHeight : LedgerBlock(h)' = LedgerBlock(h)
  BY DEF Shape, Keeps
<1>2. QED
  BY <1>1 DEF Log

LEMMA LongerLog ==
    ASSUME Shape, Keeps, LedgerHeight' = LedgerHeight + 1
    PROVE  Log' = Append(Log, LedgerLast'.body)
<1>1. LedgerHeight \in Nat
  BY DEF Shape
<1>2. PICK top \in Nat : top = LedgerHeight + 1
  BY <1>1
<1>3. LedgerLast' = LedgerBlock(top)'
  BY <1>2 DEF LedgerLast, LedgerBlock, Contract!blockAt
<1> DEFINE Bodies == {LedgerBlock(h).body : h \in 1 .. LedgerHeight} \cup {LedgerLast'.body}
<1>4. Log \in Seq(Bodies) /\ Len(Log) = LedgerHeight
  BY <1>1 DEF Log
<1>5. /\ Append(Log, LedgerLast'.body) \in Seq(Bodies)
      /\ Len(Append(Log, LedgerLast'.body)) = top
      /\ \A h \in 1 .. LedgerHeight : Append(Log, LedgerLast'.body)[h] = LedgerBlock(h).body
      /\ Append(Log, LedgerLast'.body)[top] = LedgerLast'.body
  BY <1>1, <1>2, <1>4 DEF Log
<1>6. /\ DOMAIN Log' = 1 .. top
      /\ \A h \in 1 .. top : Log'[h] = LedgerBlock(h)'.body
  BY <1>2 DEF Log
<1>7. \A h \in 1 .. LedgerHeight : LedgerBlock(h)' = LedgerBlock(h)
  BY <1>1 DEF Keeps
<1>8. \A h \in 1 .. top : Log'[h] = Append(Log, LedgerLast'.body)[h]
  BY <1>1, <1>2, <1>3, <1>5, <1>6, <1>7
<1>9. Log' = [h \in 1 .. top |-> Log'[h]]
  BY <1>2 DEF Log
<1>10. Append(Log, LedgerLast'.body) = [h \in 1 .. top |-> Append(Log, LedgerLast'.body)[h]]
  BY <1>5
<1>11. QED
  BY <1>8, <1>9, <1>10

----------------------------------------------------------------------------
(* The steps that change what Ledger speaks about.                         *)
Production == IInv /\ LInv /\ Orderly /\ env.production

LEMMA ProductionShape ==
    Production => /\ Inv /\ Numbered /\ Taken /\ Ready /\ Joined /\ Shape
                  /\ LedgerHeight \in Nat /\ Len(Log) = LedgerHeight
                  /\ \A h \in 1 .. Len(Log) : Log[h] = LedgerBlock(h).body
<1> SUFFICES ASSUME Production
             PROVE  /\ Inv /\ Numbered /\ Taken /\ Ready /\ Joined /\ Shape
                    /\ LedgerHeight \in Nat /\ Len(Log) = LedgerHeight
                    /\ \A h \in 1 .. Len(Log) : Log[h] = LedgerBlock(h).body
  OBVIOUS
<1>1. Inv /\ Numbered /\ Taken /\ Ready /\ Joined
  BY DEF Production, IInv, LInv, Ready, Inv, Whole
<1>2. Shape /\ LedgerHeight \in Nat
  BY <1>1, LedgerShape DEF Inv, Shape
<1>3. Log \in Seq({LedgerBlock(h).body : h \in 1 .. LedgerHeight}) /\ Len(Log) = LedgerHeight
  BY <1>2 DEF Log
<1>4. QED
  BY <1>1, <1>2, <1>3 DEF Log

LEMMA SameLogStep == Production /\ UNCHANGED ledgerVars => Log' = Log
<1> SUFFICES ASSUME Production, UNCHANGED ledgerVars PROVE Log' = Log
  OBVIOUS
<1>1. Shape
  BY ProductionShape
<1>2. LedgerHeight' = LedgerHeight
  BY SameLedger
<1>3. \A h : LedgerBlock(h)' = LedgerBlock(h)
  BY SameLedger
<1>4. Keeps
  BY <1>1, <1>2, <1>3 DEF Keeps, Shape
<1>5. QED
  BY <1>1, <1>2, <1>4, SameLog

(* storage.insertBlock seals what the pool holds.                          *)
LEMMA InsertSeals ==
    Production /\ NodeStep /\ WorkInsert /\ work' # "idle"
        => \E content \in SUBSET txs :
               /\ content # {} /\ Cardinality(content) <= max_txs
               /\ Log' = Append(Log, content) /\ UNCHANGED <<txs, lastHeight>>
<1> SUFFICES ASSUME Production, NodeStep, WorkInsert, work' # "idle"
             PROVE  /\ batch \in SUBSET txs /\ batch # {} /\ Cardinality(batch) <= max_txs
                    /\ Log' = Append(Log, batch) /\ UNCHANGED <<txs, lastHeight>>
  OBVIOUS
<1>1. /\ Inv /\ Taken /\ Joined /\ Shape
  BY ProductionShape
<1>2. /\ work = "insert" /\ insertBlock(block) /\ RemembersBlock
      /\ UNCHANGED <<lastHeight, blockArray, pending, txs>>
  BY DEF NodeStep, WorkInsert, EndWork
<1>3. boot = "up"
  BY <1>1, <1>2 DEF Inv, Starting
<1>4. /\ block \in Block /\ block.height = LedgerHeight + 1
      /\ block.prevBlock = LedgerLast.curBlock /\ block.body = batch
  BY <1>1, <1>2, <1>3 DEF Inv, Types, Working, Previous
<1>5. Keeps /\ LedgerHeight' = LedgerHeight + 1 /\ LedgerLast' = block
  BY <1>1, <1>2, <1>4, InsertStep DEF Inv
<1>6. Log' = Append(Log, batch)
  BY <1>1, <1>4, <1>5, LongerLog
<1>7. QED
  BY <1>1, <1>2, <1>6 DEF Taken

(* pool.remove takes away what a block holds.                              *)
LEMMA RemoveRetires ==
    Production /\ NodeStep /\ WorkRemove
        => /\ UNCHANGED ledgerVars
           /\ \/ txs' = txs
              \/ \E tx \in txs : txs' = txs \ {tx} /\ \E i \in 1 .. Len(Log) : tx \in Log[i]
<1> SUFFICES ASSUME Production, NodeStep, WorkRemove, txs' # txs
             PROVE  \E tx \in txs : txs' = txs \ {tx} /\ \E i \in 1 .. Len(Log) : tx \in Log[i]
  BY DEF WorkRemove
<1>1. PICK tx \in batch : txs' = txs \ {tx}
  BY DEF WorkRemove, deleteTxByHash
<1>2. batch \subseteq Sealed
  BY ProductionShape DEF Inv, Working, WorkRemove
<1>3. PICK h \in 1 .. LedgerHeight : tx \in LedgerBlock(h).body
  BY <1>2, ProductionShape, SealedInLedger DEF Contents, SealedIsContents
<1>4. h \in 1 .. Len(Log) /\ tx \in Log[h]
  BY <1>3, ProductionShape
<1>5. QED
  BY <1>1, <1>4

(* The contract's add anchors the next block of the log.                   *)
LEMMA ExecuteAnchors ==
    ASSUME Production, NEW call \in pending, Execute(call)
    PROVE  /\ Log' = Log /\ txs' = txs
           /\ lastHeight' = lastHeight \/ (lastHeight < Len(Log) /\ lastHeight' = lastHeight + 1)
<1>1. Inv /\ Joined /\ Shape /\ LedgerHeight \in Nat /\ Len(Log) = LedgerHeight
  BY ProductionShape
<1>2. txs' = txs /\ blocks' = blocks /\ pending' \subseteq pending
  BY DEF Execute
<1>3. CASE Contract!add(Publisher, call)
  <2>1. Keeps /\ LedgerHeight' = LedgerHeight /\ lastHeight' = lastHeight + 1
    BY <1>1, <1>2, <1>3, AddStep DEF Inv
  <2>2. call.height = lastHeight + 1 /\ call.height \in 1 .. LedgerHeight
    BY <1>1, <1>3 DEF Contract!add, Contract!Accepts, Contract!NextHeight, Joined, InLedger
  <2>3. Log' = Log
    BY <1>1, <2>1, SameLog
  <2>4. lastHeight < Len(Log)
    BY <1>1, <2>2 DEF Shape
  <2>5. QED
    BY <1>2, <2>1, <2>3, <2>4
<1>4. CASE UNCHANGED contractVars
  BY <1>2, <1>4, SameLogStep
<1>5. QED
  BY <1>3, <1>4 DEF Execute

(* SendBlock deletes rows whose blocks the contract has.                   *)
LEMMA DeleteKeepsLog ==
    Production /\ SendStep /\ SendDelete => Log' = Log /\ UNCHANGED <<txs, lastHeight>>
<1> SUFFICES ASSUME Production, SendStep, SendDelete
             PROVE  Log' = Log /\ UNCHANGED <<txs, lastHeight>>
  OBVIOUS
<1>1. Inv /\ Joined /\ Shape
  BY ProductionShape
<1>2. UNCHANGED <<txs, lastHeight, blockArray, pending>>
  BY DEF SendDelete
<1>3. CASE deleteBlockByHeight(contractHeight)
  <2>1. contractHeight <= lastHeight
    BY <1>1 DEF Inv, Submitting, SendDelete
  <2>2. Keeps /\ LedgerHeight' = LedgerHeight
    BY <1>1, <1>2, <1>3, <2>1, DeleteStep DEF Inv
  <2>3. QED
    BY <1>1, <1>2, <2>2, SameLog
<1>4. CASE UNCHANGED blocks
  BY <1>2, <1>4, SameLogStep
<1>5. QED
  BY <1>3, <1>4 DEF SendDelete

(* Every step of the pipeline is a step of Ledger, or none.                *)
LEMMA LedgerStep ==
    Production /\ [Next]_vars => [AbstractLedger!Next]_(AbstractLedger!vars)
<1> SUFFICES ASSUME Production, [Next]_vars
             PROVE  [AbstractLedger!Next]_(AbstractLedger!vars)
  OBVIOUS
<1> DEFINE Stutter == Log' = Log /\ UNCHANGED <<txs, lastHeight>>
<1>1. Stutter => UNCHANGED AbstractLedger!vars
  BY DEF AbstractLedger!vars, Log
<1>2. ASSUME NEW tx \in Numbers, txs' = txs \cup {tx}, Log' = Log, UNCHANGED lastHeight
      PROVE  AbstractLedger!Next
  BY <1>2 DEF AbstractLedger!Next, AbstractLedger!Accept, Log
<1>3. ASSUME NEW content \in SUBSET txs, content # {}, Cardinality(content) <= max_txs,
             Log' = Append(Log, content), UNCHANGED <<txs, lastHeight>>
      PROVE  AbstractLedger!Next
  <2>1. AbstractLedger!Cardinality(content) = Cardinality(content)
    BY DEF AbstractLedger!Cardinality, Cardinality
  <2>2. AbstractLedger!Seal(content)
    BY <1>3, <2>1 DEF AbstractLedger!Seal, Log
  <2>3. QED
    BY <2>2 DEF AbstractLedger!Next
<1>4. ASSUME NEW tx \in txs, txs' = txs \ {tx}, \E i \in 1 .. Len(Log) : tx \in Log[i],
             Log' = Log, UNCHANGED lastHeight
      PROVE  AbstractLedger!Next
  BY <1>4 DEF AbstractLedger!Next, AbstractLedger!Retire, Log
<1>5. ASSUME lastHeight < Len(Log), lastHeight' = lastHeight + 1, Log' = Log, UNCHANGED txs
      PROVE  AbstractLedger!Next
  BY <1>5 DEF AbstractLedger!Next, AbstractLedger!Anchor, Log
<1> HIDE DEF Stutter
<1>6. CASE RequestStep
  <2>1. UNCHANGED <<ledgerVars, lastHeight>>
    BY <1>6 DEF RequestStep, TakeSequence, StoreTransaction
  <2>2. Log' = Log
    BY <2>1, SameLogStep
  <2>3. CASE TakeSequence
    BY <1>1, <2>1, <2>2, <2>3 DEF TakeSequence, Stutter
  <2>4. ASSUME NEW tx \in inflight, StoreTransaction(tx) PROVE AbstractLedger!Next
    <3>1. tx \in Numbers
      <4>1. tx \in 1 .. env.sequences /\ env \in Environments
        BY ProductionShape, RollupAssumption DEF Numbered, Environment
      <4>2. QED
        BY <4>1 DEF Numbers
    <3>2. txs' = txs \cup {tx}
      BY <2>4 DEF StoreTransaction, insertTx
    <3>3. QED
      BY <1>2, <2>1, <2>2, <3>1, <3>2
  <2>5. QED
    BY <1>6, <2>3, <2>4 DEF RequestStep
<1>7. CASE NodeStep
  <2>1. CASE WorkInsert /\ work' # "idle"
    BY <1>3, <1>7, <2>1, InsertSeals
  <2>2. CASE WorkRemove
    <3>1. Log' = Log /\ UNCHANGED lastHeight
      BY <1>7, <2>2, RemoveRetires, SameLogStep
    <3>2. QED
      BY <1>1, <1>4, <1>7, <2>2, <3>1, RemoveRetires DEF Stutter
  <2>3. CASE ~ WorkRemove /\ ~ (WorkInsert /\ work' # "idle")
    <3>1. ~ StartClear
      BY ProductionShape DEF Production, Inv, Starting, StartClear
    <3>2. UNCHANGED <<ledgerVars, txs, lastHeight>>
      <4>1. CASE WorkInsert /\ work' = "idle"
        BY <4>1 DEF WorkInsert, Production, Orderly
      <4>2. CASE ~ WorkInsert
        BY <1>7, <2>3, <3>1, <4>2
           DEF NodeStep, NodeNext, StartReadContract, StartReadDatabase, StartReadStorageInfo,
               StartReadContractInfo, WorkGet, WorkCreate
      <4>3. QED
        BY <2>3, <4>1, <4>2
    <3>3. QED
      BY <1>1, <3>2, SameLogStep DEF Stutter
  <2>4. QED
    BY <2>1, <2>2, <2>3
<1>8. CASE SendStep
  <2>1. CASE SendDelete
    BY <1>1, <1>8, <2>1, DeleteKeepsLog DEF Stutter
  <2>2. CASE SendReadContract \/ SendReadDatabase \/ SendSubmit
    <3>1. UNCHANGED <<ledgerVars, txs, lastHeight>>
      BY <2>2 DEF SendReadContract, SendReadDatabase, SendSubmit
    <3>2. QED
      BY <1>1, <3>1, SameLogStep DEF Stutter
  <2>3. QED
    BY <1>8, <2>1, <2>2 DEF SendStep, SendNext
<1>9. CASE ChainStep
  <2>1. PICK call \in pending : Execute(call) \/ Drop(call)
    BY <1>9 DEF ChainStep
  <2>2. CASE Execute(call)
    BY <1>1, <1>5, <2>2, ExecuteAnchors DEF Stutter
  <2>3. CASE Drop(call)
    BY <1>1, <2>3, SameLogStep DEF Drop, Stutter
  <2>4. QED
    BY <2>1, <2>2, <2>3
<1>10. CASE Crash \/ Restart \/ UNCHANGED vars
  <2>1. UNCHANGED <<ledgerVars, txs, lastHeight>>
    BY <1>10 DEF Crash, Restart, Production, vars
  <2>2. QED
    BY <1>1, <2>1, SameLogStep DEF Stutter
<1>11. QED
  BY <1>6, <1>7, <1>8, <1>9, <1>10 DEF Next

(* What an orderly production promises its callers: accepted transactions  *)
(* wait until a block holds them, the log only grows, and the contract     *)
(* takes its blocks over one by one, through all crashes and failing calls.*)
THEOREM LedgerImplemented == Spec => ImplementsLedger
<1>1. Init => AbstractLedger!Init
  <2> SUFFICES ASSUME Init PROVE AbstractLedger!Init
    OBVIOUS
  <2>1. txs = {} /\ lastHeight = 0
    BY DEF Init, TablesInit, ChainInit, Contract!addGenesis
  <2>2. LedgerHeight = 0
    BY <2>1 DEF Init, TablesInit, EmptyBlocks, LedgerHeight, NoRows
  <2>3. [height \in 1 .. LedgerHeight |-> LedgerBlock(height).body] = <<>>
    BY <2>2
  <2>4. QED
    BY <2>1, <2>3 DEF AbstractLedger!Init
<1>2. IInv /\ LInv /\ [Next]_vars
      => [ Orderly /\ env.production => [AbstractLedger!Next]_(AbstractLedger!vars) ]_vars
  BY LedgerStep DEF Production
<1>3. Spec => []LInv
  BY LInvInitial, LInvStep, InvAlways, PTL DEF Spec
<1>4. QED
  BY <1>1, <1>2, <1>3, InvAlways, PTL DEF Spec, ImplementsLedger

----------------------------------------------------------------------------
(* Every block in the making: in the rows, in the contract, on its way     *)
(* there, or about to be inserted.                                         *)
Made ==
    {blocks[h] : h \in DOMAIN blocks}
    \cup {blockArray[i] : i \in 2 .. Len(blockArray)}
    \cup pending
    \cup {row \in {data} : sending = "submit"}
    \cup {row \in {block} : work = "insert"}

(* The block that work has just made. *)
NewBlock == createBlock(created')

Creates == WorkCreate /\ work' = "insert" /\ block' = NewBlock /\ ipfs' = ipfs \cup {created'}

----------------------------------------------------------------------------
(* Where the blocks come from, step by step.                               *)
LEMMA EnvFixed == [Next]_vars => env' = env
  BY DEF Next, NodeStep, SendStep, RequestStep, TakeSequence, StoreTransaction, ChainStep, Execute,
         Drop, Crash, Restart, vars

Inserts == NodeStep /\ WorkInsert /\ insertBlock(block)

(* A row stays, goes, or is the block that work inserts.                   *)
LEMMA RowsStep ==
    [Next]_vars =>
        \/ UNCHANGED blocks
        \/ Inserts
        \/ SendStep /\ SendDelete /\ deleteBlockByHeight(contractHeight)
        \/ NodeStep /\ StartClear /\ blocks' = EmptyBlocks
<1> SUFFICES ASSUME [Next]_vars, blocks' # blocks
             PROVE  \/ Inserts
                    \/ SendStep /\ SendDelete /\ deleteBlockByHeight(contractHeight)
                    \/ NodeStep /\ StartClear /\ blocks' = EmptyBlocks
  OBVIOUS
<1>1. CASE NodeStep
  BY <1>1 DEF NodeStep, NodeNext, StartReadContract, StartReadDatabase, StartClear, clear,
              StartReadStorageInfo, StartReadContractInfo, WorkGet, WorkCreate, WorkInsert,
              WorkRemove, Inserts
<1>2. CASE SendStep
  BY <1>2 DEF SendStep, SendNext, SendReadContract, SendReadDatabase, SendSubmit, SendDelete
<1>3. CASE RequestStep \/ ChainStep \/ Crash \/ Restart \/ UNCHANGED vars
  BY <1>3 DEF RequestStep, TakeSequence, StoreTransaction, ChainStep, Execute, Drop, Crash,
              Restart, vars
<1>4. QED
  BY <1>1, <1>2, <1>3 DEF Next

LEMMA RowsFrom ==
    ASSUME [Next]_vars, NEW h \in DOMAIN blocks'
    PROVE  \/ h \in DOMAIN blocks /\ blocks'[h] = blocks[h]
           \/ Inserts /\ h = block.height /\ blocks'[h] = block
<1>1. CASE Inserts
  BY <1>1 DEF Inserts, insertBlock
<1>2. CASE deleteBlockByHeight(contractHeight)
  BY <1>2 DEF deleteBlockByHeight
<1>3. CASE blocks' = EmptyBlocks
  BY <1>3 DEF EmptyBlocks
<1>4. QED
  BY <1>1, <1>2, <1>3, RowsStep

(* The contract's chain stays, grows by a submitted call, or is a new one. *)
LEMMA ChainStepKinds ==
    [Next]_vars =>
        \/ UNCHANGED <<lastHeight, blockArray>>
        \/ \E call \in pending : Execute(call) /\ Contract!add(Publisher, call)
        \/ /\ Restart /\ ~ env.production
           /\ blockArray' = <<Contract!genesis>> /\ lastHeight' = 0 /\ pending' = {}
<1> SUFFICES ASSUME [Next]_vars, ~ UNCHANGED <<lastHeight, blockArray>>
             PROVE  \/ \E call \in pending : Execute(call) /\ Contract!add(Publisher, call)
                    \/ /\ Restart /\ ~ env.production
                       /\ blockArray' = <<Contract!genesis>> /\ lastHeight' = 0 /\ pending' = {}
  OBVIOUS
<1>1. CASE NodeStep \/ SendStep \/ RequestStep \/ Crash \/ UNCHANGED vars
  BY <1>1 DEF NodeStep, NodeNext, StartReadContract, StartReadDatabase, StartClear,
              StartReadStorageInfo, StartReadContractInfo, WorkGet, WorkCreate, WorkInsert,
              WorkRemove, SendStep, SendNext, SendReadContract, SendReadDatabase, SendSubmit,
              SendDelete, RequestStep, TakeSequence, StoreTransaction, Crash, vars
<1>2. CASE ChainStep
  <2>1. PICK call \in pending : Execute(call) \/ Drop(call)
    BY <1>2 DEF ChainStep
  <2>2. QED
    BY <2>1 DEF Execute, Drop
<1>3. CASE Restart
  BY <1>3 DEF Restart
<1>4. QED
  BY <1>1, <1>2, <1>3 DEF Next

LEMMA AddAppends ==
    ASSUME OnChain, NEW call, Contract!add(Publisher, call)
    PROVE  /\ lastHeight \in Nat /\ Len(blockArray) = lastHeight + 1
           /\ call.height = lastHeight + 1 /\ lastHeight' = lastHeight + 1
           /\ Len(blockArray') = lastHeight + 2 /\ blockArray'[lastHeight + 2] = call
           /\ \A i \in 1 .. lastHeight + 1 : blockArray'[i] = blockArray[i]
<1>1. PICK S : blockArray \in Seq(S)
  BY DEF OnChain
<1>2. lastHeight \in Nat /\ Len(blockArray) = lastHeight + 1
  BY DEF OnChain, Contract!Sequential, Contract!HeightsSequential
<1>3. /\ call.height = lastHeight + 1
      /\ lastHeight' = lastHeight + 1 /\ blockArray' = Append(blockArray, call)
  BY DEF Contract!add, Contract!Accepts, Contract!NextHeight, Contract!PushBlock
<1>4. blockArray \in Seq(S \cup {call}) /\ blockArray' \in Seq(S \cup {call})
  BY <1>1, <1>3
<1>5. QED
  BY <1>2, <1>3, <1>4

LEMMA ChainFrom ==
    ASSUME OnChain, [Next]_vars, NEW i \in 2 .. Len(blockArray')
    PROVE  \/ i \in 2 .. Len(blockArray) /\ blockArray'[i] = blockArray[i]
           \/ blockArray'[i] \in pending
<1>1. CASE UNCHANGED <<lastHeight, blockArray>>
  BY <1>1
<1>2. ASSUME NEW call \in pending, Contract!add(Publisher, call)
      PROVE  \/ i \in 2 .. Len(blockArray) /\ blockArray'[i] = blockArray[i]
             \/ blockArray'[i] \in pending
  <2>1. i = lastHeight + 2 \/ i \in 2 .. lastHeight + 1
    BY <1>2, AddAppends
  <2>2. QED
    BY <1>2, <2>1, AddAppends
<1>3. CASE blockArray' = <<Contract!genesis>>
  BY <1>3
<1>4. QED
  BY <1>1, <1>2, <1>3, ChainStepKinds

LEMMA CallsFrom ==
    [Next]_vars => \A call \in pending' :
                       call \in pending \/ (SendStep /\ sending = "submit" /\ call = data)
<1> SUFFICES ASSUME [Next]_vars
             PROVE  \A call \in pending' :
                        call \in pending \/ (SendStep /\ sending = "submit" /\ call = data)
  OBVIOUS
<1>1. CASE NodeStep
  BY <1>1 DEF NodeStep, NodeNext, StartReadContract, StartReadDatabase, StartClear,
              StartReadStorageInfo, StartReadContractInfo, WorkGet, WorkCreate, WorkInsert,
              WorkRemove
<1>2. CASE SendStep
  BY <1>2 DEF SendStep, SendNext, SendReadContract, SendReadDatabase, SendSubmit, SendDelete
<1>3. CASE RequestStep \/ ChainStep \/ Crash \/ Restart \/ UNCHANGED vars
  BY <1>3 DEF RequestStep, TakeSequence, StoreTransaction, ChainStep, Execute, Drop, Crash,
              Restart, vars
<1>4. QED
  BY <1>1, <1>2, <1>3 DEF Next

LEMMA DataFrom ==
    [Next]_vars /\ sending' = "submit" =>
        \/ sending = "submit" /\ data' = data
        \/ /\ UNCHANGED <<blocks, lastHeight, blockArray>>
           /\ \E h \in DOMAIN blocks : data' = blocks[h]
<1> SUFFICES ASSUME [Next]_vars, sending' = "submit", ~ (sending = "submit" /\ data' = data)
             PROVE  /\ UNCHANGED <<blocks, lastHeight, blockArray>>
                    /\ \E h \in DOMAIN blocks : data' = blocks[h]
  OBVIOUS
<1>1. CASE NodeStep \/ RequestStep \/ ChainStep \/ Crash \/ Restart \/ UNCHANGED vars
  BY <1>1 DEF NodeStep, RequestStep, TakeSequence, StoreTransaction, ChainStep, Execute, Drop,
              Crash, EndSend, Restart, vars
<1>2. CASE SendStep
  <2>1. SendReadDatabase
    BY <1>2 DEF SendStep, SendNext, SendReadContract, SendSubmit, SendDelete, EndSend
  <2>2. /\ data' = NextToSend(contractHeight) /\ data' # None
        /\ UNCHANGED <<blocks, lastHeight, blockArray>>
    BY <2>1 DEF SendReadDatabase, EndSend
  <2>3. contractHeight + 1 \in DOMAIN blocks /\ data' = blocks[contractHeight + 1]
    BY <2>2 DEF NextToSend, HasBlock
  <2>4. QED
    BY <2>2, <2>3
<1>3. QED
  BY <1>1, <1>2 DEF Next

LEMMA BlockFrom ==
    [Next]_vars /\ work' = "insert" =>
        \/ work = "insert" /\ UNCHANGED <<block, batch, work>>
        \/ NodeStep /\ Creates /\ batch' = batch
<1> SUFFICES ASSUME [Next]_vars, work' = "insert"
             PROVE  \/ work = "insert" /\ UNCHANGED <<block, batch, work>>
                    \/ NodeStep /\ Creates /\ batch' = batch
  OBVIOUS
<1>1. CASE NodeStep
  <2>1. CASE WorkCreate
    BY <1>1, <2>1 DEF WorkCreate, GoesOn, AfterFailedUpload, EndWork, Creates, NewBlock
  <2>2. CASE StartReadContract \/ StartReadDatabase \/ StartClear \/ StartReadStorageInfo
               \/ StartReadContractInfo
    BY <2>2 DEF StartReadContract, StartReadDatabase, StartClear, StartReadStorageInfo,
                StartReadContractInfo
  <2>3. CASE WorkGet \/ WorkInsert \/ WorkRemove
    BY <2>3 DEF WorkGet, WorkInsert, WorkRemove, EndWork
  <2>4. QED
    BY <1>1, <2>1, <2>2, <2>3 DEF NodeStep, NodeNext
<1>2. CASE SendStep \/ RequestStep \/ ChainStep \/ Crash \/ Restart \/ UNCHANGED vars
  BY <1>2 DEF SendStep, RequestStep, TakeSequence, StoreTransaction, ChainStep, Execute, Drop,
              Crash, NodeLost, EndWork, Restart, vars
<1>3. QED
  BY <1>1, <1>2 DEF Next

(* Nothing but work makes a block.                                         *)
LEMMA MadeFrom ==
    ASSUME OnChain, [Next]_vars, NEW row \in Made'
    PROVE  row \in Made \/ (NodeStep /\ Creates /\ batch' = batch /\ row = NewBlock)
<1>1. ASSUME NEW h \in DOMAIN blocks', row = blocks'[h] PROVE row \in Made
  BY <1>1, RowsFrom DEF Made, Inserts, WorkInsert
<1>2. ASSUME NEW i \in 2 .. Len(blockArray'), row = blockArray'[i] PROVE row \in Made
  BY <1>2, ChainFrom DEF Made
<1>3. ASSUME row \in pending' PROVE row \in Made
  BY <1>3, CallsFrom DEF Made
<1>4. ASSUME sending' = "submit", row = data' PROVE row \in Made
  BY <1>4, DataFrom DEF Made
<1>5. ASSUME work' = "insert", row = block'
      PROVE  row \in Made \/ (NodeStep /\ Creates /\ batch' = batch /\ row = NewBlock)
  BY <1>5, BlockFrom DEF Made, Creates
<1>6. QED
  BY <1>1, <1>2, <1>3, <1>4, <1>5 DEF Made

----------------------------------------------------------------------------
(* Content is stored before anything names it.                             *)
Uploaded == \A row \in Made : row.curBlock \in ipfs

LEMMA StoreGrows == [Next]_vars => ipfs \subseteq ipfs'
<1> SUFFICES ASSUME [Next]_vars PROVE ipfs \subseteq ipfs'
  OBVIOUS
<1>1. CASE NodeStep
  BY <1>1 DEF NodeStep, NodeNext, StartReadContract, StartReadDatabase, StartClear,
              StartReadStorageInfo, StartReadContractInfo, WorkGet, WorkCreate, WorkInsert,
              WorkRemove
<1>2. CASE SendStep \/ RequestStep \/ ChainStep \/ Crash \/ Restart \/ UNCHANGED vars
  BY <1>2 DEF SendStep, SendNext, SendReadContract, SendReadDatabase, SendSubmit, SendDelete,
              RequestStep, TakeSequence, StoreTransaction, ChainStep, Execute, Drop, Crash,
              Restart, vars
<1>3. QED
  BY <1>1, <1>2 DEF Next

LEMMA MadeInitial == Init => Made = {}
<1> SUFFICES ASSUME Init PROVE Made = {}
  OBVIOUS
<1>1. DOMAIN blocks = {} /\ pending = {} /\ sending = "idle" /\ work = "idle"
  BY DEF Init, TablesInit, EmptyBlocks, ChainInit, SendIdle, NodeInit
<1>2. Len(blockArray) = 1
  BY DEF Init, ChainInit, Contract!addGenesis
<1>3. QED
  BY <1>1, <1>2 DEF Made

LEMMA UploadedAlways == Spec => []Uploaded
<1>1. Init => Uploaded
  BY MadeInitial DEF Uploaded
<1>2. OnChain /\ Uploaded /\ [Next]_vars => Uploaded'
  <2> SUFFICES ASSUME OnChain, Uploaded, [Next]_vars, NEW row \in Made'
               PROVE  row.curBlock \in ipfs'
    BY DEF Uploaded
  <2>1. CASE row \in Made
    BY <2>1, StoreGrows DEF Uploaded
  <2>2. CASE Creates /\ row = NewBlock
    BY <2>2 DEF Creates, NewBlock, createBlock
  <2>3. QED
    BY <2>1, <2>2, MadeFrom
<1>3. QED
  BY <1>1, <1>2, OnChainAlways, PTL DEF Spec

----------------------------------------------------------------------------
(* Rows and heights. A row stands at its height, also where an early tick  *)
(* or a hidden error put it.                                               *)
RowsNumbered == \A h \in DOMAIN blocks : blocks[h].height = h

LEMMA RowsNumberedAlways == Spec => []RowsNumbered
<1>1. Init => RowsNumbered
  BY DEF Init, TablesInit, EmptyBlocks, RowsNumbered
<1>2. RowsNumbered /\ [Next]_vars => RowsNumbered'
  BY RowsFrom DEF RowsNumbered
<1>3. QED
  BY <1>1, <1>2, PTL DEF Spec

Counters == faults \in Nat /\ crashes \in Nat

LEMMA CountersStep == Counters /\ [Next]_vars => /\ faults' \in {faults, faults + 1}
                                                 /\ crashes' \in {crashes, crashes + 1}
<1> SUFFICES ASSUME Counters, [Next]_vars
             PROVE  faults' \in {faults, faults + 1} /\ crashes' \in {crashes, crashes + 1}
  OBVIOUS
<1> USE DEF Succeeds, Fails
<1>1. CASE NodeStep
  BY <1>1 DEF NodeStep, NodeNext, StartReadContract, StartReadDatabase, StartClear,
              StartReadStorageInfo, StartReadContractInfo, WorkGet, WorkCreate, WorkInsert,
              WorkRemove
<1>2. CASE SendStep
  BY <1>2 DEF SendStep, SendNext, SendReadContract, SendReadDatabase, SendSubmit, SendDelete
<1>3. CASE RequestStep \/ ChainStep \/ Crash \/ Restart \/ UNCHANGED vars
  BY <1>3 DEF RequestStep, TakeSequence, StoreTransaction, ChainStep, Execute, Drop, Crash,
              Restart, vars
<1>4. QED
  BY <1>1, <1>2, <1>3 DEF Next

LEMMA CountersAlways == Spec => []Counters
<1>1. Init => Counters
  BY DEF Init, ChainInit, Counters
<1>2. Counters /\ [Next]_vars => Counters'
  BY CountersStep DEF Counters
<1>3. QED
  BY <1>1, <1>2, PTL DEF Spec

(* In production, and before the first crash, the contract is never        *)
(* exchanged while Node has rows to continue: whatever Node remembers and  *)
(* SendBlock submits, the rows go on above the contract without a gap.     *)
Steady == env.production \/ crashes = 0

RowsReach(height) == \A h \in height .. LedgerHeight : h = 0 \/ h \in DOMAIN blocks

NoGap ==
    /\ lastHeight \in Nat /\ LedgerHeight \in Nat /\ lastHeight <= LedgerHeight
    /\ DOMAIN blocks \subseteq 1 .. LedgerHeight
    /\ RowsReach(lastHeight)

Below ==
    /\ prev_height \in 0 .. LedgerHeight
    /\ info_storage # None => info_storage.height \in 0 .. LedgerHeight
    /\ work = "insert" => block.height \in 1 .. LedgerHeight + 1
    /\ \A call \in pending : call.height \in 1 .. LedgerHeight
    /\ sending = "submit" => data.height \in 1 .. LedgerHeight
    /\ contractHeight \in 0 .. lastHeight

Begun ==
    /\ boot # "clear"
    /\ latestHeightContract \in 0 .. lastHeight
    /\ boot = "database" => RowsReach(latestHeightContract)
    /\ boot = "down" /\ crashes = 0 =>
           lastHeight = 0 /\ blockArray = <<Contract!genesis>> /\ pending = {}

Gapless == NoGap /\ Below /\ Begun

GapInv == Steady => Gapless

(* What the top of the ledger is.                                          *)
LEMMA HighestOf ==
    ASSUME NEW D, NEW top \in Nat, NEW low \in 0 .. top, D \subseteq 1 .. top,
           \A h \in low .. top : h = 0 \/ h \in D
    PROVE  /\ D = {} => low = top
           /\ D # {} => /\ top \in D
                       /\ (CHOOSE height \in D : \A h \in D : h <= height) = top
<1>1. CASE D = {}
  <2>1. top \in low .. top /\ low \in low .. top
    OBVIOUS
  <2>2. top = 0 /\ low = 0
    BY <1>1, <2>1
  <2>3. QED
    BY <1>1, <2>2
<1>2. CASE D # {}
  <2>1. PICK d \in D : d \in 1 .. top
    BY <1>2
  <2>2. top \in low .. top /\ top # 0
    BY <2>1
  <2>3. top \in D /\ D \subseteq Nat /\ \A h \in D : h <= top
    BY <2>2
  <2>4. (CHOOSE height \in D : \A h \in D : h <= height) = top
    BY <2>3, Top
  <2>5. QED
    BY <1>2, <2>3, <2>4
<1>3. QED
  BY <1>1, <1>2

LEMMA LedgerTop ==
    NoGap => /\ NoRows => LedgerHeight = lastHeight
             /\ ~ NoRows => selectLastHeight = LedgerHeight /\ LedgerHeight \in DOMAIN blocks
<1> SUFFICES ASSUME NoGap
             PROVE  /\ NoRows => LedgerHeight = lastHeight
                    /\ ~ NoRows => /\ selectLastHeight = LedgerHeight
                                  /\ LedgerHeight \in DOMAIN blocks
  OBVIOUS
<1>1. PICK top \in Nat : top = LedgerHeight
  BY DEF NoGap
<1>2. /\ lastHeight \in 0 .. top /\ DOMAIN blocks \subseteq 1 .. top
      /\ \A h \in lastHeight .. top : h = 0 \/ h \in DOMAIN blocks
  BY <1>1 DEF NoGap, RowsReach
<1>3. NoRows => lastHeight = top
  BY <1>2, HighestOf DEF NoRows
<1>4. ~ NoRows => selectLastHeight = top /\ top \in DOMAIN blocks
  BY <1>2, HighestOf DEF NoRows, selectLastHeight
<1>5. QED
  BY <1>1, <1>3, <1>4

LEMMA HeightNext ==
    ASSUME NEW top \in Nat, lastHeight' \in 0 .. top, DOMAIN blocks' \subseteq 1 .. top,
           \A h \in lastHeight' .. top : h = 0 \/ h \in DOMAIN blocks'
    PROVE  LedgerHeight' = top
<1>1. NoRows' => lastHeight' = top
  BY HighestOf DEF NoRows
<1>2. ~ NoRows' => selectLastHeight' = top
  BY HighestOf DEF NoRows, selectLastHeight
<1>3. QED
  BY <1>1, <1>2 DEF LedgerHeight

(* A step leaves the rows without a gap, and the top where it is or, when  *)
(* work inserts the next block, one higher.                                *)
LEMMA NoGapStep ==
    ASSUME OnChain, Gapless, Steady, Steady', Counters, [Next]_vars
    PROVE  /\ NoGap' /\ lastHeight <= lastHeight'
           /\ \/ LedgerHeight' = LedgerHeight
              \/ /\ Inserts /\ block.height = LedgerHeight + 1
                 /\ LedgerHeight' = LedgerHeight + 1
           /\ \A low \in Nat : RowsReach(low) /\ boot # "up" => RowsReach(low)'
<1>1. PICK top \in Nat : top = LedgerHeight
  BY DEF Gapless, NoGap
<1>2. /\ lastHeight \in 0 .. top /\ DOMAIN blocks \subseteq 1 .. top
      /\ \A h \in lastHeight .. top : h = 0 \/ h \in DOMAIN blocks
  BY <1>1 DEF Gapless, NoGap, RowsReach
<1>3. CASE UNCHANGED ledgerVars
  <2>1. LedgerHeight' = LedgerHeight
    BY <1>3, SameLedger
  <2>2. NoGap' /\ \A low \in Nat : RowsReach(low) => RowsReach(low)'
    BY <1>3, <2>1 DEF Gapless, NoGap, RowsReach
  <2>3. QED
    BY <1>2, <1>3, <2>1, <2>2
<1>4. CASE Inserts
  <2>1. block.height \in 1 .. top + 1
    BY <1>1, <1>4 DEF Inserts, WorkInsert, Gapless, Below
  <2>2. /\ DOMAIN blocks' = DOMAIN blocks \cup {block.height}
        /\ UNCHANGED <<lastHeight, blockArray>>
    BY <1>4 DEF Inserts, WorkInsert, insertBlock
  <2>3. PICK next \in Nat : next = IF block.height = top + 1 THEN top + 1 ELSE top
    OBVIOUS
  <2>4. /\ lastHeight' \in 0 .. next /\ DOMAIN blocks' \subseteq 1 .. next
        /\ \A h \in lastHeight' .. next : h = 0 \/ h \in DOMAIN blocks'
    BY <1>2, <2>1, <2>2, <2>3
  <2>5. LedgerHeight' = next
    BY <2>4, HeightNext
  <2>6. NoGap'
    BY <2>4, <2>5 DEF NoGap, RowsReach
  <2>7. ASSUME NEW low \in Nat, RowsReach(low) PROVE RowsReach(low)'
    <3>1. \A h \in low .. top : h = 0 \/ h \in DOMAIN blocks
      BY <1>1, <2>7 DEF RowsReach
    <3>2. \A h \in low .. next : h = 0 \/ h \in DOMAIN blocks'
      BY <2>2, <2>3, <3>1
    <3>3. QED
      BY <2>5, <3>2 DEF RowsReach
  <2>8. QED
    BY <1>1, <1>2, <1>4, <2>1, <2>2, <2>3, <2>5, <2>6, <2>7
<1>5. CASE SendStep /\ SendDelete /\ deleteBlockByHeight(contractHeight)
  <2>1. /\ DOMAIN blocks' = {h \in DOMAIN blocks : h >= contractHeight}
        /\ lastHeight' = lastHeight /\ contractHeight \in 0 .. lastHeight /\ boot = "up"
    BY <1>5 DEF SendStep, SendDelete, deleteBlockByHeight, Gapless, Below
  <2>2. /\ lastHeight' \in 0 .. top /\ DOMAIN blocks' \subseteq 1 .. top
        /\ \A h \in lastHeight' .. top : h = 0 \/ h \in DOMAIN blocks'
    BY <1>2, <2>1
  <2>3. LedgerHeight' = top
    BY <2>2, HeightNext
  <2>4. NoGap'
    BY <2>2, <2>3 DEF NoGap, RowsReach
  <2>5. QED
    BY <1>1, <1>2, <2>1, <2>3, <2>4
<1>6. ASSUME NEW call \in pending, Execute(call), Contract!add(Publisher, call)
      PROVE  /\ NoGap' /\ lastHeight <= lastHeight' /\ LedgerHeight' = LedgerHeight
             /\ \A low \in Nat : RowsReach(low) => RowsReach(low)'
  <2>1. lastHeight' = lastHeight + 1 /\ lastHeight + 1 \in 1 .. top
    BY <1>1, <1>6, AddAppends DEF Gapless, Below
  <2>2. blocks' = blocks
    BY <1>6 DEF Execute
  <2>3. /\ lastHeight' \in 0 .. top /\ DOMAIN blocks' \subseteq 1 .. top
        /\ \A h \in lastHeight' .. top : h = 0 \/ h \in DOMAIN blocks'
    BY <1>2, <2>1, <2>2
  <2>4. LedgerHeight' = top
    BY <2>3, HeightNext
  <2>5. NoGap'
    BY <2>3, <2>4 DEF NoGap, RowsReach
  <2>6. \A low \in Nat : RowsReach(low) => RowsReach(low)'
    BY <1>1, <2>2, <2>4 DEF RowsReach
  <2>7. QED
    BY <1>1, <1>2, <2>1, <2>4, <2>5, <2>6
<1>7. CASE Restart /\ ~ env.production /\ blockArray' = <<Contract!genesis>> /\ lastHeight' = 0
  <2>1. UNCHANGED ledgerVars
    BY <1>7 DEF Restart, Steady, Gapless, Begun, ledgerVars
  <2>2. QED
    BY <1>3, <2>1
<1>8. ~ (NodeStep /\ StartClear)
  BY DEF StartClear, Gapless, Begun
<1>9. \/ UNCHANGED blocks
      \/ UNCHANGED <<lastHeight, blockArray>>
  BY RowsStep DEF Inserts, WorkInsert, SendDelete, StartClear, ledgerVars
<1>10. QED
  BY <1>3, <1>4, <1>5, <1>6, <1>7, <1>8, <1>9, RowsStep, ChainStepKinds DEF ledgerVars

LEMMA LaterOneOf ==
    ASSUME NEW inStorage, NEW inContract
    PROVE  Later(inStorage, inContract) \in {inStorage, inContract}
<1>1. Later(inStorage, inContract) = inStorage \/ Later(inStorage, inContract) = inContract
  BY Zenon DEF Later
<1>2. QED
  BY <1>1

LEMMA LastOnChain ==
    OnChain => LastInfo(Contract!blockAt(lastHeight)).height = lastHeight
<1> SUFFICES ASSUME OnChain
             PROVE  LastInfo(Contract!blockAt(lastHeight)).height = lastHeight
  OBVIOUS
<1>1. /\ lastHeight \in Nat /\ Len(blockArray) = lastHeight + 1
      /\ \A i \in 1 .. Len(blockArray) : blockArray[i].height = i - 1
  BY DEF OnChain, Contract!Sequential, Contract!HeightsSequential
<1>2. Contract!blockAt(lastHeight).height = lastHeight
  BY <1>1 DEF Contract!blockAt
<1>3. QED
  BY <1>2 DEF LastInfo

(* What Node and SendBlock remember stays below the top.                   *)
LEMMA PreviousStep ==
    ASSUME OnChain, RowsNumbered, Gapless, NoGap', lastHeight <= lastHeight',
           LedgerHeight <= LedgerHeight', Inserts => block.height <= LedgerHeight', [Next]_vars
    PROVE  /\ prev_height' \in 0 .. LedgerHeight'
           /\ info_storage' # None => info_storage'.height \in 0 .. LedgerHeight'
<1> DEFINE Tops == 0 .. LedgerHeight'
<1>1. /\ prev_height \in Tops /\ 0 \in Tops /\ lastHeight \in Tops
      /\ info_storage # None => info_storage.height \in Tops
      /\ 0 .. LedgerHeight \subseteq Tops
  BY DEF NoGap, Gapless, Below
<1>2. CASE NodeStep
  <2>1. CASE StartReadContract \/ StartReadDatabase \/ StartClear \/ WorkGet \/ WorkCreate
               \/ WorkRemove
    BY <1>1, <2>1 DEF StartReadContract, StartReadDatabase, StartClear, WorkGet, WorkCreate,
                      WorkRemove
  <2>2. CASE StartReadStorageInfo
    <3>1. ~ NoRows => LastInfo(blocks[selectLastHeight]).height \in Tops
      BY <1>1, LedgerTop DEF Gapless, NoGap, RowsNumbered, LastInfo
    <3>2. info_storage' # None => ~ NoRows /\ info_storage' = LastInfo(blocks[selectLastHeight])
      BY <2>2 DEF StartReadStorageInfo
    <3>3. QED
      BY <1>1, <2>2, <3>1, <3>2 DEF StartReadStorageInfo
  <2>3. CASE StartReadContractInfo
    <3> DEFINE onChain == LastInfo(Contract!blockAt(lastHeight))
    <3>1. onChain.height \in Tops
      BY <1>1, LastOnChain
    <3> HIDE DEF onChain
    <3>2. PICK info \in {info_storage, onChain, None} : SetPrevious(info)
      BY <2>3, LaterOneOf DEF StartReadContractInfo, onChain
    <3>3. prev_height' \in Tops
      BY <1>1, <3>1, <3>2 DEF SetPrevious
    <3>4. QED
      BY <2>3, <3>3 DEF StartReadContractInfo
  <2>4. CASE WorkInsert
    <3>1. CASE RemembersBlock /\ insertBlock(block)
      <4>1. block.height \in Tops
        BY <1>2, <2>4, <3>1 DEF Inserts, WorkInsert, Gapless, Below, NoGap
      <4>2. QED
        BY <1>1, <2>4, <3>1, <4>1 DEF WorkInsert, RemembersBlock
    <3>2. CASE UNCHANGED prevVars
      BY <1>1, <2>4, <3>2 DEF WorkInsert
    <3>3. QED
      BY <2>4, <3>1, <3>2 DEF WorkInsert
  <2>5. QED
    BY <1>2, <2>1, <2>2, <2>3, <2>4 DEF NodeStep, NodeNext
<1>3. CASE SendStep \/ RequestStep \/ ChainStep \/ Restart \/ UNCHANGED vars
  BY <1>1, <1>3 DEF SendStep, RequestStep, TakeSequence, StoreTransaction, ChainStep, Execute, Drop,
                    Restart, vars
<1>4. CASE Crash
  BY <1>1, <1>4 DEF Crash, NodeLost
<1>5. QED
  BY <1>2, <1>3, <1>4 DEF Next

LEMMA BelowStep ==
    ASSUME OnChain, RowsNumbered, Gapless, NoGap', lastHeight <= lastHeight',
           LedgerHeight <= LedgerHeight', Inserts => block.height <= LedgerHeight', [Next]_vars
    PROVE  Below'
<1>1. /\ LedgerHeight \in Nat /\ LedgerHeight' \in Nat
      /\ lastHeight \in Nat /\ lastHeight' \in Nat
  BY DEF NoGap, Gapless
<1>2. /\ prev_height \in 0 .. LedgerHeight /\ contractHeight \in 0 .. lastHeight
      /\ work = "insert" => block.height \in 1 .. LedgerHeight + 1
      /\ \A call \in pending : call.height \in 1 .. LedgerHeight
      /\ sending = "submit" => data.height \in 1 .. LedgerHeight
  BY DEF Gapless, Below
<1>3. work' = "insert" => block'.height \in 1 .. LedgerHeight' + 1
  <2>1. Creates => block'.height = prev_height + 1
    BY DEF Creates, NewBlock, createBlock
  <2>2. work = "insert" /\ block' = block => block'.height \in 1 .. LedgerHeight' + 1
    BY <1>1, <1>2
  <2>3. QED
    BY <1>1, <1>2, <2>1, <2>2, BlockFrom
<1>4. \A call \in pending' : call.height \in 1 .. LedgerHeight'
  BY <1>1, <1>2, CallsFrom
<1>5. sending' = "submit" => data'.height \in 1 .. LedgerHeight'
  <2>1. \A h \in DOMAIN blocks : blocks[h].height \in 1 .. LedgerHeight
    BY DEF Gapless, NoGap, RowsNumbered
  <2>2. QED
    BY <1>1, <1>2, <2>1, DataFrom
<1>6. contractHeight' \in 0 .. lastHeight'
  <2>1. contractHeight' \in {0, contractHeight, lastHeight}
    <3>1. CASE SendStep
      BY <3>1 DEF SendStep, SendNext, SendReadContract, SendReadDatabase, SendSubmit, SendDelete,
                  EndSend
    <3>2. CASE NodeStep \/ RequestStep \/ ChainStep \/ Crash \/ Restart \/ UNCHANGED vars
      BY <3>2 DEF NodeStep, RequestStep, TakeSequence, StoreTransaction, ChainStep, Execute, Drop,
                  Crash, EndSend, Restart, vars
    <3>3. QED
      BY <3>1, <3>2 DEF Next
  <2>2. QED
    BY <1>1, <1>2, <2>1
<1>7. QED
  BY <1>3, <1>4, <1>5, <1>6, PreviousStep DEF Below

(* onStart finds no lost blocks, so it never clears the tables.            *)
LEMMA BegunStep ==
    ASSUME OnChain, Gapless, Steady, Steady', Counters, NoGap', lastHeight <= lastHeight',
           \A low \in Nat : RowsReach(low) /\ boot # "up" => RowsReach(low)', [Next]_vars
    PROVE  Begun'
<1>1. /\ lastHeight \in Nat /\ lastHeight' \in Nat /\ latestHeightContract \in 0 .. lastHeight
      /\ LedgerHeight \in Nat
      /\ RowsReach(lastHeight)
      /\ boot # "clear" /\ (boot = "database" => RowsReach(latestHeightContract))
  BY DEF Gapless, NoGap, Begun
<1>2. ~ (boot = "database" /\ LostBlocks(latestHeightContract))
  BY <1>1, LedgerTop DEF LostBlocks, HasBlock, RowsReach, Gapless
<1>3. /\ boot' # "clear"
      /\ latestHeightContract' \in {0, latestHeightContract, lastHeight}
      /\ boot' = "database" =>
             \/ boot = "database" /\ latestHeightContract' = latestHeightContract
             \/ boot = "contract" /\ latestHeightContract' = lastHeight
      /\ boot' = "down" => (boot = "down" \/ Crash)
  <2>1. CASE NodeStep
    BY <1>1, <1>2, <2>1
       DEF NodeStep, NodeNext, StartReadContract, StartReadDatabase, StartClear,
           StartReadStorageInfo, StartReadContractInfo, WorkGet, WorkCreate, WorkInsert, WorkRemove
  <2>2. CASE Restart \/ Crash
    BY <1>1, <2>2 DEF Restart, Crash, NodeLost
  <2>3. CASE SendStep \/ RequestStep \/ ChainStep \/ UNCHANGED vars
    BY <1>1, <2>3 DEF SendStep, RequestStep, TakeSequence, StoreTransaction, ChainStep, Execute,
                      Drop, vars
  <2>4. QED
    BY <2>1, <2>2, <2>3 DEF Next
<1>4. latestHeightContract' \in 0 .. lastHeight'
  BY <1>1, <1>3
<1>5. boot' = "database" => RowsReach(latestHeightContract)'
  <2>1. ASSUME NEW low \in Nat, RowsReach(low), boot # "up", latestHeightContract' = low
        PROVE  RowsReach(latestHeightContract)'
    BY <2>1 DEF RowsReach
  <2>2. QED
    BY <1>1, <1>3, <2>1
<1>6. boot' = "down" /\ crashes' = 0 =>
          lastHeight' = 0 /\ blockArray' = <<Contract!genesis>> /\ pending' = {}
  <2> SUFFICES ASSUME boot' = "down", crashes' = 0
               PROVE  lastHeight' = 0 /\ blockArray' = <<Contract!genesis>> /\ pending' = {}
    OBVIOUS
  <2>1. ~ Crash
    BY DEF Crash, Counters
  <2>2. boot = "down" /\ crashes = 0 /\ ~ Restart
    BY <1>3, <2>1, CountersStep DEF Restart, Counters
  <2>3. lastHeight = 0 /\ blockArray = <<Contract!genesis>> /\ pending = {}
    BY <2>2 DEF Gapless, Begun
  <2>4. UNCHANGED <<lastHeight, blockArray>>
    BY <2>2, <2>3, ChainStepKinds
  <2>5. pending' = {}
    BY <2>2, <2>3, CallsFrom DEF SendStep
  <2>6. QED
    BY <2>3, <2>4, <2>5
<1>7. QED
  BY <1>3, <1>4, <1>5, <1>6 DEF Begun, RowsReach

THEOREM GapInvAlways == Spec => []GapInv
<1>1. Init => GapInv
  <2> SUFFICES ASSUME Init PROVE Gapless
    BY DEF GapInv
  <2>1. /\ DOMAIN blocks = {} /\ lastHeight = 0 /\ blockArray = <<Contract!genesis>> /\ pending = {}
        /\ boot = "down" /\ latestHeightContract = 0 /\ prev_height = 0 /\ info_storage = None
        /\ work = "idle" /\ sending = "idle" /\ contractHeight = 0
    BY DEF Init, TablesInit, EmptyBlocks, ChainInit, Contract!addGenesis, NodeInit, SendIdle
  <2>2. LedgerHeight = 0
    BY <2>1 DEF LedgerHeight, NoRows
  <2>3. QED
    BY <2>1, <2>2 DEF Gapless, NoGap, RowsReach, Below, Begun
<1>2. OnChain /\ RowsNumbered /\ Counters /\ GapInv /\ [Next]_vars => GapInv'
  <2> SUFFICES ASSUME OnChain, RowsNumbered, Counters, GapInv, [Next]_vars, Steady'
               PROVE  Gapless'
    BY DEF GapInv
  <2>1. Steady
    BY EnvFixed, CountersStep DEF Steady, Counters
  <2>2. Gapless /\ LedgerHeight \in Nat
    BY <2>1 DEF GapInv, Gapless, NoGap
  <2>3. /\ NoGap' /\ lastHeight <= lastHeight' /\ LedgerHeight <= LedgerHeight'
        /\ \A low \in Nat : RowsReach(low) /\ boot # "up" => RowsReach(low)'
    BY <2>1, <2>2, NoGapStep
  <2>4. Inserts => block.height <= LedgerHeight'
    <3>1. Inserts => block.height \in DOMAIN blocks'
      BY DEF Inserts, insertBlock
    <3>2. QED
      BY <2>3, <3>1 DEF NoGap
  <2>5. QED
    BY <2>1, <2>2, <2>3, <2>4, BelowStep, BegunStep DEF Gapless
<1>3. QED
  BY <1>1, <1>2, OnChainAlways, RowsNumberedAlways, CountersAlways, PTL DEF Spec

(* Rows leave the table only by deleteBlockByHeight with a height the      *)
(* contract has reached, and in order the block that work inserts stands   *)
(* above all of them.                                                      *)
LEMMA RowsLeave ==
    ASSUME GapInv, IInv, [Next]_vars, env.production
    PROVE  /\ DOMAIN blocks \ DOMAIN blocks' \subseteq 1 .. lastHeight
           /\ Orderly =>
                  \A height \in DOMAIN blocks :
                      \/ height \in DOMAIN blocks' /\ blocks'[height] = blocks[height]
                      \/ height <= lastHeight /\ blocks[height] = Contract!blockAt(height)
<1>1. /\ DOMAIN blocks \subseteq 1 .. LedgerHeight /\ LedgerHeight \in Nat /\ lastHeight \in Nat
      /\ contractHeight \in 0 .. lastHeight /\ boot # "clear"
  BY DEF GapInv, Steady, Gapless, NoGap, Below, Begun
<1>2. Orderly => Joined /\ (work = "insert" => block.height = LedgerHeight + 1)
  BY DEF IInv, Inv, Whole, Starting, Previous, Working
<1>3. CASE UNCHANGED blocks
  BY <1>3
<1>4. CASE Inserts
  <2>1. /\ \A h \in DOMAIN blocks : h \in DOMAIN blocks'
        /\ \A h \in DOMAIN blocks : h # block.height => blocks'[h] = blocks[h]
    BY <1>4 DEF Inserts, insertBlock
  <2>2. Orderly => block.height \notin DOMAIN blocks
    BY <1>1, <1>2, <1>4 DEF Inserts, WorkInsert
  <2>3. QED
    BY <2>1, <2>2
<1>5. CASE SendStep /\ SendDelete /\ deleteBlockByHeight(contractHeight)
  <2>1. /\ \A h \in DOMAIN blocks : h >= contractHeight =>
               h \in DOMAIN blocks' /\ blocks'[h] = blocks[h]
    BY <1>5 DEF deleteBlockByHeight
  <2>2. \A h \in DOMAIN blocks : /\ h \in 1 .. LedgerHeight
                               /\ ~ h >= contractHeight => h <= lastHeight
    BY <1>1
  <2>3. QED
    BY <1>1, <1>2, <2>1, <2>2 DEF Joined
<1>6. QED
  BY <1>1, <1>3, <1>4, <1>5, RowsStep DEF StartClear

(* No row is given up before the contract has a block of its height.       *)
THEOREM RowsLeaveAnchoredAlways == Spec => RowsLeaveAnchored
<1>1. GapInv /\ IInv /\ [Next]_vars
      => [ env.production =>
              /\ DOMAIN blocks \ DOMAIN blocks' \subseteq 1 .. lastHeight
              /\ Orderly =>
                     \A height \in DOMAIN blocks :
                         \/ height \in DOMAIN blocks' /\ blocks'[height] = blocks[height]
                         \/ height <= lastHeight /\ blocks[height] = Contract!blockAt(height) ]_vars
  BY RowsLeave
<1>2. QED
  BY <1>1, GapInvAlways, InvAlways, PTL DEF Spec, RowsLeaveAnchored

----------------------------------------------------------------------------
(* The ledger is made of such blocks.                                      *)
RowsContinue == \A h \in lastHeight + 1 .. LedgerHeight : h \in DOMAIN blocks

LEMMA LedgerMade ==
    ASSUME OnChain, RowsNumbered, RowsContinue, LedgerHeight \in Nat, NEW h \in 1 .. LedgerHeight
    PROVE  LedgerBlock(h) \in Made /\ LedgerBlock(h).height = h
<1>1. /\ lastHeight \in Nat /\ Len(blockArray) = lastHeight + 1
      /\ \A i \in 1 .. Len(blockArray) : blockArray[i].height = i - 1
  BY DEF OnChain, Contract!Sequential, Contract!HeightsSequential
<1>2. CASE h <= lastHeight
  <2>1. h + 1 \in 2 .. Len(blockArray) /\ LedgerBlock(h) = blockArray[h + 1] /\ (h + 1) - 1 = h
    BY <1>1, <1>2 DEF LedgerBlock, Contract!blockAt
  <2>2. QED
    BY <1>1, <2>1 DEF Made
<1>3. CASE ~ (h <= lastHeight)
  <2>1. h \in DOMAIN blocks /\ LedgerBlock(h) = blocks[h]
    BY <1>1, <1>3 DEF RowsContinue, LedgerBlock
  <2>2. QED
    BY <2>1 DEF Made, RowsNumbered
<1>4. QED
  BY <1>2, <1>3

LEMMA GapInvContinues == GapInv /\ Steady => RowsContinue /\ LedgerHeight \in Nat
  BY DEF GapInv, Gapless, NoGap, RowsReach, RowsContinue

LEMMA InvContinues ==
    IInv /\ Orderly /\ (env.production \/ Cleared) => RowsContinue /\ LedgerHeight \in Nat
<1> SUFFICES ASSUME IInv, Orderly, env.production \/ Cleared
             PROVE  RowsContinue /\ LedgerHeight \in Nat
  OBVIOUS
<1>1. Shape
  BY LedgerShape DEF IInv, Inv, Whole
<1>2. QED
  BY <1>1 DEF Shape, RowsContinue

(* A reader who finds a header, in the contract or in a row, finds its     *)
(* content: Node stores it before it inserts the row, and no path of       *)
(* onStart, work or SendBlock puts a header anywhere by another way.       *)
THEOREM ContentAvailableAlways == Spec => []ContentAvailable
<1>1. OnChain /\ RowsNumbered /\ GapInv /\ IInv /\ Uploaded => ContentAvailable
  <2> SUFFICES ASSUME OnChain, RowsNumbered, GapInv, IInv, Uploaded,
                      env.production \/ (Orderly /\ Cleared), NEW h \in 1 .. LedgerHeight
               PROVE  LedgerBlock(h).curBlock \in ipfs
    BY DEF ContentAvailable
  <2>1. RowsContinue /\ LedgerHeight \in Nat
    BY GapInvContinues, InvContinues DEF Steady
  <2>2. QED
    BY <2>1, LedgerMade DEF Uploaded
<1>2. QED
  BY <1>1, OnChainAlways, RowsNumberedAlways, GapInvAlways, InvAlways, UploadedAlways, PTL

----------------------------------------------------------------------------
(* Without crashes and failing calls what is sealed has left the pool      *)
(* before the next batch is taken, so two blocks that were ever made, in   *)
(* the ledger or replaced, have no transaction in common.                  *)
Sealing == IF work \in {"insert", "remove"} THEN batch ELSE {}

(* The sequences whose transactions have been stored, or never will be.    *)
Handed == 1 .. txs_sequence \ inflight

Pooled ==
    /\ txs_sequence \in Nat /\ inflight \subseteq 1 .. txs_sequence
    /\ txs \subseteq Handed /\ batch \subseteq Handed
    /\ work = "insert" => block.body = batch

Entered == \A x \in Made : x.body \subseteq Handed

Separate ==
    /\ \A x, y \in Made : x = y \/ x.body \cap y.body = {}
    /\ \A x \in Made : x.body \cap txs \subseteq Sealing
    /\ work = "create" => \A x \in Made : x.body \cap batch = {}

SeparateInv == Pooled /\ Entered /\ (crashes = 0 /\ faults = 0 => Separate)

(* The pool and the batch, in any circumstances. *)
LEMMA PooledStep ==
    Pooled /\ [Next]_vars =>
        /\ Pooled'
        /\ Handed \subseteq Handed'
        /\ txs' \subseteq txs \cup (Handed' \ Handed)
<1> SUFFICES ASSUME Pooled, [Next]_vars
             PROVE  /\ Pooled' /\ Handed \subseteq Handed'
                    /\ txs' \subseteq txs \cup (Handed' \ Handed)
  OBVIOUS
<1> USE DEF Pooled, Handed
<1>1. work' = "insert" => block'.body = batch'
  BY BlockFrom DEF Creates, NewBlock, createBlock
<1>2. CASE TakeSequence
  BY <1>1, <1>2 DEF TakeSequence, RequestIntake!TakeSequence
<1>3. CASE \E tx \in inflight : StoreTransaction(tx)
  BY <1>1, <1>3 DEF StoreTransaction, RequestIntake!Store, insertTx
<1>4. CASE NodeStep
  <2>1. UNCHANGED <<txs_sequence, inflight>> /\ txs' \subseteq txs
    BY <1>4 DEF NodeStep, NodeNext, StartReadContract, StartReadDatabase, StartClear, clear,
                StartReadStorageInfo, StartReadContractInfo, WorkGet, WorkCreate, WorkInsert,
                WorkRemove, deleteTxByHash
  <2>2. batch' \subseteq batch \cup txs
    BY <1>4 DEF NodeStep, NodeNext, StartReadContract, StartReadDatabase, StartClear, clear,
                StartReadStorageInfo, StartReadContractInfo, WorkGet, WorkCreate, WorkInsert,
                WorkRemove, EndWork, GoesOn, AfterFailedUpload, selectTxByLength
  <2>3. QED
    BY <1>1, <2>1, <2>2
<1>5. CASE Crash
  BY <1>1, <1>5 DEF Crash, NodeLost, EndWork
<1>6. CASE SendStep \/ ChainStep \/ Restart \/ UNCHANGED vars
  <2>1. UNCHANGED <<txs, txs_sequence, inflight, batch>>
    BY <1>6 DEF SendStep, SendNext, SendReadContract, SendReadDatabase, SendSubmit, SendDelete,
                ChainStep, Execute, Drop, Restart, vars
  <2>2. QED
    BY <1>1, <2>1
<1>7. QED
  BY <1>2, <1>3, <1>4, <1>5, <1>6 DEF Next, RequestStep

LEMMA EnteredStep == OnChain /\ Pooled /\ Entered /\ [Next]_vars => Entered'
<1> SUFFICES ASSUME OnChain, Pooled, Entered, [Next]_vars, NEW x \in Made'
             PROVE  x.body \subseteq Handed'
  BY DEF Entered
<1>1. Creates /\ x = NewBlock => x.body \subseteq Handed
  BY DEF Creates, NewBlock, createBlock, Pooled
<1>2. x \in Made => x.body \subseteq Handed
  BY DEF Entered
<1>3. QED
  BY <1>1, <1>2, MadeFrom, PooledStep

(* Without errors work removes from the pool what it has sealed.           *)
LEMMA SealingStep ==
    ASSUME Counters, [Next]_vars, crashes' = 0, faults' = 0
    PROVE  /\ crashes = 0 /\ faults = 0
           /\ Sealing \cap txs' \subseteq Sealing'
           /\ work' = "create" =>
                  \/ work = "create" /\ batch' = batch
                  \/ Sealing = {} /\ batch' \subseteq txs
<1>1. crashes = 0 /\ faults = 0 /\ ~ Crash /\ ~ Fails
  <2>1. crashes = 0 /\ faults = 0
    BY CountersStep DEF Counters
  <2>2. ~ Crash /\ ~ Fails
    BY <2>1 DEF Crash, Fails
  <2>3. QED
    BY <2>1, <2>2
<1> USE DEF Sealing
<1>2. CASE NodeStep
  <2>1. CASE WorkGet
    BY <1>1, <2>1 DEF WorkGet, selectTxByLength
  <2>2. CASE WorkCreate
    BY <1>1, <2>2 DEF WorkCreate, GoesOn
  <2>3. CASE WorkInsert
    BY <1>1, <2>3 DEF WorkInsert
  <2>4. CASE WorkRemove
    BY <1>1, <2>4 DEF WorkRemove, deleteTxByHash, EndWork
  <2>5. CASE StartReadContract \/ StartReadDatabase \/ StartClear \/ StartReadStorageInfo
               \/ StartReadContractInfo
    BY <1>1, <2>5 DEF StartReadContract, StartReadDatabase, StartClear, clear,
                      StartReadStorageInfo, StartReadContractInfo
  <2>6. QED
    BY <1>1, <1>2, <2>1, <2>2, <2>3, <2>4, <2>5 DEF NodeStep, NodeNext
<1>3. CASE SendStep \/ RequestStep \/ ChainStep \/ Restart \/ UNCHANGED vars
  <2>1. UNCHANGED <<work, batch>>
    BY <1>3 DEF SendStep, RequestStep, TakeSequence, StoreTransaction, ChainStep, Execute, Drop,
                Restart, vars
  <2>2. QED
    BY <1>1, <2>1
<1>4. QED
  BY <1>1, <1>2, <1>3 DEF Next

LEMMA SeparateStep ==
    ASSUME OnChain, Counters, SeparateInv, [Next]_vars, crashes' = 0, faults' = 0
    PROVE  Separate'
<1>1. Separate /\ Pooled /\ Entered
  BY SealingStep DEF SeparateInv
<1>2. ASSUME Creates
      PROVE  /\ work = "create" /\ work' = "insert" /\ NewBlock.body = batch
             /\ \A x \in Made : x.body \cap NewBlock.body = {}
  <2>1. work = "create" /\ NewBlock.body = batch
    BY <1>2 DEF Creates, WorkCreate, NewBlock, createBlock
  <2>2. QED
    BY <1>1, <1>2, <2>1 DEF Separate, Creates
<1>3. ASSUME NEW x \in Made', NEW y \in Made' PROVE x = y \/ x.body \cap y.body = {}
  <2>1. x \in Made \/ (Creates /\ x = NewBlock)
    BY MadeFrom
  <2>2. y \in Made \/ (Creates /\ y = NewBlock)
    BY MadeFrom
  <2>3. QED
    BY <1>1, <1>2, <2>1, <2>2 DEF Separate
<1>4. ASSUME NEW x \in Made' PROVE x.body \cap txs' \subseteq Sealing'
  <2>1. CASE x \in Made
    <3>1. x.body \subseteq Handed /\ x.body \cap txs \subseteq Sealing
      BY <1>1, <2>1 DEF Separate, Entered
    <3>2. QED
      BY <1>1, <3>1, PooledStep, SealingStep
  <2>2. CASE Creates /\ batch' = batch /\ x = NewBlock
    <3>1. Sealing' = batch
      BY <1>2, <2>2 DEF Sealing
    <3>2. QED
      BY <1>1, <1>2, <2>2, <3>1, PooledStep
  <2>3. QED
    BY <2>1, <2>2, MadeFrom
<1>5. ASSUME work' = "create", NEW x \in Made' PROVE x.body \cap batch' = {}
  <2>1. x \in Made
    BY <1>5, MadeFrom DEF Creates
  <2>2. QED
    BY <1>1, <1>5, <2>1, SealingStep DEF Separate
<1>6. QED
  BY <1>3, <1>4, <1>5 DEF Separate

THEOREM SeparateInvAlways == Spec => []SeparateInv
<1>1. Init => SeparateInv
  BY MadeInitial DEF Init, TablesInit, NodeInit, SeparateInv, Pooled, Handed, Separate,
                     Entered
<1>2. OnChain /\ Counters /\ SeparateInv /\ [Next]_vars => SeparateInv'
  BY PooledStep, EnteredStep, SeparateStep DEF SeparateInv
<1>3. QED
  BY <1>1, <1>2, OnChainAlways, CountersAlways, PTL DEF Spec

(* As long as nothing crashes or fails no transaction is sealed twice, in  *)
(* development and with early ticks too, where rows may be overwritten.    *)
THEOREM SealedOnceAlways == Spec => []SealedOnce
<1>1. OnChain /\ RowsNumbered /\ GapInv /\ SeparateInv => SealedOnce
  <2> SUFFICES ASSUME OnChain, RowsNumbered, GapInv, SeparateInv, crashes = 0, faults = 0,
                      NEW g \in 1 .. LedgerHeight, NEW h \in 1 .. LedgerHeight, g # h
               PROVE  LedgerBlock(g).body \cap LedgerBlock(h).body = {}
    BY DEF SealedOnce
  <2>1. RowsContinue /\ LedgerHeight \in Nat
    BY GapInvContinues DEF Steady
  <2>2. /\ LedgerBlock(g) \in Made /\ LedgerBlock(h) \in Made
        /\ LedgerBlock(g).height = g /\ LedgerBlock(h).height = h
    BY <2>1, LedgerMade
  <2>3. LedgerBlock(g) # LedgerBlock(h)
    BY <2>2
  <2>4. QED
    BY <2>2, <2>3 DEF SeparateInv, Separate
<1>2. QED
  BY <1>1, OnChainAlways, RowsNumberedAlways, GapInvAlways, SeparateInvAlways, PTL

----------------------------------------------------------------------------
(* What work holds until it has inserted its block is still in the pool:   *)
(* in production onStart does not clear the tables, and without an early   *)
(* tick no work is under way when it does.                                 *)
Held ==
    env.production \/ Orderly => (work \in {"create", "insert"} => batch \subseteq txs)

LEMMA HeldAlways == Spec => []Held
<1>1. Init => Held
  BY DEF Init, NodeInit, Held
<1>2. IInv /\ GapInv /\ Held /\ [Next]_vars => Held'
  <2> SUFFICES ASSUME IInv, GapInv, Held, [Next]_vars, env.production \/ Orderly,
                      work' \in {"create", "insert"}
               PROVE  batch' \subseteq txs'
    BY EnvFixed DEF Held, Orderly
  <2>1. CASE NodeStep
    <3>1. ~ (StartClear /\ work # "idle")
      BY DEF StartClear, GapInv, Steady, Gapless, Begun, IInv, Inv, Starting
    <3>2. CASE StartClear
      BY <3>1, <3>2 DEF StartClear
    <3>3. CASE WorkGet
      BY <3>3 DEF WorkGet, selectTxByLength
    <3>4. CASE WorkCreate
      BY <3>4 DEF WorkCreate, GoesOn, AfterFailedUpload, EndWork, Held
    <3>5. CASE WorkInsert \/ WorkRemove
      BY <3>5 DEF WorkInsert, WorkRemove, EndWork
    <3>6. CASE StartReadContract \/ StartReadDatabase \/ StartReadStorageInfo
               \/ StartReadContractInfo
      BY <3>6 DEF StartReadContract, StartReadDatabase, StartReadStorageInfo,
                  StartReadContractInfo, Held
    <3>7. QED
      BY <2>1, <3>2, <3>3, <3>4, <3>5, <3>6 DEF NodeStep, NodeNext
  <2>2. CASE RequestStep
    BY <2>2 DEF RequestStep, TakeSequence, StoreTransaction, insertTx, Held
  <2>3. CASE SendStep \/ ChainStep \/ Restart \/ UNCHANGED vars
    <3>1. UNCHANGED <<txs, work, batch>>
      BY <2>3 DEF SendStep, SendNext, SendReadContract, SendReadDatabase, SendSubmit, SendDelete,
                  ChainStep, Execute, Drop, Restart, vars
    <3>2. QED
      BY <3>1 DEF Held
  <2>4. CASE Crash
    BY <2>4 DEF Crash, NodeLost, EndWork
  <2>5. QED
    BY <2>1, <2>2, <2>3, <2>4 DEF Next
<1>3. QED
  BY <1>1, <1>2, InvAlways, GapInvAlways, PTL DEF Spec

(* The ledger ends at the contract's last block or at the highest row.     *)
LEMMA LedgerEnd ==
    RowsLinked /\ lastHeight \in Nat =>
        /\ LedgerHeight \in Nat /\ lastHeight <= LedgerHeight
        /\ ~ NoRows => selectLastHeight \in Nat /\ selectLastHeight <= LedgerHeight
<1> SUFFICES ASSUME RowsLinked, lastHeight \in Nat
             PROVE  /\ LedgerHeight \in Nat /\ lastHeight <= LedgerHeight
                    /\ ~ NoRows => selectLastHeight \in Nat /\ selectLastHeight <= LedgerHeight
  OBVIOUS
<1>1. ~ NoRows => selectLastHeight \in Nat
  BY TopRow DEF RowsLinked
<1>2. QED
  BY <1>1 DEF LedgerHeight

Extends ==
    /\ Inserts /\ LedgerHeight' = LedgerHeight + 1
    /\ block.height = LedgerHeight + 1

(* Without early ticks and hidden errors a step lengthens the ledger only  *)
(* by inserting the next block, with a new contract too.                   *)
LEMMA OrderlyGrowth ==
    ASSUME IInv, Orderly, [Next]_vars
    PROVE  LedgerHeight \in Nat /\ (LedgerHeight' \in 0 .. LedgerHeight \/ Extends)
<1>1. Inv /\ Types /\ Chain /\ RowsLinked /\ lastHeight \in Nat
  BY DEF IInv, Inv, Types
<1>2. /\ LedgerHeight \in Nat /\ lastHeight <= LedgerHeight
      /\ ~ NoRows => selectLastHeight \in Nat /\ selectLastHeight <= LedgerHeight
  BY <1>1, LedgerEnd
<1>3. CASE Inserts
  <2>1. boot = "up" /\ work = "insert" /\ UNCHANGED <<lastHeight, blockArray, pending>>
    BY <1>1, <1>3 DEF Inserts, WorkInsert, Inv, Starting
  <2>2. Joined
    BY <1>1, <2>1 DEF Inv, Whole, Cleared
  <2>3. /\ block \in Block /\ block.height = LedgerHeight + 1
        /\ block.prevBlock = LedgerLast.curBlock
    BY <1>1, <2>1 DEF Inv, Types, Working, Previous
  <2>4. LedgerHeight' = LedgerHeight + 1
    BY <1>1, <1>3, <2>1, <2>2, <2>3, InsertStep DEF Inserts
  <2>5. QED
    BY <1>2, <1>3, <2>3, <2>4 DEF Extends
<1>4. CASE SendStep /\ SendDelete /\ deleteBlockByHeight(contractHeight)
  <2>1. Joined /\ contractHeight <= lastHeight /\ UNCHANGED <<lastHeight, blockArray, pending>>
    BY <1>1, <1>4 DEF SendStep, SendDelete, Inv, Whole, Cleared, Submitting
  <2>2. QED
    BY <1>1, <1>2, <1>4, <2>1, DeleteStep
<1>5. CASE NodeStep /\ StartClear /\ blocks' = EmptyBlocks
  <2>1. lastHeight' = 0 /\ NoRows'
    BY <1>1, <1>5 DEF StartClear, Inv, Starting, EmptyBlocks, NoRows
  <2>2. QED
    BY <1>2, <2>1 DEF LedgerHeight
<1>6. ASSUME NEW call \in pending, Execute(call), Contract!add(Publisher, call)
      PROVE  LedgerHeight' = LedgerHeight
  <2>1. Joined /\ UNCHANGED blocks /\ pending' \subseteq pending
    BY <1>1, <1>6 DEF Inv, Whole, Execute
  <2>2. QED
    BY <1>1, <1>6, <2>1, AddStep
<1>7. CASE UNCHANGED blocks /\ lastHeight' = 0
  <2>1. NoRows' = NoRows /\ selectLastHeight' = selectLastHeight
    BY <1>7 DEF NoRows, selectLastHeight
  <2>2. QED
    BY <1>2, <1>7, <2>1 DEF LedgerHeight
<1>8. CASE UNCHANGED ledgerVars
  BY <1>2, <1>8, SameLedger
<1>9. \/ UNCHANGED blocks
      \/ UNCHANGED <<lastHeight, blockArray>>
  BY RowsStep DEF Inserts, WorkInsert, SendDelete, StartClear
<1>10. QED
  BY <1>2, <1>3, <1>4, <1>5, <1>6, <1>7, <1>8, <1>9, RowsStep, ChainStepKinds

LEMMA ProductionGrowth ==
    ASSUME OnChain, Counters, GapInv, env.production, [Next]_vars
    PROVE  LedgerHeight \in Nat /\ (LedgerHeight' \in 0 .. LedgerHeight \/ Extends)
<1>1. Steady /\ Steady' /\ Gapless /\ LedgerHeight \in Nat
  BY EnvFixed DEF Steady, GapInv, Gapless, NoGap
<1>2. QED
  BY <1>1, NoGapStep DEF Extends

(* A block that enters the ledger holds only transactions that are in the  *)
(* pool: one that was sealed, retired and taken out does not come back.    *)
THEOREM NoReplayAlways == Spec => NoReplay
<1>1. ASSUME OnChain, Counters, GapInv, IInv, SeparateInv, Held, [Next]_vars,
             env.production \/ Orderly, NEW height \in LedgerHeight + 1 .. LedgerHeight'
      PROVE  LedgerBlock(height)'.body \cap (accepted \ txs) = {}
  <2>1. LedgerHeight \in Nat /\ (LedgerHeight' \in 0 .. LedgerHeight \/ Extends)
    BY <1>1, OrderlyGrowth, ProductionGrowth
  <2>2. Extends
    BY <2>1
  <2>3. height = block.height /\ height = LedgerHeight + 1
    BY <2>1, <2>2 DEF Extends
  <2>4. lastHeight' = lastHeight /\ lastHeight <= LedgerHeight /\ lastHeight \in Nat
    <3>1. lastHeight \in Nat
      BY <1>1 DEF OnChain
    <3>2. CASE env.production
      BY <1>1, <2>2, <3>1, <3>2 DEF GapInv, Steady, Gapless, NoGap, Extends, Inserts, WorkInsert
    <3>3. CASE Orderly
      BY <1>1, <2>2, <3>1, <3>3, LedgerEnd DEF IInv, Inv, Extends, Inserts, WorkInsert
    <3>4. QED
      BY <1>1, <3>2, <3>3
  <2>5. blocks'[height] = block
    BY <2>2, <2>3 DEF Extends, Inserts, insertBlock
  <2>6. LedgerBlock(height)' = block
    BY <2>1, <2>3, <2>4, <2>5 DEF LedgerBlock
  <2>7. block.body = batch /\ batch \subseteq txs
    BY <1>1, <2>2 DEF Extends, Inserts, WorkInsert, SeparateInv, Pooled, Held
  <2>8. LedgerBlock(height)'.body = batch
    BY <2>6, <2>7
  <2>9. QED
    BY <2>7, <2>8
<1>2. OnChain /\ Counters /\ GapInv /\ IInv /\ SeparateInv /\ Held /\ [Next]_vars
      => [ env.production \/ Orderly =>
              \A height \in LedgerHeight + 1 .. LedgerHeight' :
                  LedgerBlock(height)'.body \cap (accepted \ txs) = {} ]_vars
  BY <1>1
<1>3. QED
  BY <1>2, OnChainAlways, CountersAlways, GapInvAlways, InvAlways, SeparateInvAlways, HeldAlways,
     PTL DEF Spec, NoReplay

----------------------------------------------------------------------------
(* The order of the requests, in an orderly production: the pool hands out *)
(* the oldest first, and what was accepted earlier is in the pool or       *)
(* sealed, so a batch with a transaction brings all that preceded it.      *)
LEMMA OldestTaken ==
    ASSUME NEW K \in Nat, txs \subseteq 1 .. K,
           NEW tx \in selectTxByLength(max_txs), NEW e \in txs, e < tx
    PROVE  e \in selectTxByLength(max_txs)
<1> DEFINE Before(n) == {other \in txs : other < n}
<1>1. tx \in txs /\ Cardinality(Before(tx)) < max_txs /\ max_txs \in Nat
  BY RollupAssumption DEF selectTxByLength
<1>2. IsFiniteSet(Before(tx))
  <2>1. IsFiniteSet(1 .. K)
    BY FS_Interval
  <2>2. Before(tx) \subseteq 1 .. K
    OBVIOUS
  <2>3. QED
    BY <2>1, <2>2, FS_Subset
<1>3. ASSUME NEW other \in Before(e) PROVE other \in Before(tx)
  <2>1. other \in txs /\ other < e /\ e < tx
    BY <1>3
  <2>2. e \in Int /\ tx \in Int /\ other \in Int
    BY <1>1, <2>1
  <2>3. other < tx
    BY <2>1, <2>2
  <2>4. QED
    BY <2>1, <2>3
<1> HIDE DEF Before
<1>4. Cardinality(Before(e)) <= Cardinality(Before(tx)) /\ IsFiniteSet(Before(e))
  BY <1>2, <1>3, FS_Subset
<1>5. Cardinality(Before(e)) \in Nat /\ Cardinality(Before(tx)) \in Nat
  BY <1>2, <1>4, FS_CardinalityType
<1>6. Cardinality(Before(e)) < max_txs
  BY <1>1, <1>4, <1>5
<1>7. QED
  BY <1>6 DEF Before, selectTxByLength

LEMMA BatchFrom ==
    [Next]_vars /\ work' \in {"create", "insert"} =>
        \/ work \in {"create", "insert"} /\ batch' = batch
        \/ NodeStep /\ WorkGet
<1> SUFFICES ASSUME [Next]_vars, work' \in {"create", "insert"}
             PROVE  \/ work \in {"create", "insert"} /\ batch' = batch
                    \/ NodeStep /\ WorkGet
  OBVIOUS
<1>1. CASE NodeStep
  <2>1. CASE WorkCreate \/ WorkInsert \/ WorkRemove
    BY <2>1 DEF WorkCreate, GoesOn, AfterFailedUpload, WorkInsert, WorkRemove, EndWork
  <2>2. CASE StartReadContract \/ StartReadDatabase \/ StartClear \/ StartReadStorageInfo
               \/ StartReadContractInfo
    BY <2>2 DEF StartReadContract, StartReadDatabase, StartClear, StartReadStorageInfo,
                StartReadContractInfo
  <2>3. QED
    BY <1>1, <2>1, <2>2 DEF NodeStep, NodeNext
<1>2. CASE SendStep \/ RequestStep \/ ChainStep \/ Crash \/ Restart \/ UNCHANGED vars
  BY <1>2 DEF SendStep, RequestStep, TakeSequence, StoreTransaction, ChainStep, Execute, Drop,
              Crash, NodeLost, EndWork, Restart, vars
<1>3. QED
  BY <1>1, <1>2 DEF Next

(* What a step does to the ledger of an orderly production.                *)
LEMMA ProductionKeeps ==
    ASSUME Production, [Next]_vars
    PROVE  /\ Keeps
           /\ LedgerHeight' = LedgerHeight \/ (Extends /\ LedgerLast' = block)
<1>1. Inv /\ Types /\ Chain /\ RowsLinked /\ Joined /\ Shape /\ env.production
  BY ProductionShape DEF Inv, Production
<1>2. CASE Inserts
  <2>1. boot = "up" /\ work = "insert" /\ UNCHANGED <<lastHeight, blockArray, pending>>
    BY <1>1, <1>2 DEF Inserts, WorkInsert, Inv, Starting
  <2>2. /\ block \in Block /\ block.height = LedgerHeight + 1
        /\ block.prevBlock = LedgerLast.curBlock
    BY <1>1, <2>1 DEF Inv, Types, Working, Previous
  <2>3. QED
    BY <1>1, <1>2, <2>1, <2>2, InsertStep DEF Inserts, Extends
<1>3. CASE SendStep /\ SendDelete /\ deleteBlockByHeight(contractHeight)
  <2>1. contractHeight <= lastHeight /\ UNCHANGED <<lastHeight, blockArray, pending>>
    BY <1>1, <1>3 DEF SendDelete, Inv, Submitting
  <2>2. QED
    BY <1>1, <1>3, <2>1, DeleteStep
<1>4. ~ StartClear
  BY <1>1 DEF StartClear, Inv, Starting
<1>5. ASSUME NEW call \in pending, Execute(call), Contract!add(Publisher, call)
      PROVE  Keeps /\ LedgerHeight' = LedgerHeight
  <2>1. UNCHANGED blocks /\ pending' \subseteq pending
    BY <1>5 DEF Execute
  <2>2. QED
    BY <1>1, <1>5, <2>1, AddStep
<1>6. CASE UNCHANGED ledgerVars
  <2>1. LedgerHeight' = LedgerHeight /\ \A h : LedgerBlock(h)' = LedgerBlock(h)
    BY <1>6, SameLedger
  <2>2. QED
    BY <1>1, <2>1 DEF Keeps, Shape
<1>7. UNCHANGED blocks \/ UNCHANGED <<lastHeight, blockArray>>
  BY RowsStep DEF Inserts, WorkInsert, SendDelete, StartClear
<1>8. QED
  BY <1>1, <1>2, <1>3, <1>4, <1>5, <1>6, <1>7, RowsStep, ChainStepKinds

(* What a request has seen accepted is older than it.                      *)
Noted ==
    /\ accepted \subseteq 1 .. txs_sequence
    /\ \A tx \in 1 .. txs_sequence : preceding[tx] \subseteq {e \in accepted : e < tx}

Brings(tx) == \A earlier \in preceding[tx] : earlier \in batch \/ SealedBy(LedgerHeight, earlier)

Ordered ==
    /\ AcknowledgedFirst
    /\ work \in {"create", "insert"} => \A tx \in batch : Brings(tx)

OrderInv == Noted /\ (Orderly /\ env.production => Ordered)

OrderStep == [OrderNext]_<<vars, preceding>>

LEMMA NotedStep ==
    ASSUME Pooled, Noted, OrderStep
    PROVE  /\ Noted'
           /\ \A tx \in 1 .. txs_sequence : preceding'[tx] = preceding[tx]
<1>1. txs_sequence \in Nat
  BY DEF Pooled
<1>2. CASE OrderNext
  <2>1. [Next]_vars /\ NotesPreceding
    BY <1>2 DEF OrderNext
  <2>2. /\ txs_sequence' \in {txs_sequence, txs_sequence + 1}
        /\ accepted \subseteq accepted' /\ accepted' \subseteq accepted \cup inflight
    <3>1. CASE RequestStep
      BY <3>1 DEF RequestStep, TakeSequence, StoreTransaction, RequestIntake!TakeSequence,
                  RequestIntake!Store
    <3>2. CASE NodeStep
      BY <3>2 DEF NodeStep, NodeNext, StartReadContract, StartReadDatabase, StartClear,
                  StartReadStorageInfo, StartReadContractInfo, WorkGet, WorkCreate, WorkInsert,
                  WorkRemove
    <3>3. CASE SendStep \/ ChainStep \/ Crash \/ Restart \/ UNCHANGED vars
      BY <3>3 DEF SendStep, SendNext, SendReadContract, SendReadDatabase, SendSubmit, SendDelete,
                  ChainStep, Execute, Drop, Crash, Restart, vars
    <3>4. QED
      BY <2>1, <3>1, <3>2, <3>3 DEF Next
  <2>3. accepted' \subseteq 1 .. txs_sequence'
    BY <1>1, <2>2 DEF Noted, Pooled
  <2>4. ASSUME NEW tx \in 1 .. txs_sequence'
        PROVE  /\ preceding'[tx] = IF tx <= txs_sequence THEN preceding[tx] ELSE accepted
               /\ preceding'[tx] \subseteq {e \in accepted' : e < tx}
    <3>1. preceding'[tx] = IF tx <= txs_sequence THEN preceding[tx] ELSE accepted
      BY <2>1 DEF NotesPreceding
    <3>2. CASE tx <= txs_sequence
      <4>1. tx \in 1 .. txs_sequence
        BY <1>1, <2>2, <3>2
      <4>2. preceding[tx] \subseteq {e \in accepted : e < tx}
        BY <4>1 DEF Noted
      <4>3. QED
        BY <2>2, <3>1, <3>2, <4>2
    <3>3. CASE ~ (tx <= txs_sequence)
      <4>1. \A e \in accepted : e < tx
        BY <1>1, <2>2, <3>3 DEF Noted
      <4>2. QED
        BY <2>2, <3>1, <3>3, <4>1
    <3>4. QED
      BY <3>1, <3>2, <3>3
  <2>5. ASSUME NEW tx \in 1 .. txs_sequence PROVE preceding'[tx] = preceding[tx]
    BY <1>1, <2>2, <2>4
  <2>6. QED
    BY <2>3, <2>4, <2>5 DEF Noted
<1>3. CASE UNCHANGED <<vars, preceding>>
  BY <1>3 DEF Noted, vars
<1>4. QED
  BY <1>2, <1>3 DEF OrderStep

LEMMA OrderedStep ==
    ASSUME Production, OnChain, RowsNumbered, Pooled, Entered, Noted, Ordered, OrderStep
    PROVE  Ordered'
<1>1. [Next]_vars
  BY DEF OrderStep, OrderNext, vars
<1>2. /\ Inv /\ env.production /\ LedgerHeight \in Nat /\ SealedIsContents
      /\ RowsContinue /\ txs \subseteq 1 .. txs_sequence /\ txs_sequence \in Nat
  BY ProductionShape, SealedInLedger DEF Production, Shape, RowsContinue, Pooled, Handed
<1>3. Keeps /\ (LedgerHeight' = LedgerHeight \/ (Extends /\ LedgerLast' = block))
  BY <1>1, ProductionKeeps
<1>4. \A tx \in 1 .. txs_sequence :
          preceding'[tx] = preceding[tx] /\ preceding[tx] \subseteq {e \in accepted : e < tx}
  BY NotedStep DEF Noted
<1>5. ASSUME NEW h \in 1 .. LedgerHeight, NEW tx \in LedgerBlock(h).body
      PROVE  tx \in 1 .. txs_sequence
  <2>1. LedgerBlock(h) \in Made
    BY <1>2, LedgerMade
  <2>2. QED
    BY <1>5, <2>1 DEF Entered, Handed
<1>6. ASSUME NEW h \in 1 .. LedgerHeight, NEW e, SealedBy(h, e)
      PROVE  \E g \in 1 .. h : e \in LedgerBlock(g)'.body
  <2>1. PICK g \in 1 .. h : e \in LedgerBlock(g).body
    BY <1>6 DEF SealedBy
  <2>2. LedgerBlock(g)' = LedgerBlock(g)
    BY <1>2, <1>3 DEF Keeps
  <2>3. QED
    BY <2>1, <2>2
<1>7. ASSUME NEW height \in 1 .. LedgerHeight', NEW tx \in LedgerBlock(height)'.body,
             NEW earlier \in preceding'[tx]
      PROVE  \E g \in 1 .. height : earlier \in LedgerBlock(g)'.body
  <2>1. CASE height \in 1 .. LedgerHeight
    <3>1. LedgerBlock(height)' = LedgerBlock(height)
      BY <1>2, <1>3, <2>1 DEF Keeps
    <3>2. tx \in LedgerBlock(height).body /\ earlier \in preceding[tx]
      BY <1>4, <1>5, <2>1, <3>1
    <3>3. SealedBy(height, earlier)
      BY <1>2, <2>1, <3>2 DEF Ordered, AcknowledgedFirst, Production
    <3>4. QED
      BY <1>6, <2>1, <3>3
  <2>2. CASE height \notin 1 .. LedgerHeight
    <3>1. /\ Extends /\ height = LedgerHeight' /\ LedgerHeight' = LedgerHeight + 1
          /\ LedgerLast' = block
      BY <1>2, <1>3, <2>2 DEF Extends
    <3>2. LedgerBlock(height)' = block
      BY <3>1 DEF LedgerLast, LedgerBlock
    <3>3. work = "insert" /\ LedgerBlock(height)'.body = batch
      BY <3>1, <3>2 DEF Extends, Inserts, WorkInsert, Pooled
    <3>4. tx \in batch /\ earlier \in preceding[tx]
      BY <1>4, <3>3 DEF Pooled, Handed
    <3>5. earlier \in batch \/ SealedBy(LedgerHeight, earlier)
      BY <3>3, <3>4 DEF Ordered, Brings
    <3>6. CASE earlier \in batch
      BY <3>3, <3>6
    <3>7. CASE SealedBy(LedgerHeight, earlier)
      <4>1. LedgerHeight \in 1 .. LedgerHeight
        BY <1>2, <3>7 DEF SealedBy
      <4>2. PICK g \in 1 .. LedgerHeight : earlier \in LedgerBlock(g)'.body
        BY <1>6, <3>7, <4>1
      <4>3. g \in 1 .. height
        BY <1>2, <3>1, <4>2
      <4>4. QED
        BY <4>2, <4>3
    <3>8. QED
      BY <3>5, <3>6, <3>7
  <2>3. QED
    BY <2>1, <2>2
<1>8. ASSUME work' \in {"create", "insert"}, NEW tx \in batch', NEW earlier \in preceding'[tx]
      PROVE  earlier \in batch' \/ \E g \in 1 .. LedgerHeight' : earlier \in LedgerBlock(g)'.body
  <2>1. ASSUME SealedBy(LedgerHeight, earlier)
        PROVE  \E g \in 1 .. LedgerHeight' : earlier \in LedgerBlock(g)'.body
    <3>1. LedgerHeight \in 1 .. LedgerHeight
      BY <1>2, <2>1 DEF SealedBy
    <3>2. PICK g \in 1 .. LedgerHeight : earlier \in LedgerBlock(g)'.body
      BY <1>6, <2>1, <3>1
    <3>3. g \in 1 .. LedgerHeight'
      BY <1>2, <1>3, <3>2 DEF Keeps
    <3>4. QED
      BY <3>2, <3>3
  <2>2. CASE work \in {"create", "insert"} /\ batch' = batch
    <3>1. earlier \in preceding[tx]
      BY <1>4, <2>2 DEF Pooled, Handed
    <3>2. QED
      BY <2>1, <2>2, <3>1 DEF Ordered, Brings
  <2>3. CASE NodeStep /\ WorkGet
    <3>1. batch' = selectTxByLength(max_txs) /\ batch' \subseteq txs
      BY <2>3 DEF WorkGet, selectTxByLength
    <3>2. tx \in 1 .. txs_sequence /\ earlier \in accepted /\ earlier < tx
      BY <1>2, <1>4, <3>1
    <3>3. earlier \in txs \/ earlier \in Contents
      BY <1>2, <3>2 DEF Inv, Kept, StoredIsKept, SealedIsContents
    <3>4. CASE earlier \in txs
      BY <1>2, <3>1, <3>2, <3>4, OldestTaken
    <3>5. CASE earlier \in Contents
      BY <2>1, <3>5 DEF Contents, SealedBy
    <3>6. QED
      BY <3>3, <3>4, <3>5
  <2>4. QED
    BY <1>1, <1>8, <2>2, <2>3, BatchFrom
<1>9. QED
  BY <1>7, <1>8 DEF Ordered, AcknowledgedFirst, Brings, SealedBy

(* A cancellation is never sealed before the purchase it was sent after,   *)
(* nor any transaction before one that had been acknowledged by then.      *)
THEOREM AcknowledgedFirstAlways == OrderSpec => []AcknowledgedFirst
<1>1. OrderSpec => Spec
  <2>1. OrderInit => Init
    BY DEF OrderInit
  <2>2. OrderStep => [Next]_vars
    BY DEF OrderStep, OrderNext, vars
  <2>3. QED
    BY <2>1, <2>2, PTL DEF OrderSpec, OrderStep, Spec
<1>2. OrderInit => OrderInv
  <2> SUFFICES ASSUME OrderInit PROVE OrderInv
    OBVIOUS
  <2>1. accepted = {} /\ txs_sequence = 0 /\ work = "idle"
    BY DEF OrderInit, Init, TablesInit, NodeInit
  <2>2. Noted
    BY <2>1 DEF Noted
  <2>3. ASSUME Orderly, env.production PROVE LedgerHeight = 0
    BY DEF OrderInit, Init, TablesInit, EmptyBlocks, ChainInit, Contract!addGenesis, LedgerHeight,
           NoRows
  <2>4. Orderly /\ env.production => Ordered
    BY <2>1, <2>3 DEF Ordered, AcknowledgedFirst
  <2>5. QED
    BY <2>2, <2>4 DEF OrderInv
<1>3. IInv /\ LInv /\ OnChain /\ RowsNumbered /\ SeparateInv /\ OrderInv /\ OrderStep => OrderInv'
  <2> SUFFICES ASSUME IInv, LInv, OnChain, RowsNumbered, SeparateInv, OrderInv, OrderStep
               PROVE  OrderInv'
    OBVIOUS
  <2>1. Pooled /\ Entered /\ Noted
    BY DEF SeparateInv, OrderInv
  <2>2. Noted'
    BY <2>1, NotedStep
  <2>3. ASSUME Orderly', env'.production PROVE Ordered'
    <3>1. env' = env
      BY EnvFixed DEF OrderStep, OrderNext, vars
    <3>2. Orderly /\ env.production
      BY <2>3, <3>1 DEF Orderly
    <3>3. Production /\ Ordered
      BY <3>2 DEF Production, OrderInv
    <3>4. QED
      BY <2>1, <3>3, OrderedStep
  <2>4. QED
    BY <2>2, <2>3 DEF OrderInv
<1>4. Spec => []LInv
  BY LInvInitial, LInvStep, InvAlways, PTL DEF Spec
<1>5. OrderInv => AcknowledgedFirst
  BY DEF OrderInv, Ordered, AcknowledgedFirst
<1>6. QED
  BY <1>1, <1>2, <1>3, <1>4, <1>5, InvAlways, OnChainAlways, RowsNumberedAlways, SeparateInvAlways,
     PTL DEF OrderSpec, OrderStep
============================================================================
