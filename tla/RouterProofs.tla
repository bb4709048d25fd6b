---------------------------- MODULE RouterProofs ----------------------------
(***************************************************************************)
(* For any number of concurrent requests, failing calls and crashes: what  *)
(* was acknowledged is stored under a sequence of its own, in an order     *)
(* clients can rely on, others are told of nothing that is not stored, and *)
(* the table sees no more than module Intake.                              *)
(***************************************************************************)
EXTENDS Router, TLAPS

USE RouterAssumption

(* The part of TypeOK the argument needs. *)
Types ==
    /\ txs_sequence \in Nat
    /\ stage \in [Requests -> Stages]
    /\ sequence \in [Requests -> Nat]
    /\ answer \in [Requests -> Replies \cup {None}]
    /\ preceding \in [Requests -> SUBSET Requests]

(* A sequence that has been handed out is at most txs_sequence and has one *)
(* request.                                                                *)
SequencesDiffer ==
    /\ \A r \in Requests : sequence[r] <= txs_sequence
    /\ \A q, r \in Requests : q # r /\ sequence[q] = sequence[r] => sequence[q] = 0

(* Every row is that of the request its sequence was handed out to. *)
RowsOwned ==
    \A s \in DOMAIN rows :
        s \in 1 .. txs_sequence /\ rows[s] \in Requests /\ sequence[rows[s]] = s

Unstored == {"idle", "shop", "sequence"}

(* Where a handler stands tells what it has done to the table. *)
StageTellsTable ==
    \A r \in Requests :
        /\ stage[r] \in Unstored => sequence[r] = 0
        /\ stage[r] = "store" => sequence[r] # 0 /\ sequence[r] \notin DOMAIN rows
        /\ stage[r] \in Awaits \ (Unstored \cup {"store"}) => Stored(r)

PrecedingStored == \A r \in Requests : \A q \in preceding[r] : Stored(q)

IInv ==
    /\ Types
    /\ SequencesDiffer
    /\ RowsOwned
    /\ StageTellsTable
    /\ AcknowledgedIsStored
    /\ PrecedingStored
    /\ LaterIsHigher

LEMMA InitInv == Init => IInv
<1> SUFFICES ASSUME Init PROVE IInv
  OBVIOUS
<1>1. Types
  BY DEF Init, Types, Stages
<1>2. SequencesDiffer /\ RowsOwned /\ LaterIsHigher
  BY DEF Init, SequencesDiffer, RowsOwned, LaterIsHigher
<1>3. StageTellsTable
  BY DEF Init, StageTellsTable, Unstored, Awaits
<1>4. AcknowledgedIsStored /\ PrecedingStored
  BY DEF Init, AcknowledgedIsStored, Acknowledged, PrecedingStored
<1> QED
  BY <1>1, <1>2, <1>3, <1>4 DEF IInv

(* What a handler's step may do to the stage and the answer of its request *)
(* alone.                                                                  *)
Moves(r, to) ==
    /\ stage' = [stage EXCEPT ![r] = to]
    /\ UNCHANGED answer

Ends(r) ==
    \E reply \in Replies :
        /\ stage' = [stage EXCEPT ![r] = "answered"]
        /\ answer' = [answer EXCEPT ![r] = reply]

Denies(r) ==
    \E reply \in Replies :
        /\ reply.code # 0
        /\ stage' = [stage EXCEPT ![r] = "answered"]
        /\ answer' = [answer EXCEPT ![r] = reply]

(* A handler that throws before its try block; others may be lost with it. *)
Quits(r) ==
    /\ stage[r] = "idle" /\ stage'[r] = "rejected"
    /\ stage' \in [Requests -> Stages]
    /\ \A q \in Requests \ {r} :
           \/ stage'[q] = stage[q]
           \/ stage[q] \in Awaits /\ stage'[q] = "lost"
    /\ UNCHANGED answer

LEMMA RejectsQuits ==
    ASSUME NEW r \in Requests, stage \in [Requests -> Stages], stage[r] = "idle", Rejects(r)
    PROVE  Quits(r)
<1>1. CASE stage' = [stage EXCEPT ![r] = "rejected"]
  BY <1>1 DEF Rejects, Quits, Stages
<1>2. CASE stage' = [Abandoned EXCEPT ![r] = "rejected"]
  <2>1. stage' = [q \in Requests |->
                      IF q = r THEN "rejected"
                      ELSE IF stage[q] \in Awaits THEN "lost" ELSE stage[q]]
    BY <1>2 DEF Abandoned
  <2> QED
    BY <2>1 DEF Rejects, Quits, Stages
<1> QED
  BY <1>1, <1>2 DEF Rejects

LEMMA ReplyDenies ==
    ASSUME NEW r, NEW reply \in Replies, reply.code # 0,
           stage' = [stage EXCEPT ![r] = "answered"],
           answer' = [answer EXCEPT ![r] = reply]
    PROVE  Denies(r)
BY DEF Denies

LEMMA ThrowsDenies == ASSUME NEW r, Throws(r) PROVE Denies(r)
<1> DEFINE reply == Reply(getErrorMessage(6000), FALSE)
<1>1. reply \in Replies /\ reply.code # 0
  BY DEF getErrorMessage, messages, Reply, Replies
<1>2. /\ stage' = [stage EXCEPT ![r] = "answered"]
      /\ answer' = [answer EXCEPT ![r] = reply]
  BY DEF Throws, Answers
<1> HIDE DEF reply
<1> QED
  BY <1>1, <1>2, ReplyDenies

LEMMA RefusesDenies ==
    ASSUME NEW r, NEW c, c \in {2001, 2004, 2005}, Refuses(r, c) PROVE Denies(r)
<1> DEFINE reply == Reply(getErrorMessage(c), FALSE)
<1>1. reply \in Replies /\ reply.code # 0
  BY DEF getErrorMessage, messages, Reply, Replies
<1>2. /\ stage' = [stage EXCEPT ![r] = "answered"]
      /\ answer' = [answer EXCEPT ![r] = reply]
  BY DEF Refuses, Answers
<1> HIDE DEF reply
<1> QED
  BY ONLY <1>1, <1>2, ReplyDenies

LEMMA PlainAnswerEnds ==
    ASSUME NEW r, NEW loyalty \in BOOLEAN, Answers(r, Reply(0, loyalty)) PROVE Ends(r)
<1> DEFINE reply == Reply(0, loyalty)
<1>1. reply \in Replies
  BY DEF getErrorMessage, messages, Reply, Replies
<1>2. /\ stage' = [stage EXCEPT ![r] = "answered"]
      /\ answer' = [answer EXCEPT ![r] = reply]
  BY DEF Answers
<1> HIDE DEF reply
<1> QED
  BY <1>1, <1>2 DEF Ends

LEMMA SucceedsEnds == ASSUME NEW r, Succeeds(r) PROVE Ends(r)
BY PlainAnswerEnds DEF Succeeds

Afterwards == {"convert", "balance", "notify", "announce"}

LEMMA AfterStoreMoves ==
    ASSUME NEW r, NEW input, AfterStore(r, input)
    PROVE  Ends(r) \/ \E to \in Afterwards : Moves(r, to)
BY SucceedsEnds DEF AfterStore, AfterConversion, Awaiting, Moves, Afterwards

(* After the transaction is stored the handler goes on or answers.         *)
LEMMA LaterStepMoves ==
    ASSUME NEW r, Convert(r) \/ GetBalance(r) \/ Notify(r) \/ Announce(r)
    PROVE  Ends(r) \/ \E to \in Afterwards : Moves(r, to)
<1>1. CASE Convert(r)
  BY <1>1, SucceedsEnds DEF Convert, AfterConversion, Awaiting, Moves, Afterwards
<1>2. CASE GetBalance(r)
  BY <1>2, SucceedsEnds DEF GetBalance, AfterBalance, Awaiting, Moves, Afterwards
<1>3. CASE Notify(r)
  BY <1>3, ThrowsDenies DEF Notify, Awaiting, Moves, Afterwards, Denies, Ends
<1>4. CASE Announce(r)
  BY <1>4, SucceedsEnds, PlainAnswerEnds DEF Announce
<1> QED
  BY <1>1, <1>2, <1>3, <1>4

----------------------------------------------------------------------------
(* A step that leaves table and sequences alone: a handler goes on or      *)
(* answers, others stay where they are.                                    *)
LEMMA QuietStep ==
    ASSUME IInv, NEW r \in Requests, UNCHANGED <<txs_sequence, rows, sequence, preceding>>,
           \/ \E to \in Unstored : Moves(r, to) /\ stage[r] \in Unstored
           \/ \E to \in Afterwards : Moves(r, to) /\ Stored(r)
           \/ Denies(r)
           \/ Ends(r) /\ Stored(r)
    PROVE  IInv'
<1>1. Types'
  BY DEF IInv, Types, Moves, Ends, Denies, Stages, Awaits, Unstored, Afterwards
<1>2. SequencesDiffer' /\ RowsOwned' /\ PrecedingStored' /\ LaterIsHigher'
  BY DEF IInv, SequencesDiffer, RowsOwned, PrecedingStored, LaterIsHigher, Stored
<1>3. StageTellsTable'
  BY DEF IInv, Types, StageTellsTable, Moves, Ends, Denies, Stored, Awaits, Unstored, Afterwards
<1>4. AcknowledgedIsStored'
  BY DEF IInv, Types, AcknowledgedIsStored, Acknowledged, Stored, Moves, Ends, Denies
<1> QED
  BY <1>1, <1>2, <1>3, <1>4 DEF IInv

LEMMA ReceiveEnds ==
    ASSUME stage \in [Requests -> Stages], NEW r \in Requests, NEW input \in Inputs,
           Receive(r, input)
    PROVE  Denies(r) \/ Quits(r) \/ \E to \in Unstored : Moves(r, to)
<1>1. Throws(r) => Denies(r)
  BY ThrowsDenies
<1>2. Refuses(r, 2001) => Denies(r)
  BY RefusesDenies
<1>3. Rejects(r) => Quits(r)
  BY RejectsQuits DEF Receive
<1> QED
  BY <1>1, <1>2, <1>3 DEF Receive, Awaiting, Moves, Unstored

LEMMA ReceiveInv ==
    ASSUME IInv, NEW r \in Requests, NEW input \in Inputs, Receive(r, input)
    PROVE  IInv'
<1>1. /\ stage[r] = "idle" /\ sequence[r] = 0
      /\ UNCHANGED <<txs_sequence, rows, sequence>>
      /\ preceding' = [preceding EXCEPT ![r] = {q \in Requests : Acknowledged(q)}]
  BY DEF Receive, IInv, StageTellsTable, Unstored, tableVars
<1>2. Denies(r) \/ Quits(r) \/ \E to \in Unstored : Moves(r, to)
  BY <1>1, ReceiveEnds DEF IInv, Types
<1>3. Types'
  BY <1>1, <1>2 DEF IInv, Types, Moves, Denies, Quits, Stages, Awaits, Unstored
<1>4. SequencesDiffer' /\ RowsOwned'
  BY <1>1 DEF IInv, SequencesDiffer, RowsOwned
<1>5. PrecedingStored' /\ LaterIsHigher'
  BY <1>1 DEF IInv, Types, PrecedingStored, LaterIsHigher, Stored, AcknowledgedIsStored
<1>6. StageTellsTable'
  BY <1>1, <1>2 DEF IInv, Types, StageTellsTable, Moves, Denies, Quits, Stored, Awaits, Unstored
<1>7. AcknowledgedIsStored'
  BY <1>1, <1>2 DEF IInv, Types, AcknowledgedIsStored, Acknowledged, Stored, Moves, Denies, Quits
<1> QED
  BY <1>3, <1>4, <1>5, <1>6, <1>7 DEF IInv

(* nextval answers a sequence above all that were handed out. *)
LEMMA TakeSequenceInv ==
    ASSUME IInv, NEW r \in Requests, TakeSequence(r)
    PROVE  IInv'
<1>1. stage[r] = "sequence" /\ sequence[r] = 0 /\ UNCHANGED <<rows, preceding>>
  BY DEF TakeSequence, IInv, StageTellsTable, Unstored
<1>2. CASE /\ txs_sequence' = txs_sequence + 1
           /\ sequence' = [sequence EXCEPT ![r] = txs_sequence']
           /\ Awaiting(r, "store")
  <2>1. Types'
    BY <1>1, <1>2 DEF IInv, Types, Awaiting, Stages, Awaits
  <2>2. \A q \in Requests : Stored(q) => q # r /\ Stored(q)' /\ sequence'[q] = sequence[q]
    BY <1>1, <1>2 DEF IInv, Types, Stored, RowsOwned
  <2>3. SequencesDiffer' /\ RowsOwned'
    BY <1>1, <1>2 DEF IInv, Types, SequencesDiffer, RowsOwned
  <2>4. StageTellsTable'
    <3>1. sequence'[r] # 0 /\ sequence'[r] \notin DOMAIN rows
      BY <1>1, <1>2 DEF IInv, Types, RowsOwned
    <3>2. \A q \in Requests : q # r => stage'[q] = stage[q] /\ sequence'[q] = sequence[q]
      BY <1>2 DEF IInv, Types, Awaiting
    <3>3. stage'[r] = "store"
      BY <1>2 DEF IInv, Types, Awaiting
    <3> QED
      BY <1>1, <3>1, <3>2, <3>3 DEF IInv, StageTellsTable, Stored, Awaits, Unstored
  <2>5. AcknowledgedIsStored' /\ PrecedingStored'
    BY <1>1, <1>2, <2>2
    DEF IInv, Types, AcknowledgedIsStored, Acknowledged, PrecedingStored, Stored, Awaiting
  <2>6. LaterIsHigher'
    BY <1>1, <1>2, <2>2 DEF IInv, Types, LaterIsHigher, PrecedingStored, SequencesDiffer
  <2> QED
    BY <2>1, <2>3, <2>4, <2>5, <2>6 DEF IInv
<1>3. CASE Throws(r) /\ UNCHANGED sequence /\ txs_sequence' \in {txs_sequence, txs_sequence + 1}
  <2>1. Denies(r)
    BY <1>3, ThrowsDenies
  <2>2. Types'
    BY <1>1, <1>3, <2>1 DEF IInv, Types, Denies, Stages
  <2>3. SequencesDiffer' /\ RowsOwned' /\ PrecedingStored' /\ LaterIsHigher'
    BY <1>1, <1>3 DEF IInv, Types, SequencesDiffer, RowsOwned, PrecedingStored, LaterIsHigher, Stored
  <2>4. StageTellsTable'
    BY <1>1, <1>3, <2>1 DEF IInv, Types, StageTellsTable, Denies, Stored, Awaits, Unstored
  <2>5. AcknowledgedIsStored'
    BY <1>1, <1>3, <2>1 DEF IInv, Types, AcknowledgedIsStored, Acknowledged, Stored, Denies
  <2> QED
    BY <2>2, <2>3, <2>4, <2>5 DEF IInv
<1> QED
  BY <1>2, <1>3 DEF TakeSequence, getNextSequence

(* A row is only written under the sequence of its own request. *)
LEMMA StoreTransactionInv ==
    ASSUME IInv, NEW r \in Requests, StoreTransaction(r)
    PROVE  IInv'
<1>1. /\ stage[r] = "store" /\ sequence[r] # 0 /\ sequence[r] \notin DOMAIN rows
      /\ UNCHANGED <<txs_sequence, sequence, preceding>>
  BY DEF StoreTransaction, IInv, StageTellsTable
<1>2. CASE UNCHANGED rows /\ Throws(r)
  BY <1>1, <1>2, ThrowsDenies, QuietStep
<1>3. CASE insertTx(sequence[r], r) /\ (Throws(r) \/ AfterStore(r, request[r]))
  <2>1. /\ DOMAIN rows' = DOMAIN rows \cup {sequence[r]}
        /\ rows'[sequence[r]] = r
        /\ \A s \in DOMAIN rows : rows'[s] = rows[s]
    BY <1>1, <1>3 DEF insertTx
  <2>2. Ends(r) \/ \E to \in Afterwards : Moves(r, to)
    BY <1>3, ThrowsDenies, AfterStoreMoves DEF Ends, Denies
  <2>3. Stored(r)' /\ \A q \in Requests : Stored(q) => Stored(q)'
    BY <1>1, <2>1 DEF Stored
  <2>4. Types'
    BY <1>1, <2>2
    DEF IInv, Types, Moves, Ends, Stages, Awaits, Afterwards
  <2>5. SequencesDiffer' /\ RowsOwned'
    BY <1>1, <2>1 DEF IInv, Types, SequencesDiffer, RowsOwned
  <2>6. PrecedingStored' /\ LaterIsHigher'
    BY <1>1, <2>3 DEF IInv, Types, PrecedingStored, LaterIsHigher
  <2>7. StageTellsTable'
    BY <1>1, <2>1, <2>2, <2>3
    DEF IInv, Types, StageTellsTable, SequencesDiffer, Moves, Ends, Awaits, Unstored, Afterwards
  <2>8. AcknowledgedIsStored'
    BY <2>2, <2>3 DEF IInv, Types, AcknowledgedIsStored, Acknowledged, Moves, Ends
  <2> QED
    BY <2>4, <2>5, <2>6, <2>7, <2>8 DEF IInv
<1> QED
  BY <1>2, <1>3 DEF StoreTransaction, FailedAdd

LEMMA NextInv == IInv /\ [Next]_vars => IInv'
<1> SUFFICES ASSUME IInv, [Next]_vars PROVE IInv'
  OBVIOUS
<1>1. ASSUME NEW r \in Requests, NEW input \in Inputs, Receive(r, input) PROVE IInv'
  BY <1>1, ReceiveInv
<1>2. ASSUME NEW r \in Requests, CheckShop(r) PROVE IInv'
  <2>1. Denies(r) \/ Moves(r, "sequence")
    BY <1>2, RefusesDenies, ThrowsDenies DEF CheckShop, Awaiting, Moves
  <2> QED
    BY <1>2, <2>1, QuietStep DEF CheckShop, tableVars, Unstored
<1>3. ASSUME NEW r \in Requests, TakeSequence(r) PROVE IInv'
  BY <1>3, TakeSequenceInv
<1>4. ASSUME NEW r \in Requests, StoreTransaction(r) PROVE IInv'
  BY <1>4, StoreTransactionInv
<1>5. ASSUME NEW r \in Requests, Convert(r) \/ GetBalance(r) \/ Notify(r) \/ Announce(r)
      PROVE IInv'
  <2>1. Stored(r) /\ UNCHANGED <<txs_sequence, rows, sequence, preceding>>
    BY <1>5 DEF Convert, GetBalance, Notify, Announce, IInv, StageTellsTable, Awaits, Unstored, tableVars
  <2>2. Ends(r) \/ \E to \in Afterwards : Moves(r, to)
    BY <1>5, LaterStepMoves
  <2> QED
    BY <2>1, <2>2, QuietStep
<1>6. CASE Crash
  <2>1. UNCHANGED <<txs_sequence, rows, sequence, preceding, answer>>
    BY <1>6 DEF Crash, tableVars
  <2>2. stage' = [r \in Requests |-> IF stage[r] \in Awaits THEN "lost" ELSE stage[r]]
    BY <1>6 DEF Crash, Abandoned
  <2>3. Types' /\ SequencesDiffer' /\ RowsOwned' /\ PrecedingStored' /\ LaterIsHigher'
    BY <2>1, <2>2
    DEF IInv, Types, Stages, SequencesDiffer, RowsOwned, PrecedingStored, LaterIsHigher, Stored
  <2>4. StageTellsTable' /\ AcknowledgedIsStored'
    BY <2>1, <2>2
    DEF IInv, Types, StageTellsTable, AcknowledgedIsStored, Acknowledged, Stored, Awaits, Unstored
  <2> QED
    BY <2>3, <2>4 DEF IInv
<1>7. CASE UNCHANGED <<tableVars, stage, answer, sequence, preceding>>
  BY <1>7 DEF IInv, Types, SequencesDiffer, RowsOwned, StageTellsTable, AcknowledgedIsStored,
              Acknowledged, PrecedingStored, LaterIsHigher, Stored, tableVars
<1>8. getSequence \/ UNCHANGED vars \/ (\E call \in delayed : Deliver(call))
        => UNCHANGED <<tableVars, stage, answer, sequence, preceding>>
  BY DEF getSequence, Deliver, vars, replyVars
<1> QED
  BY <1>1, <1>2, <1>3, <1>4, <1>5, <1>6, <1>7, <1>8 DEF Next, Handle

----------------------------------------------------------------------------
(* What a client has been answered 0 for is in the table, for any number   *)
(* of concurrent requests, failures and crashes.                           *)
THEOREM AcknowledgedIsStoredAlways == Spec => []AcknowledgedIsStored
<1>1. IInv => AcknowledgedIsStored
  BY DEF IInv
<1> QED
  BY InitInv, NextInv, <1>1, PTL DEF Spec

(* A request made after another was acknowledged gets the higher sequence. *)
THEOREM LaterIsHigherAlways == Spec => []LaterIsHigher
<1>1. IInv => LaterIsHigher
  BY DEF IInv
<1> QED
  BY InitInv, NextInv, <1>1, PTL DEF Spec

----------------------------------------------------------------------------
(* Whatever the server tells others about has been stored before: the calls *)
(* of a handler come after pool.add, and no step takes a row away.         *)
CallsTyped == relay \in Seq(Calls) /\ delayed \subseteq Calls

LEMMA StoredStays ==
    ASSUME IInv, [Next]_vars, NEW q \in Requests, Stored(q) PROVE Stored(q)'
<1> DEFINE Keeps == UNCHANGED <<rows, sequence>>
<1>1. Keeps => Stored(q)'
  BY DEF Stored
<1>2. ASSUME NEW r \in Requests, TakeSequence(r) PROVE Stored(q)'
  <2>1. UNCHANGED rows /\ (Keeps \/ sequence' = [sequence EXCEPT ![r] = txs_sequence'])
    BY <1>2 DEF TakeSequence
  <2>2. stage[r] = "sequence" /\ sequence[r] = 0
    BY <1>2 DEF TakeSequence, IInv, StageTellsTable, Unstored
  <2>3. r # q
    BY <2>2 DEF IInv, RowsOwned, Stored
  <2> QED
    BY <2>1, <2>3 DEF Stored, IInv, Types
<1>3. ASSUME NEW r \in Requests, StoreTransaction(r) PROVE Stored(q)'
  <2>1. UNCHANGED sequence /\ (UNCHANGED rows \/ insertTx(sequence[r], r))
    BY <1>3 DEF StoreTransaction
  <2>2. sequence[r] \notin DOMAIN rows
    BY <1>3 DEF StoreTransaction, IInv, StageTellsTable
  <2> QED
    BY <2>1, <2>2 DEF Stored, insertTx
<1>4. ASSUME NEW r \in Requests, Handle(r), ~ TakeSequence(r), ~ StoreTransaction(r) PROVE Keeps
  BY <1>4 DEF Handle, CheckShop, Convert, GetBalance, Notify, Announce, tableVars
<1>5. (\E r \in Requests, input \in Inputs : Receive(r, input)) => Keeps
  BY DEF Receive, tableVars
<1>6. getSequence \/ Crash \/ UNCHANGED vars \/ (\E call \in delayed : Deliver(call)) => Keeps
  BY DEF getSequence, Crash, Deliver, vars, tableVars
<1> QED
  BY <1>1, <1>2, <1>3, <1>4, <1>5, <1>6 DEF Next

LEMMA AppendTells ==
    ASSUME CallsTyped, NEW call \in Calls, relay' = Append(relay, call),
           delayed' \subseteq delayed
    PROVE  CallsTyped' /\ Told' \subseteq Told \cup {call}
BY DEF CallsTyped, Told

LEMMA PostTells ==
    ASSUME CallsTyped, NEW call \in Calls, Post(call)
    PROVE  CallsTyped' /\ Told' \subseteq Told \cup {call}
<1>1. CASE relay' = Append(relay, call) /\ UNCHANGED delayed
  BY <1>1, AppendTells
<1>2. CASE UNCHANGED relay /\ delayed' \in {delayed, delayed \cup {call}}
  BY <1>2 DEF CallsTyped, Told
<1> QED
  BY <1>1, <1>2 DEF Post, relayVars

(* Every new call is about a request that has its row. *)
LEMMA StepTells ==
    ASSUME IInv, CallsTyped, [Next]_vars
    PROVE  CallsTyped' /\ \A call \in Told' : call \in Told \/ Stored(call.of)
<1> DEFINE Tells == CallsTyped' /\ \A call \in Told' : call \in Told \/ Stored(call.of)
<1>1. UNCHANGED relayVars => Tells
  BY DEF relayVars, CallsTyped, Told
<1>2. ASSUME NEW r \in Requests, NEW to \in {"user", "relay"}, Post(Call(to, r)), Stored(r)
      PROVE  Tells
  <2> DEFINE call == Call(to, r)
  <2>1. call \in Calls /\ call.of = r
    BY DEF Calls, Call
  <2> HIDE DEF call
  <2>2. CallsTyped' /\ Told' \subseteq Told \cup {call}
    BY <1>2, <2>1, PostTells DEF call
  <2> QED
    BY <1>2, <2>1, <2>2
<1>3. ASSUME NEW r \in Requests, Notify(r) \/ Announce(r) PROVE Tells
  <2>1. Stored(r)
    BY <1>3 DEF Notify, Announce, IInv, StageTellsTable, Awaits, Unstored
  <2>2. UNCHANGED relayVars \/ \E to \in {"user", "relay"} : Post(Call(to, r))
    BY <1>3 DEF Notify, Announce
  <2> QED
    BY <1>1, <1>2, <2>1, <2>2
<1>4. ASSUME NEW call \in delayed, Deliver(call) PROVE Tells
  <2>1. call \in Calls /\ call \in Told
    BY DEF CallsTyped, Told
  <2>2. relay' = Append(relay, call) /\ delayed' \subseteq delayed
    BY <1>4 DEF Deliver
  <2> QED
    BY <2>1, <2>2, AppendTells
<1>5. ASSUME NEW r \in Requests, Handle(r), ~ Notify(r), ~ Announce(r) PROVE UNCHANGED relayVars
  BY <1>5 DEF Handle, CheckShop, TakeSequence, StoreTransaction, Convert, GetBalance
<1>6. (\E r \in Requests, input \in Inputs : Receive(r, input)) => UNCHANGED relayVars
  BY DEF Receive
<1>7. getSequence \/ Crash \/ UNCHANGED vars => UNCHANGED relayVars
  BY DEF getSequence, Crash, vars
<1> QED
  BY <1>1, <1>3, <1>4, <1>5, <1>6, <1>7 DEF Next

LEMMA ToldStep ==
    ASSUME IInv, CallsTyped, ToldIsStored, [Next]_vars PROVE ToldIsStored'
<1>1. CallsTyped' /\ \A call \in Told' : call \in Told \/ Stored(call.of)
  BY StepTells
<1>2. \A call \in Told' : call.of \in Requests /\ Stored(call.of)
  <2>1. Told' \subseteq Calls
    BY <1>1 DEF CallsTyped, Told
  <2> QED
    BY <1>1, <2>1 DEF ToldIsStored, Calls
<1>3. ASSUME NEW call \in Told' PROVE Stored(call.of)'
  <2>1. PICK q \in Requests : q = call.of /\ Stored(q)
    BY <1>2, <1>3
  <2>2. Stored(q)'
    BY <2>1, StoredStays
  <2> QED
    BY <2>1, <2>2 DEF Stored
<1> QED
  BY <1>3 DEF ToldIsStored, Stored

----------------------------------------------------------------------------
(* What TypeOK says beyond Types and CallsTyped. *)
RestTyped ==
    /\ request \in [Requests -> Inputs \cup {None}]
    /\ success \in Nat /\ failure \in Nat
    /\ reported \in Nat \cup {None}
    /\ faults \in Nat /\ crashes \in Nat

(* What a step does to the summaries, and one of a handler to the faults.  *)
Summed ==
    /\ success' \in {success, success + 1}
    /\ failure' \in {failure, failure + 1}

Counts ==
    /\ Summed
    /\ faults' \in {faults, faults + 1}
    /\ UNCHANGED <<request, reported, crashes>>

LEMMA ThrowsCounts == ASSUME NEW r, Throws(r) PROVE Summed
BY SMT DEF Throws, Summed

LEMMA SucceedsCounts == ASSUME NEW r, Succeeds(r) PROVE Summed
BY SMT DEF Succeeds, Summed

LEMMA RefusesCounts == ASSUME NEW r, NEW code, Refuses(r, code) PROVE Summed
BY SMT DEF Refuses, Summed

LEMMA AwaitingCounts == ASSUME NEW r, NEW await, Awaiting(r, await) PROVE Summed
BY SMT DEF Awaiting, Summed

LEMMA AfterStoreEnds ==
    ASSUME NEW r, NEW input, AfterStore(r, input)
    PROVE  Succeeds(r) \/ \E await : Awaiting(r, await)
BY Zenon DEF AfterStore, AfterConversion

LEMMA HandleCounts == ASSUME NEW r \in Requests, Handle(r) PROVE Counts
<1> DEFINE Faulty == faults' \in {faults, faults + 1}
<1>1. Works \/ Fault \/ Undefined => Faulty
  BY DEF Works, Fault, Undefined
<1>2. ASSUME NEW call, Post(call) PROVE Faulty
  BY <1>1, <1>2 DEF Post
<1>3. CASE CheckShop(r)
  BY <1>1, <1>3, ThrowsCounts, RefusesCounts, AwaitingCounts DEF CheckShop, Counts
<1>4. CASE TakeSequence(r)
  BY <1>1, <1>4, ThrowsCounts, AwaitingCounts DEF TakeSequence, Counts
<1>5. CASE StoreTransaction(r)
  BY <1>1, <1>5, ThrowsCounts, SucceedsCounts, AwaitingCounts, AfterStoreEnds
  DEF StoreTransaction, FailedAdd, Counts
<1>6. CASE Convert(r)
  BY <1>1, <1>6, SucceedsCounts, AwaitingCounts DEF Convert, AfterConversion, Counts
<1>7. CASE GetBalance(r)
  BY <1>1, <1>7, SucceedsCounts, AwaitingCounts DEF GetBalance, Counts
<1>8. CASE Notify(r)
  BY <1>1, <1>2, <1>8, ThrowsCounts, AwaitingCounts DEF Notify, Counts
<1>9. CASE Announce(r)
  BY <1>2, <1>9, SucceedsCounts DEF Announce, Counts, Summed
<1> QED
  BY <1>3, <1>4, <1>5, <1>6, <1>7, <1>8, <1>9 DEF Handle

LEMMA RestStep ==
    ASSUME IInv, RestTyped, [Next]_vars PROVE RestTyped'
<1>1. Counts => RestTyped'
  BY DEF Counts, Summed, RestTyped
<1>2. ASSUME NEW r \in Requests, NEW input \in Inputs, Receive(r, input) PROVE RestTyped'
  <2>1. request' = [request EXCEPT ![r] = input] /\ UNCHANGED <<reported, faults, crashes>>
    BY <1>2 DEF Receive
  <2>2. CASE Summed
    BY <2>1, <2>2 DEF RestTyped, Summed
  <2>3. CASE Rejects(r)
    BY <2>1, <2>3 DEF RestTyped, Rejects
  <2> QED
    BY <1>2, <2>2, <2>3, ThrowsCounts, RefusesCounts, AwaitingCounts DEF Receive
<1>3. CASE getSequence
  BY <1>3 DEF getSequence, getLastSequence, replyVars, RestTyped, IInv, Types
<1>4. CASE Crash
  BY <1>4 DEF Crash, RestTyped
<1>5. UNCHANGED vars \/ (\E call \in delayed : Deliver(call)) => RestTyped'
  BY DEF vars, replyVars, Deliver, RestTyped
<1> QED
  BY <1>1, <1>2, <1>3, <1>4, <1>5, HandleCounts DEF Next

----------------------------------------------------------------------------
(* Whom a request may come after: requests whose handlers have ended. While *)
(* no call fails, nothing is under way to the relay server.                *)
Endings ==
    /\ \A r \in Requests : Acknowledged(r) => stage[r] = "answered"
    /\ \A r \in Requests : \A q \in preceding[r] : Acknowledged(q)
    /\ faults = 0 => delayed = {}

Everything == IInv /\ CallsTyped /\ ToldIsStored /\ RestTyped /\ Endings

LEMMA NoFault ==
    ASSUME RestTyped, [Next]_vars, faults' = 0
    PROVE  /\ faults = 0
           /\ \A call : Post(call) => relay' = Append(relay, call) /\ UNCHANGED delayed
<1>1. faults \in Nat
  BY DEF RestTyped
<1>2. faults' \in {faults, faults + 1}
  <2>1. ASSUME NEW r \in Requests, NEW input \in Inputs, Receive(r, input) PROVE UNCHANGED faults
    BY <2>1 DEF Receive
  <2>2. UNCHANGED vars \/ Crash \/ getSequence \/ (\E call \in delayed : Deliver(call))
          => UNCHANGED faults
    BY DEF vars, Crash, getSequence, Deliver
  <2> QED
    BY <2>1, <2>2, HandleCounts DEF Counts, Next
<1>3. faults = 0
  BY <1>1, <1>2
<1>4. ~ Fault
  BY <1>3 DEF Fault
<1> QED
  BY <1>3, <1>4 DEF Post

(* A handler that has answered takes no step; one that answers ends.       *)
Proceeds(r) ==
    /\ stage[r] # "answered"
    /\ Denies(r) \/ Ends(r) \/ \E to \in Unstored \cup Afterwards \cup {"store"} : Moves(r, to)

LEMMA StepShape ==
    ASSUME IInv, [Next]_vars
    PROVE  \/ \E r \in Requests : Proceeds(r) \/ Quits(r)
           \/ UNCHANGED <<stage, answer>>
           \/ Crash
<1>1. ASSUME NEW r \in Requests, NEW input \in Inputs, Receive(r, input)
      PROVE  Proceeds(r) \/ Quits(r)
  <2>1. Denies(r) \/ Quits(r) \/ \E to \in Unstored : Moves(r, to)
    BY <1>1, ReceiveEnds DEF IInv, Types
  <2> QED
    BY <1>1, <2>1 DEF Receive, Proceeds
<1>2. ASSUME NEW r \in Requests, CheckShop(r) PROVE Proceeds(r)
  BY <1>2, RefusesDenies, ThrowsDenies DEF CheckShop, Awaiting, Moves, Unstored, Proceeds
<1>3. ASSUME NEW r \in Requests, TakeSequence(r) PROVE Proceeds(r)
  BY <1>3, ThrowsDenies DEF TakeSequence, Awaiting, Moves, Proceeds
<1>4. ASSUME NEW r \in Requests, StoreTransaction(r) PROVE Proceeds(r)
  BY <1>4, ThrowsDenies, AfterStoreMoves DEF StoreTransaction, FailedAdd, Proceeds
<1>5. ASSUME NEW r \in Requests, Convert(r) \/ GetBalance(r) \/ Notify(r) \/ Announce(r)
      PROVE  Proceeds(r)
  BY <1>5, LaterStepMoves DEF Convert, GetBalance, Notify, Announce, Proceeds
<1>6. UNCHANGED vars \/ getSequence \/ (\E call \in delayed : Deliver(call))
        => UNCHANGED <<stage, answer>>
  BY DEF vars, replyVars, getSequence, Deliver
<1> QED
  BY <1>1, <1>2, <1>3, <1>4, <1>5, <1>6 DEF Next, Handle

LEMMA AnswersStay ==
    ASSUME IInv, Endings, [Next]_vars, NEW q \in Requests
    PROVE  /\ Acknowledged(q) => Acknowledged(q)'
           /\ Acknowledged(q)' => stage'[q] = "answered"
<1>1. ASSUME NEW r \in Requests, Proceeds(r)
      PROVE  /\ Acknowledged(q) => Acknowledged(q)'
             /\ Acknowledged(q)' => stage'[q] = "answered"
  <2>1. q # r => stage'[q] = stage[q] /\ answer'[q] = answer[q]
    BY <1>1 DEF Proceeds, Moves, Ends, Denies, IInv, Types
  <2>2. q = r => ~ Acknowledged(q)
    BY <1>1 DEF Proceeds, Endings
  <2>3. q = r => stage'[q] = "answered" \/ answer'[q] = answer[q]
    BY <1>1 DEF Proceeds, Moves, Ends, Denies, IInv, Types
  <2> QED
    BY <2>1, <2>2, <2>3 DEF Acknowledged, Endings
<1>2. CASE UNCHANGED <<stage, answer>>
  BY <1>2 DEF Acknowledged, Endings
<1>3. CASE Crash
  BY <1>3 DEF Crash, Abandoned, Acknowledged, Endings, Awaits
<1>4. ASSUME NEW r \in Requests, Quits(r)
      PROVE  /\ Acknowledged(q) => Acknowledged(q)'
             /\ Acknowledged(q)' => stage'[q] = "answered"
  BY <1>4 DEF Quits, Acknowledged, Endings, Awaits
<1> QED
  BY <1>1, <1>2, <1>3, <1>4, StepShape

LEMMA EndingsStep == ASSUME Everything, [Next]_vars PROVE Endings'
<1>1. \A r \in Requests : Acknowledged(r)' => stage'[r] = "answered"
  BY AnswersStay DEF Everything
<1>2. \A r \in Requests : \A q \in preceding'[r] : q \in Requests /\ Acknowledged(q)
  <2>1. ASSUME NEW r \in Requests, NEW input \in Inputs, Receive(r, input)
        PROVE  preceding' = [preceding EXCEPT ![r] = {q \in Requests : Acknowledged(q)}]
    BY <2>1 DEF Receive
  <2>2. (\A r \in Requests, input \in Inputs : ~ Receive(r, input)) => UNCHANGED preceding
    BY DEF Next, Handle, CheckShop, TakeSequence, StoreTransaction, Convert, GetBalance, Notify,
           Announce, getSequence, Crash, Deliver, vars
  <2> QED
    BY <2>1, <2>2 DEF Everything, Endings, IInv, Types
<1>3. faults' = 0 => delayed' = {}
  <2> SUFFICES ASSUME faults' = 0 PROVE delayed' = {}
    OBVIOUS
  <2>1. faults = 0 /\ delayed = {} /\ \A call : Post(call) => UNCHANGED delayed
    BY NoFault DEF Everything, Endings
  <2>2. UNCHANGED delayed
    BY <2>1 DEF Next, Handle, Receive, CheckShop, TakeSequence, StoreTransaction, Convert, GetBalance,
                Notify, Announce, getSequence, Crash, vars, relayVars
  <2> QED
    BY <2>1, <2>2
<1> QED
  BY <1>1, <1>2, <1>3, AnswersStay DEF Everything, Endings

LEMMA EverythingAlways == Spec => []Everything
<1>1. Init => Everything
  BY InitInv DEF Init, CallsTyped, ToldIsStored, Told, RestTyped, Endings, Acknowledged, Everything
<1>2. Everything /\ [Next]_vars => Everything'
  BY NextInv, StepTells, ToldStep, RestStep, EndingsStep DEF Everything
<1> QED
  BY <1>1, <1>2, PTL DEF Spec

(* Every handler stands at one of its awaits or has ended, every answer is *)
(* a code the server has a message for, and every row has a request.       *)
THEOREM TypeCorrect == Spec => []TypeOK
<1>1. Everything => TypeOK
  BY DEF Everything, IInv, Types, RowsOwned, CallsTyped, RestTyped, TypeOK
<1> QED
  BY EverythingAlways, <1>1, PTL

(* The relay server and the users hear of nothing that is not stored, for  *)
(* any number of requests, failing and late calls, and crashes.            *)
THEOREM ToldIsStoredAlways == Spec => []ToldIsStored
<1>1. Everything => ToldIsStored
  BY DEF Everything
<1> QED
  BY EverythingAlways, <1>1, PTL

(* While no call fails, the relay server is told by appending to relay.    *)
LEMMA FaultlessRelay ==
    ASSUME Everything, [Next]_vars, faults' = 0, relay' # relay
    PROVE  \E r \in Requests, to \in {"user", "relay"} :
               /\ relay' = Append(relay, Call(to, r))
               /\ stage[r] # "answered"
               /\ UNCHANGED preceding
<1>1. delayed = {} /\ \A call : Post(call) => relay' = Append(relay, call)
  BY NoFault DEF Everything, Endings
<1>2. \E r \in Requests : Notify(r) \/ Announce(r)
  <2>1. ~ UNCHANGED relayVars
    BY DEF relayVars
  <2>2. \A r \in Requests : Handle(r) => Notify(r) \/ Announce(r)
    BY <2>1 DEF Handle, CheckShop, TakeSequence, StoreTransaction, Convert, GetBalance
  <2>3. \A r \in Requests, input \in Inputs : ~ Receive(r, input)
    BY <2>1 DEF Receive
  <2>4. ~ getSequence /\ ~ Crash /\ ~ UNCHANGED vars
    BY <2>1 DEF getSequence, Crash, vars
  <2> QED
    BY <1>1, <2>2, <2>3, <2>4 DEF Next
<1>3. ASSUME NEW r \in Requests, Notify(r) \/ Announce(r)
      PROVE  /\ \E to \in {"user", "relay"} : Post(Call(to, r))
             /\ stage[r] # "answered"
             /\ UNCHANGED preceding
  BY <1>3 DEF Notify, Announce, relayVars
<1> QED
  BY <1>1, <1>2, <1>3

(* Only an idle handler learns what precedes it, and it has told nobody.   *)
LEMMA ToldKeepsPreceding ==
    ASSUME Everything, [Next]_vars, NEW i \in DOMAIN relay
    PROVE  preceding'[relay[i].of] = preceding[relay[i].of]
<1>1. relay[i] \in Told /\ relay[i].of \in Requests
  <2>1. relay \in Seq(Calls)
    BY DEF Everything, CallsTyped
  <2>2. relay[i] \in Calls
    BY <2>1
  <2> QED
    BY <2>2 DEF Calls, Told
<1>2. Stored(relay[i].of)
  BY <1>1 DEF Everything, ToldIsStored
<1>3. stage[relay[i].of] # "idle"
  BY <1>1, <1>2 DEF Everything, IInv, StageTellsTable, Unstored, RowsOwned, Stored
<1>4. ASSUME NEW r \in Requests, NEW input \in Inputs, Receive(r, input)
      PROVE  r # relay[i].of /\ preceding' = [preceding EXCEPT ![r] = {q \in Requests : Acknowledged(q)}]
  BY <1>3, <1>4 DEF Receive
<1>5. (\A r \in Requests, input \in Inputs : ~ Receive(r, input)) => UNCHANGED preceding
  BY DEF Next, Handle, CheckShop, TakeSequence, StoreTransaction, Convert, GetBalance, Notify,
         Announce, getSequence, Crash, Deliver, vars
<1> QED
  BY <1>1, <1>4, <1>5 DEF Everything, IInv, Types

(* While no call of the server fails, the relay server never processes a   *)
(* request before those acknowledged earlier, however many there are.      *)
THEOREM RelaySeesOrderAlways == Spec => []RelaySeesOrder
<1>1. Init => RelaySeesOrder
  BY DEF Init, RelaySeesOrder
<1>2. Everything /\ RelaySeesOrder /\ [Next]_vars => RelaySeesOrder'
  <2> SUFFICES ASSUME Everything, RelaySeesOrder, [Next]_vars, faults' = 0,
                      NEW i \in DOMAIN relay', NEW j \in DOMAIN relay',
                      relay'[i].to = "relay", relay'[j].to = "relay",
                      relay'[i].of \in preceding'[relay'[j].of]
               PROVE  i < j
    BY DEF RelaySeesOrder
  <2>1. \A g, h \in DOMAIN relay :
            /\ relay[g].to = "relay" /\ relay[h].to = "relay"
            /\ relay[g].of \in preceding'[relay[h].of]
            => g < h
    BY NoFault, ToldKeepsPreceding DEF Everything, RelaySeesOrder
  <2>2. CASE relay' = relay
    BY <2>1, <2>2
  <2>3. CASE relay' # relay
    <3>1. PICK r \in Requests, to \in {"user", "relay"} :
              /\ relay' = Append(relay, Call(to, r))
              /\ stage[r] # "answered"
              /\ UNCHANGED preceding
      BY <2>3, FaultlessRelay
    <3>2. relay \in Seq(Calls) /\ Call(to, r) \in Calls /\ Call(to, r).of = r
      BY DEF Everything, CallsTyped, Calls, Call
    <3> DEFINE call == Call(to, r)
    <3> HIDE DEF call
    <3>3. /\ Len(relay) \in Nat
          /\ DOMAIN relay = 1 .. Len(relay) /\ DOMAIN relay' = 1 .. Len(relay) + 1
          /\ \A h \in 1 .. Len(relay) : relay'[h] = relay[h]
          /\ relay'[Len(relay) + 1] = Call(to, r)
      BY <3>1, <3>2 DEF call
    <3>4. relay'[j].of \in Requests
      <4>1. relay'[j] \in Calls
        BY <3>2, <3>3
      <4> QED
        BY <4>1 DEF Calls
    <3>5. relay'[i].of # r
      BY <3>1, <3>4 DEF Everything, Endings
    <3>6. i \in DOMAIN relay
      BY <3>2, <3>3, <3>5
    <3> QED
      BY <2>1, <3>3, <3>6
  <2> QED
    BY <2>2, <2>3
<1> QED
  BY EverythingAlways, <1>1, <1>2, PTL DEF Spec

(* Only the last step of a purchase promises a loyalty, and only with it.  *)
LEMMA PlainAnswers ==
    ASSUME IInv, [Next]_vars, NEW q \in Requests, ~ Announce(q), answer'[q] # answer[q]
    PROVE  ~ answer'[q].loyalty
<1> DEFINE Plain(r) == \E code : answer' = [answer EXCEPT ![r] = Reply(code, FALSE)]
<1>1. ASSUME NEW r, Throws(r) PROVE Plain(r)
  <2> DEFINE code == getErrorMessage(6000)
  <2>1. answer' = [answer EXCEPT ![r] = Reply(code, FALSE)]
    BY <1>1 DEF Throws, Answers
  <2> HIDE DEF code
  <2> QED
    BY <2>1
<1>2. ASSUME NEW r, Succeeds(r) PROVE Plain(r)
  BY <1>2, Zenon DEF Succeeds, Answers
<1>3. ASSUME NEW r, NEW code, Refuses(r, code) PROVE Plain(r)
  BY <1>3, Zenon DEF Refuses, Answers
<1>4. ASSUME NEW r, NEW await, Awaiting(r, await) PROVE UNCHANGED answer
  BY <1>4 DEF Awaiting
<1>5. ASSUME NEW r \in Requests, Plain(r) PROVE ~ answer'[q].loyalty
  BY <1>5 DEF Reply, IInv, Types
<1> HIDE DEF Plain
<1>6. ASSUME NEW r \in Requests, NEW input \in Inputs, Receive(r, input) PROVE Plain(r) \/ UNCHANGED answer
  <2>1. Rejects(r) => UNCHANGED answer
    BY DEF Rejects
  <2> QED
    BY <1>1, <1>3, <1>4, <1>6, <2>1 DEF Receive
<1>7. ASSUME NEW r \in Requests, Handle(r), ~ Announce(r) PROVE Plain(r) \/ UNCHANGED answer
  <2>1. CASE CheckShop(r)
    BY <1>1, <1>3, <1>4, <2>1 DEF CheckShop
  <2>2. CASE TakeSequence(r)
    BY <1>1, <1>4, <2>2 DEF TakeSequence
  <2>3. CASE StoreTransaction(r)
    BY <1>1, <1>2, <1>4, <2>3, AfterStoreEnds DEF StoreTransaction, FailedAdd
  <2>4. CASE Convert(r)
    BY <1>2, <1>4, <2>4 DEF Convert, AfterConversion
  <2>5. CASE GetBalance(r)
    BY <1>2, <1>4, <2>5 DEF GetBalance
  <2>6. CASE Notify(r)
    BY <1>1, <1>4, <2>6 DEF Notify
  <2> QED
    BY <1>7, <2>1, <2>2, <2>3, <2>4, <2>5, <2>6 DEF Handle
<1>8. ASSUME NEW r \in Requests, Announce(r) PROVE UNCHANGED answer \/ answer'[q] = answer[q]
  <2>1. Ends(r) \/ \E to \in Afterwards : Moves(r, to)
    BY <1>8, LaterStepMoves
  <2>2. r # q
    BY <1>8
  <2> QED
    BY <2>1, <2>2 DEF Ends, Moves, IInv, Types
<1>9. UNCHANGED vars \/ getSequence \/ Crash \/ (\E call \in delayed : Deliver(call)) => UNCHANGED answer
  BY DEF vars, replyVars, getSequence, Crash, Deliver
<1> QED
  BY <1>5, <1>6, <1>7, <1>8, <1>9 DEF Next

(* What the relay server has processed it keeps.                           *)
LEMMA RelayGrows ==
    ASSUME Everything, [Next]_vars, faults' = 0, NEW i \in DOMAIN relay
    PROVE  i \in DOMAIN relay' /\ relay'[i] = relay[i]
<1>1. relay \in Seq(Calls)
  BY DEF Everything, CallsTyped
<1>2. CASE relay' = relay
  BY <1>2
<1>3. CASE relay' # relay
  <2>1. PICK r \in Requests, to \in {"user", "relay"} : relay' = Append(relay, Call(to, r))
    BY <1>3, FaultlessRelay
  <2>2. Call(to, r) \in Calls
    BY DEF Call, Calls
  <2> QED
    BY <1>1, <2>1, <2>2
<1> QED
  BY <1>2, <1>3

(* While no call of the server fails, the relay server has every purchase  *)
(* a client was promised a loyalty for, for any number of requests.        *)
THEOREM PromiseIsAnnouncedAlways == Spec => []PromiseIsAnnounced
<1>1. Init => PromiseIsAnnounced
  BY DEF Init, PromiseIsAnnounced
<1>2. Everything /\ PromiseIsAnnounced /\ [Next]_vars => PromiseIsAnnounced'
  <2> SUFFICES ASSUME Everything, PromiseIsAnnounced, [Next]_vars, faults' = 0,
                      NEW r \in Requests, answer'[r] # None, answer'[r].loyalty
               PROVE  \E i \in DOMAIN relay' : relay'[i] = Call("relay", r)
    BY DEF PromiseIsAnnounced
  <2>1. CASE Announce(r)
    <3>1. relay' = Append(relay, Call("relay", r))
      BY <2>1, NoFault DEF Announce, Everything
    <3>2. relay \in Seq(Calls) /\ Call("relay", r) \in Calls
      BY DEF Everything, CallsTyped, Call, Calls
    <3> QED
      BY <3>1, <3>2
  <2>2. CASE ~ Announce(r)
    <3>1. answer'[r] = answer[r]
      BY <2>2, PlainAnswers DEF Everything
    <3>2. PICK i \in DOMAIN relay : relay[i] = Call("relay", r)
      BY <3>1, NoFault DEF PromiseIsAnnounced, Everything
    <3> QED
      BY <3>2, RelayGrows
  <2> QED
    BY <2>1, <2>2
<1> QED
  BY EverythingAlways, <1>1, <1>2, PTL DEF Spec

(* Whatever sequence a client asks for, no transaction acknowledged by then *)
(* has a higher one.                                                       *)
THEOREM ReportBoundsAcknowledgedAlways == Spec => ReportBoundsAcknowledged
<1> DEFINE Bounds == reported' # reported =>
                         \A r \in Requests : Acknowledged(r) => sequence[r] <= reported'
<1>1. Everything /\ [Next]_vars => [Bounds]_vars
  <2> SUFFICES ASSUME Everything, Next, reported' # reported, NEW r \in Requests
               PROVE  sequence[r] <= reported'
    OBVIOUS
  <2>1. ~ \E q \in Requests : Handle(q) \/ \E input \in Inputs : Receive(q, input)
    BY HandleCounts DEF Counts, Receive
  <2>2. getSequence
    BY <2>1 DEF Next, Crash, Deliver
  <2> QED
    BY <2>2 DEF getSequence, getLastSequence, Everything, IInv, Types, SequencesDiffer
<1> QED
  BY EverythingAlways, <1>1, PTL DEF Spec, ReportBoundsAcknowledged

----------------------------------------------------------------------------
(* The sequences that are taken and not stored are those of the handlers   *)
(* that wait for pool.add.                                                 *)
inflight == {sequence[r] : r \in Waiting}

(* A handler's step that neither enters nor leaves "store".                *)
LEMMA StaysOut ==
    ASSUME IInv, NEW r \in Requests, stage[r] # "store", UNCHANGED sequence,
           Denies(r) \/ Ends(r) \/ \E to \in Unstored \cup Afterwards : Moves(r, to)
    PROVE  inflight' = inflight
<1>1. \A q \in Requests : (stage'[q] = "store") <=> (stage[q] = "store")
  BY DEF IInv, Types, Denies, Ends, Moves, Unstored, Afterwards
<1>2. Waiting' = Waiting
  BY <1>1 DEF Waiting
<1> QED
  BY <1>2 DEF inflight

LEMMA StepImplements == IInv /\ [Next]_vars => [AbstractIntake!Next]_(AbstractIntake!intakeVars)
<1> SUFFICES ASSUME IInv, [Next]_vars
             PROVE  \/ UNCHANGED <<txs_sequence, inflight, DOMAIN rows>>
                    \/ /\ txs_sequence' = txs_sequence + 1
                       /\ inflight' \in {inflight, inflight \cup {txs_sequence'}}
                       /\ UNCHANGED DOMAIN rows
                    \/ /\ inflight' \subseteq inflight
                       /\ UNCHANGED <<txs_sequence, DOMAIN rows>>
                    \/ \E tx \in inflight :
                          /\ inflight' = inflight \ {tx}
                          /\ DOMAIN rows' = DOMAIN rows \cup {tx}
                          /\ UNCHANGED txs_sequence
  BY DEF inflight, AbstractIntake!Next, AbstractIntake!TakeSequence, AbstractIntake!Store,
         AbstractIntake!Abandon, AbstractIntake!intakeVars
<1> DEFINE Stutters == UNCHANGED <<txs_sequence, inflight, DOMAIN rows>>
<1>1. ASSUME NEW r \in Requests, NEW input \in Inputs, Receive(r, input)
      PROVE  inflight' \subseteq inflight /\ UNCHANGED <<txs_sequence, DOMAIN rows>>
  <2>1. stage[r] # "store" /\ UNCHANGED <<txs_sequence, rows, sequence>>
    BY <1>1 DEF Receive, tableVars
  <2>2. CASE Denies(r) \/ \E to \in Unstored : Moves(r, to)
    BY <2>1, <2>2, StaysOut
  <2>3. CASE Quits(r)
    <3>1. Waiting' \subseteq Waiting
      BY <2>3 DEF Quits, Waiting
    <3> QED
      BY <2>1, <3>1 DEF inflight
  <2> QED
    BY <1>1, <2>1, <2>2, <2>3, ReceiveEnds DEF IInv, Types
<1>2. ASSUME NEW r \in Requests, CheckShop(r) PROVE Stutters
  <2>1. Denies(r) \/ Moves(r, "sequence")
    BY <1>2, RefusesDenies, ThrowsDenies DEF CheckShop, Awaiting, Moves
  <2> QED
    BY <1>2, <2>1, StaysOut DEF CheckShop, tableVars, Unstored
<1>3. ASSUME NEW r \in Requests, Convert(r) \/ GetBalance(r) \/ Notify(r) \/ Announce(r)
      PROVE  Stutters
  <2>1. stage[r] # "store" /\ UNCHANGED <<txs_sequence, rows, sequence>>
    BY <1>3 DEF Convert, GetBalance, Notify, Announce, tableVars
  <2>2. Ends(r) \/ \E to \in Afterwards : Moves(r, to)
    BY <1>3, LaterStepMoves
  <2> QED
    BY <2>1, <2>2, StaysOut
<1>4. ASSUME NEW r \in Requests, TakeSequence(r)
      PROVE  /\ txs_sequence' \in {txs_sequence, txs_sequence + 1}
             /\ txs_sequence' = txs_sequence => inflight' = inflight
             /\ inflight' \in {inflight, inflight \cup {txs_sequence'}}
             /\ UNCHANGED rows
  <2>1. CASE Throws(r) /\ UNCHANGED sequence
    BY <1>4, <2>1, ThrowsDenies, StaysOut DEF TakeSequence, getNextSequence
  <2>2. CASE /\ txs_sequence' = txs_sequence + 1
             /\ sequence' = [sequence EXCEPT ![r] = txs_sequence']
             /\ stage' = [stage EXCEPT ![r] = "store"]
    <3>1. Waiting' = Waiting \cup {r} /\ r \notin Waiting
      BY <1>4, <2>2 DEF TakeSequence, Waiting, IInv, Types
    <3>2. \A q \in Waiting : sequence'[q] = sequence[q]
      BY <2>2, <3>1 DEF IInv, Types, Waiting
    <3>3. sequence'[r] = txs_sequence'
      BY <2>2 DEF IInv, Types
    <3>4. inflight' = inflight \cup {txs_sequence'}
      BY <3>1, <3>2, <3>3 DEF inflight
    <3> QED
      BY <1>4, <2>2, <3>4 DEF TakeSequence, IInv, Types
  <2> QED
    BY <1>4, <2>1, <2>2 DEF TakeSequence, getNextSequence, Awaiting
<1>5. ASSUME NEW r \in Requests, StoreTransaction(r)
      PROVE  /\ UNCHANGED txs_sequence
             /\ sequence[r] \in inflight
             /\ inflight' = inflight \ {sequence[r]}
             /\ DOMAIN rows' \in {DOMAIN rows, DOMAIN rows \cup {sequence[r]}}
  <2>1. stage[r] = "store" /\ r \in Waiting /\ UNCHANGED <<txs_sequence, sequence>>
    BY <1>5 DEF StoreTransaction, Waiting
  <2>2. Ends(r) \/ \E to \in Afterwards : Moves(r, to)
    BY <1>5, ThrowsDenies, AfterStoreMoves DEF StoreTransaction, FailedAdd, Denies, Ends
  <2>3. Waiting' = Waiting \ {r}
    BY <2>1, <2>2 DEF Waiting, Ends, Moves, Afterwards, IInv, Types
  <2>4. \A q \in Waiting \ {r} : sequence[q] # sequence[r]
    BY <2>1 DEF Waiting, IInv, SequencesDiffer, StageTellsTable
  <2>5. inflight' = inflight \ {sequence[r]} /\ sequence[r] \in inflight
    BY <2>1, <2>3, <2>4 DEF inflight
  <2> QED
    BY <1>5, <2>1, <2>5 DEF StoreTransaction, insertTx
<1>6. CASE Crash
  <2>1. Waiting' = {}
    BY <1>6 DEF Crash, Abandoned, Waiting, Awaits
  <2> QED
    BY <1>6, <2>1 DEF inflight, Crash, tableVars
<1>7. getSequence \/ UNCHANGED vars \/ (\E call \in delayed : Deliver(call)) => Stutters
  BY DEF getSequence, Deliver, vars, tableVars, replyVars, inflight, Waiting
<1> QED
  BY <1>1, <1>2, <1>3, <1>4, <1>5, <1>6, <1>7 DEF Next, Handle

(* The handlers, however many, do to table txs what module Intake says,    *)
(* which is what module Rollup takes the requests to be.                   *)
THEOREM IntakeImplemented == Spec => ImplementsIntake
<1>1. Init => AbstractIntake!Init
  BY DEF Init, AbstractIntake!Init, Waiting
<1> QED
  BY InitInv, NextInv, StepImplements, <1>1, PTL DEF Spec, ImplementsIntake, AbstractIntake!Spec
=============================================================================
