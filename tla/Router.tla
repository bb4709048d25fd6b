------------------------------ MODULE Router ------------------------------
(***************************************************************************)
(* The HTTP handlers of packages/server/src/service/routers/               *)
(* StorePurchaseRouter.ts: new purchases, cancellations and the sequence.  *)
(*                                                                         *)
(* Every request runs its handler concurrently with the others, one action *)
(* from one await to the next. What the handler asks the relay server may  *)
(* be answered, fail, or take effect late; RelayClient hides all of it.    *)
(***************************************************************************)
EXTENDS Integers, FiniteSets, Sequences

CONSTANTS
    Requests,    \* the requests clients make
    Inputs,      \* what the server distinguishes in them
    MaxFaults,   \* bound: failing calls
    MaxCrashes,  \* bound: crashes of the process
    None

Kinds == {"new", "cancel"}

(* converts: the currency is not "krw"; user: an account or a phone number *)
(* is given; rewarded: the loyalty is at least 1.                          *)
ASSUME RouterAssumption ==
    /\ Inputs \subseteq [kind : Kinds, converts : BOOLEAN, user : BOOLEAN, rewarded : BOOLEAN]
    /\ None \notin Inputs
    /\ MaxFaults \in Nat /\ MaxCrashes \in Nat

VARIABLES
    txs_sequence,  \* how often nextval('txs_sequence') was answered
    rows,          \* contents stored in table txs: sequence -> request
    request,       \* the input of every request received
    stage,         \* program counter of its handler
    sequence,      \* nextSequence of the handler, 0 before it is known
    answer,        \* the response of every request
    relay,         \* calls the relay server has processed, in order
    delayed,       \* calls that failed here and will reach the relay server
    success, failure,  \* the summaries in Metrics
    reported,      \* the last answer of GET /v1/tx/sequence
    preceding,     \* history: the requests acknowledged when one is received
    faults, crashes

tableVars == <<txs_sequence, rows>>
relayVars == <<relay, delayed>>
replyVars == <<stage, answer, success, failure>>
vars == <<tableVars, request, replyVars, sequence, relayVars, reported,
          preceding, faults, crashes>>

(* The awaits of the handlers, and where a handler is not running. *)
Awaits == {"shop", "sequence", "store", "convert", "balance", "notify", "announce"}
Stages == Awaits \cup {"idle", "answered", "lost", "rejected"}

(* Codes that ResponseMessage has a message for. *)
messages == {0, 2001, 2002, 2003, 2004, 2005, 3051, 3072}

getErrorMessage_Verbatim(code) == code

(* getErrorMessage; the "6000" of the handlers has no message. *)
getErrorMessage(code) == IF code \in messages THEN code ELSE 9000

Reply(code, loyalty) == [code |-> code, loyalty |-> loyalty]

Acknowledged(r) == answer[r] # None /\ answer[r].code = 0

Init ==
    /\ txs_sequence = 0
    /\ rows = [s \in {} |-> None]
    /\ request = [r \in Requests |-> None]
    /\ stage = [r \in Requests |-> "idle"]
    /\ sequence = [r \in Requests |-> 0]
    /\ answer = [r \in Requests |-> None]
    /\ relay = <<>> /\ delayed = {}
    /\ success = 0 /\ failure = 0
    /\ reported = None
    /\ preceding = [r \in Requests |-> {}]
    /\ faults = 0 /\ crashes = 0

----------------------------------------------------------------------------
(* How a step of a handler ends. *)
Works == UNCHANGED faults

Fault ==
    /\ faults < MaxFaults
    /\ faults' = faults + 1

Awaiting(r, await) ==
    /\ stage' = [stage EXCEPT ![r] = await]
    /\ UNCHANGED <<answer, success, failure>>

Answers(r, reply) ==
    /\ stage' = [stage EXCEPT ![r] = "answered"]
    /\ answer' = [answer EXCEPT ![r] = reply]

Refuses(r, code) ==
    /\ Answers(r, Reply(getErrorMessage(code), FALSE))
    /\ UNCHANGED <<success, failure>>

(* The catch clause of the handlers. *)
Throws_Uncaught(r) == Awaiting(r, "thrown")

Throws(r) ==
    /\ Answers(r, Reply(getErrorMessage(6000), FALSE))
    /\ failure' = failure + 1
    /\ UNCHANGED success

Succeeds(r) ==
    /\ Answers(r, Reply(0, FALSE))
    /\ success' = success + 1
    /\ UNCHANGED failure

(* What is in memory when the process ends: no handler goes on.            *)
Abandoned == [r \in Requests |-> IF stage[r] \in Awaits THEN "lost" ELSE stage[r]]

(* An exception outside the try block of a handler: its promise rejects    *)
(* and nobody answers. Nothing listens for such rejections, so the process *)
(* ends too, unless node is told otherwise.                                *)
Rejects(r) ==
    /\ \/ stage' = [stage EXCEPT ![r] = "rejected"] /\ UNCHANGED <<success, failure>>
       \/ stage' = [Abandoned EXCEPT ![r] = "rejected"] /\ success' = 0 /\ failure' = 0
    /\ UNCHANGED answer

----------------------------------------------------------------------------
(* RelayClient. Its queries answer undefined when the call fails or the    *)
(* relay server answers an error code.                                     *)
Undefined == Fault

(* Its posts answer true or false, and the handlers look at neither: the   *)
(* relay server has processed the call, never will, or will do so later.   *)
Post_Later(call) ==
    /\ delayed' = delayed \cup {call}
    /\ UNCHANGED relay
    /\ Works

Post(call) ==
    \/ relay' = Append(relay, call) /\ UNCHANGED delayed /\ Works
    \/ UNCHANGED relayVars /\ Fault
    \/ UNCHANGED relay /\ delayed' = delayed \cup {call} /\ Fault

Call(to, r) == [to |-> to, of |-> r]

----------------------------------------------------------------------------
(* SELECT last_value FROM txs_sequence: the minimum before the first call  *)
(* of nextval, then what nextval answered last.                            *)
getLastSequence_Rows == Cardinality(DOMAIN rows)

getLastSequence == IF txs_sequence = 0 THEN 1 ELSE txs_sequence

(* A request arrives. Parameters, shop prefix, account, phone number and   *)
(* access key are validated, where a field of the body that String or      *)
(* Number cannot convert throws before the try block; then details whose   *)
(* amount or percentage is no number throw inside it. All of it happens    *)
(* before the first await.                                                 *)
Receive(r, input) ==
    /\ stage[r] = "idle"
    /\ request' = [request EXCEPT ![r] = input]
    /\ preceding' = [preceding EXCEPT ![r] = {q \in Requests : Acknowledged(q)}]
    /\ \/ input.kind = "new" /\ Awaiting(r, "shop")
       \/ input.kind = "new" /\ Throws(r)
       \/ input.kind = "cancel" /\ Awaiting(r, "sequence")
       \/ Refuses(r, 2001)
       \/ Rejects(r)
    /\ UNCHANGED <<tableVars, sequence, relayVars, reported, faults, crashes>>

(* getSystemInfo and getShopInfo, then the comparison of the amounts, of   *)
(* which Amount.make refuses some ("+5"). A shop the relay server does not *)
(* answer for is accepted.                                                 *)
CheckShop(r) ==
    /\ stage[r] = "shop"
    /\ \/ Awaiting(r, "sequence") /\ Works
       \/ Awaiting(r, "sequence") /\ Undefined
       \/ \E code \in {2004, 2005} : Refuses(r, code) /\ Works
       \/ Throws(r) /\ Works
    /\ UNCHANGED <<tableVars, request, sequence, relayVars, reported, preceding, crashes>>

getNextSequence_Last == txs_sequence' = getLastSequence

getNextSequence == txs_sequence' = txs_sequence + 1

(* getNextSequence, and building and signing the transaction: a timestamp  *)
(* or waiting time that is not whole throws when the sequence is taken.    *)
TakeSequence(r) ==
    /\ stage[r] = "sequence"
    /\ \/ /\ getNextSequence
          /\ sequence' = [sequence EXCEPT ![r] = txs_sequence']
          /\ Awaiting(r, "store")
          /\ Works
       \/ getNextSequence /\ Throws(r) /\ UNCHANGED sequence /\ Works
       \/ UNCHANGED <<txs_sequence, sequence>> /\ Throws(r) /\ Fault
    /\ UNCHANGED <<rows, request, relayVars, reported, preceding, crashes>>

(* The handler of new goes on with what the input asks for. *)
AfterBalance(input) == IF input.rewarded THEN "notify" ELSE "announce"

AfterConversion(r, input) ==
    IF input.user THEN Awaiting(r, "balance") ELSE Succeeds(r)

AfterStore(r, input) ==
    CASE input.kind = "cancel" -> Awaiting(r, "announce")
      [] input.kind = "new" /\ input.converts -> Awaiting(r, "convert")
      [] OTHER -> AfterConversion(r, input)

(* INSERT INTO txs ... ON CONFLICT ("sequence") DO UPDATE *)
insertTx(s, r) ==
    rows' = [t \in DOMAIN rows \cup {s} |-> IF t = s THEN r ELSE rows[t]]

(* pool.add, which may fail with or without effect. *)
FailedAdd_Ignored(r) == AfterStore(r, request[r])

FailedAdd(r) == Throws(r)

StoreTransaction(r) ==
    /\ stage[r] = "store"
    /\ \/ insertTx(sequence[r], r) /\ AfterStore(r, request[r]) /\ Works
       \/ (insertTx(sequence[r], r) \/ UNCHANGED rows) /\ FailedAdd(r) /\ Fault
    /\ UNCHANGED <<txs_sequence, request, sequence, relayVars, reported, preceding, crashes>>

(* convertCurrency: without an answer the purchase is acknowledged as it   *)
(* is, and the relay server is not told.                                   *)
Convert(r) ==
    /\ stage[r] = "convert"
    /\ \/ AfterConversion(r, request[r]) /\ Works
       \/ Succeeds(r) /\ Undefined
    /\ UNCHANGED <<tableVars, request, sequence, relayVars, reported, preceding, crashes>>

(* getBalanceOfAccount or getBalanceOfPhoneHash. *)
GetBalance(r) ==
    /\ stage[r] = "balance"
    /\ \/ Awaiting(r, AfterBalance(request[r])) /\ Works
       \/ Succeeds(r) /\ Undefined
    /\ UNCHANGED <<tableVars, request, sequence, relayVars, reported, preceding, crashes>>

(* getMobileInfo, and sendPushMessage or sendSMSMessage (if enabled). The  *)
(* text in between throws at an amount of 2^53 or more (toDisplayString):  *)
(* the transaction is stored, and the client is answered a failure.        *)
Notify(r) ==
    /\ stage[r] = "notify"
    /\ \/ Awaiting(r, "announce") /\ Post(Call("user", r))
       \/ Awaiting(r, "announce") /\ UNCHANGED relayVars /\ Works
       \/ Throws(r) /\ UNCHANGED relayVars /\ Works
    /\ UNCHANGED <<tableVars, request, sequence, reported, preceding, crashes>>

(* sendNewStorePurchase or sendCancelStorePurchase, and the response. The  *)
(* branch of new that promises a loyalty does not count as a success.      *)
Announce(r) ==
    /\ stage[r] = "announce"
    /\ Post(Call("relay", r))
    /\ \/ /\ request[r].kind = "new"
          /\ Answers(r, Reply(0, TRUE))
          /\ UNCHANGED <<success, failure>>
       \/ /\ request[r].kind = "cancel"
          /\ Succeeds(r)
    /\ UNCHANGED <<tableVars, request, sequence, reported, preceding, crashes>>

----------------------------------------------------------------------------
(* GET /v1/tx/sequence *)
getSequence ==
    /\ reported' = getLastSequence
    /\ UNCHANGED <<tableVars, request, replyVars, sequence, relayVars,
                   preceding, faults, crashes>>

(* A call whose connection broke reaches the relay server. *)
Deliver(call) ==
    /\ call \in delayed
    /\ delayed' = delayed \ {call}
    /\ relay' = Append(relay, call)
    /\ UNCHANGED <<tableVars, request, replyVars, sequence, reported,
                   preceding, faults, crashes>>

(* The process dies and is started again: the handlers and the summaries   *)
(* are gone, the table and the sequence stay.                              *)
Crash ==
    /\ crashes < MaxCrashes
    /\ crashes' = crashes + 1
    /\ stage' = Abandoned
    /\ success' = 0 /\ failure' = 0
    /\ UNCHANGED <<tableVars, request, sequence, answer, relayVars, reported,
                   preceding, faults>>

Handle(r) ==
    \/ CheckShop(r)
    \/ TakeSequence(r)
    \/ StoreTransaction(r)
    \/ Convert(r)
    \/ GetBalance(r)
    \/ Notify(r)
    \/ Announce(r)

Next ==
    \/ \E r \in Requests : Handle(r) \/ \E input \in Inputs : Receive(r, input)
    \/ \E call \in delayed : Deliver(call)
    \/ getSequence
    \/ Crash

(* Every awaited call returns, with an answer or an error. *)
Fairness == \A r \in Requests : WF_vars(Handle(r))

Spec == Init /\ [][Next]_vars

FairSpec == Spec /\ Fairness

----------------------------------------------------------------------------
Replies == [code : messages \cup {9000}, loyalty : BOOLEAN]
Calls == [to : {"user", "relay"}, of : Requests]

(* Every variable holds a value of its kind. *)
TypeOK ==
    /\ txs_sequence \in Nat
    /\ DOMAIN rows \subseteq Nat /\ \A s \in DOMAIN rows : rows[s] \in Requests
    /\ request \in [Requests -> Inputs \cup {None}]
    /\ stage \in [Requests -> Stages]
    /\ sequence \in [Requests -> Nat]
    /\ answer \in [Requests -> Replies \cup {None}]
    /\ relay \in Seq(Calls) /\ delayed \subseteq Calls
    /\ success \in Nat /\ failure \in Nat
    /\ reported \in Nat \cup {None}
    /\ preceding \in [Requests -> SUBSET Requests]
    /\ faults \in Nat /\ crashes \in Nat

Stored(r) == sequence[r] \in DOMAIN rows /\ rows[sequence[r]] = r

(* A client that is answered 0 can rely on it: its transaction is in the   *)
(* table under the sequence it was told, and no other request has replaced *)
(* it there, whatever runs concurrently and whichever calls fail.          *)
AcknowledgedIsStored == \A r \in Requests : Acknowledged(r) => Stored(r)

Told == {relay[i] : i \in DOMAIN relay} \cup delayed

(* The relay server and the users hear of no purchase and no cancellation  *)
(* that the table does not have, also when storing it fails.               *)
ToldIsStored == \A call \in Told : Stored(call.of)

(* Clients see one order: a request made after another was acknowledged    *)
(* (the cancellation after its purchase) gets the higher sequence.         *)
LaterIsHigher ==
    \A r \in Requests : \A q \in preceding[r] :
        sequence[r] # 0 => sequence[q] < sequence[r]

(* The relay server sees the same order, as long as no call of the server  *)
(* fails: it never processes a request before those acknowledged earlier.  *)
RelaySeesOrder ==
    faults = 0 =>
        \A i, j \in DOMAIN relay :
            /\ relay[i].to = "relay" /\ relay[j].to = "relay"
            /\ relay[i].of \in preceding[relay[j].of]
            => i < j

(* A client that is promised a loyalty can rely on the relay server having *)
(* the purchase, unless a call of the server failed.                       *)
PromiseIsAnnounced ==
    \A r \in Requests :
        answer[r] # None /\ answer[r].loyalty /\ faults = 0
            => \E i \in DOMAIN relay : relay[i] = Call("relay", r)

(* The sequence that is reported bounds what has been acknowledged.        *)
ReportBoundsAcknowledged ==
    [][ reported' # reported =>
            \A r \in Requests : Acknowledged(r) => sequence[r] <= reported' ]_vars

(* No request hangs once its handler has reached the try block: whatever   *)
(* fails there or in a call it makes, the client is answered, unless the   *)
(* process ends. (One that throws before the try block is never answered:  *)
(* Rejects.)                                                               *)
EventuallyAnswered ==
    \A r \in Requests : stage[r] \in Awaits ~> stage[r] \in {"answered", "lost"}

(* The README says that the endpoint tells "the sequence of the last       *)
(* transaction received"; here: a sequence some transaction has.           *)
ReportedIsReceived ==
    reported # None /\ DOMAIN rows # {} => reported \in DOMAIN rows

(* The handlers together do to the table what module Intake allows: this   *)
(* is all that module Rollup assumes of requests.                          *)
Waiting == {r \in Requests : stage[r] = "store"}

AbstractIntake == INSTANCE Intake
    WITH inflight <- {sequence[r] : r \in Waiting},
         accepted <- DOMAIN rows

ImplementsIntake == AbstractIntake!Spec
============================================================================
