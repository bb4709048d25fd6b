------------------------------ MODULE Startup ------------------------------
(***************************************************************************)
(* From the configuration file to the pace of the schedulers: Config.ts    *)
(* reads the file, main.ts makes the storage, the contract and the server  *)
(* and starts everything; then cron ticks, and Node and SendBlock let a    *)
(* tick pass unless a new period of their own has begun. A work may last   *)
(* for seconds and fail, and cron may leave out a tick.                    *)
(***************************************************************************)
EXTENDS Integers, FiniteSets

CONSTANTS
    Files,        \* what config.yaml may hold
    NodeDefault,  \* NodeConfig.defaultValue()
    Minute,       \* seconds in a minute
    Step,         \* cron expression of SendBlock: every Step-th second of it
    Backlogs,     \* how many rows the last run of the server may have left
    MaxTime,      \* bound: seconds the server runs
    MaxMissed     \* bound: how many turns of SendBlock send nothing

(* A value that is missing or blank in the environment, and one that is    *)
(* no number.                                                              *)
Blank == -2
NaN == -1

Sections == {"server", "logging", "node", "scheduler", "database", "contracts", "setting"}
NodeFields == {"interval", "max_txs", "send_interval"}
Names == {"node", "send_block"}

(* node: the values of the fields that are there, numbers of seconds and of *)
(* rows; items: the schedulers that are there and whether each is enabled; *)
(* address: is it one.                                                     *)
IsFile(file) ==
    /\ file.exists \in BOOLEAN /\ file.sections \subseteq Sections
    /\ file.address \in BOOLEAN /\ file.enable \in BOOLEAN
    /\ DOMAIN file.node \subseteq NodeFields
    /\ \A field \in DOMAIN file.node : file.node[field] \in Nat \cup {Blank, NaN}
    /\ DOMAIN file.items \subseteq Names

ASSUME StartupAssumption ==
    /\ \A file \in Files : IsFile(file)
    /\ NodeDefault \in [NodeFields -> Nat \ {0}]
    /\ Minute \in Nat \ {0} /\ Step \in 1 .. Minute
    /\ Backlogs \subseteq Nat
    /\ MaxTime \in Nat /\ MaxMissed \in Nat

VARIABLES
    phase,      \* "reading", "storage", "deploy", "starting", "listening", "gone"
    file, node, \* the file, and config.node
    schedulers, \* the names of the schedulers main has made
    assigned,   \* server is assigned
    started,    \* the schedulers whose cron task has been made
    exitCode,
    now,        \* Utils.getTimeStamp()
    ticks,      \* the schedulers cron calls in this second
    old_time_stamp,
    working,    \* is_working: the schedulers whose work awaits something
    data,       \* what SendBlock's work has read: "none" (nothing so far), the
                \* "next" block, no block ("absent"), one executed since ("old")
    submitted,  \* a call of add with the next block waits to be executed
    unsent,     \* rows of table blocks the contract does not hold
    before,     \* history: unsent when SendBlock was started
    owing,      \* history: no block was executed since SendBlock's last work began
    missed      \* history: how many turns of SendBlock have sent nothing

process == <<phase, assigned, started, exitCode>>
config == <<file, node, schedulers>>
clock == <<now, ticks, old_time_stamp>>
blocks == <<working, data, submitted, unsent, owing, missed>>
vars == <<process, config, clock, blocks, before>>

Init ==
    /\ phase = "reading" /\ assigned = FALSE /\ started = {} /\ exitCode = 0
    /\ file \in Files
    /\ node = NodeDefault /\ schedulers = {}
    /\ now = 0 /\ ticks = {} /\ old_time_stamp = [name \in Names |-> 0]
    /\ working = {} /\ data = "none" /\ submitted = FALSE
    /\ unsent \in Backlogs /\ before = unsent
    /\ owing = FALSE /\ missed = 0

Exit(code) ==
    /\ phase' = "gone"
    /\ exitCode' = code
    /\ started' = {}
    /\ UNCHANGED assigned

(* Number(...)                                                             *)
Number(value) == IF value = Blank THEN 0 ELSE value

(* NodeConfig.readFromObject                                               *)
readNode(object) ==
    [field \in NodeFields |->
        IF field \in DOMAIN object THEN Number(object[field]) ELSE NodeDefault[field]]

(* The sections server and database are put over their defaults, a missing *)
(* scheduler means none; the others are read without asking whether they   *)
(* are there.                                                              *)
readServer == "server" \in file.sections => file.address

readSetting == "setting" \in file.sections

Readable ==
    /\ file.exists
    /\ readServer
    /\ {"logging", "node", "contracts"} \subseteq file.sections
    /\ readSetting

getScheduler(name) ==
    /\ "scheduler" \in file.sections /\ file.enable
    /\ name \in DOMAIN file.items /\ file.items[name]

(* createWithArgument, and main up to the first await; the constructors of *)
(* the schedulers take the time.                                           *)
createWithArgument ==
    /\ phase = "reading"
    /\ \/ /\ ~ Readable
          /\ Exit(1)
          /\ UNCHANGED <<node, schedulers>>
       \/ /\ Readable
          /\ node' = readNode(file.node)
          /\ schedulers' = {name \in Names : getScheduler(name)}
          /\ phase' = "storage"
          /\ UNCHANGED <<assigned, started, exitCode>>
    /\ UNCHANGED <<file, clock, blocks, before>>

(* What main awaits may fail. Before server is assigned the exception      *)
(* leaves main, with nothing that keeps the process alive.                 *)
makeStorage ==
    /\ phase = "storage"
    /\ \/ /\ phase' = "deploy" /\ UNCHANGED <<assigned, started, exitCode>>
       \/ Exit(1)
    /\ UNCHANGED <<config, clock, blocks, before>>

(* Outside production the contract is deployed first.                      *)
makeServer ==
    /\ phase = "deploy"
    /\ \/ /\ phase' = "starting" /\ assigned' = TRUE /\ UNCHANGED <<started, exitCode>>
       \/ Exit(1)
    /\ UNCHANGED <<config, clock, blocks, before>>

(* Node is started before SendBlock and its onStart is awaited.            *)
startScheduler ==
    /\ phase = "starting"
    /\ \/ \E name \in schedulers \ started :
              /\ name = "send_block" => "node" \notin schedulers \ started
              /\ started' = started \cup {name}
              /\ before' = IF name = "send_block" THEN unsent ELSE before
              /\ UNCHANGED <<phase, assigned, exitCode>>
       \/ Exit(1) /\ UNCHANGED before
    /\ UNCHANGED <<config, clock, blocks>>

(* EACCES, EADDRINUSE and other errors of listen end the process.          *)
listen ==
    /\ phase = "starting"
    /\ started = schedulers
    /\ \/ /\ phase' = "listening" /\ UNCHANGED <<assigned, started, exitCode>>
       \/ Exit(1)
    /\ UNCHANGED <<config, clock, blocks, before>>

(* The handler of SIGINT calls server.stop(), a TypeError as long as server*)
(* is not assigned. (How stop goes on is in module Scheduler.)             *)
Interrupt ==
    /\ phase \in {"storage", "deploy", "starting", "listening"}
    /\ Exit(IF assigned THEN 0 ELSE 1)
    /\ UNCHANGED <<config, clock, blocks, before>>

----------------------------------------------------------------------------
(* Math.floor(old / interval) !== Math.floor(new / interval). Both are     *)
(* Infinity for an interval of 0, and NaN is different from itself.        *)
Due(old, interval) ==
    CASE interval = NaN -> TRUE
      [] interval = 0 -> FALSE
      [] OTHER -> old \div interval # now \div interval

NodeDue == Due(old_time_stamp["node"], node.interval)
SendDue == Due(old_time_stamp["send_block"], node.send_interval)

Alive == phase \in {"storage", "deploy", "starting", "listening"}

(* A turn of SendBlock has sent nothing: no work began at a tick that was   *)
(* due, or the block of a work has not been executed before the next one.  *)
Misses == missed < MaxMissed /\ missed' = missed + 1

(* A second passes whatever the works await. A tick that cron has not come *)
(* to in its second is left out (node-cron does not make up for it).       *)
Second ==
    /\ Alive
    /\ now < MaxTime
    /\ now' = now + 1
    /\ ticks' = {name \in started :
                    name = "send_block" => ((now + 1) % Minute) % Step = 0}
    /\ IF "send_block" \in ticks /\ SendDue THEN Misses ELSE UNCHANGED missed
    /\ UNCHANGED <<process, config, old_time_stamp, working, data, submitted, unsent>>
    /\ UNCHANGED <<owing, before>>

(* workTask returns while the last work is under way.                      *)
Skip(name) ==
    /\ Alive
    /\ name \in ticks /\ name \in working
    /\ ticks' = ticks \ {name}
    /\ IF name = "send_block" /\ SendDue THEN Misses ELSE UNCHANGED missed
    /\ UNCHANGED <<process, config, now, old_time_stamp, working, data, submitted, unsent>>
    /\ UNCHANGED <<owing, before>>

(* The work of a scheduler begins.                                         *)
Tick(name) ==
    /\ Alive
    /\ name \in ticks /\ name \notin working
    /\ ticks' = ticks \ {name}
    /\ UNCHANGED <<process, config, now, data, submitted, unsent, before>>

WorkNode_Forgets ==
    /\ Tick("node")
    /\ working' = IF NodeDue THEN working \cup {"node"} ELSE working
    /\ UNCHANGED <<old_time_stamp, owing, missed>>

WorkNode ==
    /\ Tick("node")
    /\ IF NodeDue
       THEN /\ old_time_stamp' = [old_time_stamp EXCEPT !["node"] = now]
            /\ working' = working \cup {"node"}
       ELSE UNCHANGED <<old_time_stamp, working>>
    /\ UNCHANGED <<owing, missed>>

WorkSend ==
    /\ Tick("send_block")
    /\ IF SendDue
       THEN /\ old_time_stamp' = [old_time_stamp EXCEPT !["send_block"] = now]
            /\ working' = working \cup {"send_block"}
            /\ owing' = TRUE
            /\ IF owing THEN Misses ELSE UNCHANGED missed
       ELSE UNCHANGED <<old_time_stamp, working, owing, missed>>

(* LIMIT 0 gives no rows, and LIMIT NaN is an error.                       *)
GetsRows == node.max_txs \notin {0, NaN}

Ends(name) ==
    /\ Alive
    /\ name \in working
    /\ working' = working \ {name}
    /\ UNCHANGED <<process, config, clock, before, missed>>

(* Node.work adds a row when there are transactions, unless something fails.*)
EndNode ==
    /\ Ends("node")
    /\ \/ GetsRows /\ unsent' = unsent + 1
       \/ UNCHANGED unsent
    /\ UNCHANGED <<data, submitted, owing>>

(* SendBlock.work reads the height of the contract and the row above it,   *)
(* the same as last time while the block waits to be executed.             *)
ReadBlock ==
    /\ Alive
    /\ "send_block" \in working /\ data = "none"
    /\ \/ unsent > 0 /\ data' = "next" /\ UNCHANGED owing
       \/ unsent = 0 /\ data' = "absent" /\ owing' = FALSE
    /\ UNCHANGED <<process, config, clock, before, working, submitted, unsent, missed>>

(* The call of add is sent, or fails, and the exception is only logged; or  *)
(* reading has failed.                                                     *)
EndSend ==
    /\ Ends("send_block")
    /\ data' = "none"
    /\ submitted' \in {submitted, submitted \/ data = "next"}
    /\ UNCHANGED <<unsent, owing>>

(* The chain executes the call, after any time, or drops it. One of several *)
(* calls with the same block is enough; the others revert.                 *)
Chain ==
    /\ Alive
    /\ submitted
    /\ submitted' = FALSE
    /\ \/ /\ unsent' = unsent - 1
          /\ owing' = FALSE
          /\ data' = IF data = "next" THEN "old" ELSE data
       \/ UNCHANGED <<unsent, owing, data>>
    /\ UNCHANGED <<process, config, clock, before, working, missed>>

Next ==
    \/ createWithArgument \/ makeStorage \/ makeServer \/ startScheduler \/ listen
    \/ Interrupt \/ Second \/ (\E name \in Names : Skip(name))
    \/ WorkNode \/ EndNode \/ WorkSend \/ ReadBlock \/ EndSend \/ Chain

Spec == Init /\ [][Next]_vars

----------------------------------------------------------------------------
(* The values of config.node a server keeps up with: the periods of        *)
(* SendBlock are not longer than those of Node, and none passes without a  *)
(* tick.                                                                   *)
KeepsUp ==
    /\ "send_block" \in started
    /\ node.interval > 0 /\ node.send_interval > 0
    /\ node.send_interval <= node.interval
    /\ Step <= node.send_interval

(* Node makes a block per period and SendBlock sends one per period of its *)
(* own, at ticks that come neither together nor regularly, and each block  *)
(* takes its time to the table and to the chain. With such values never    *)
(* more than five blocks wait beside those SendBlock found when it was     *)
(* started and one for every turn that sent nothing, and what a lost turn  *)
(* leaves behind is not made up for. (A send_interval left to the default  *)
(* next to a short interval lets the table grow.)                          *)
BacklogBounded == KeepsUp => unsent <= before + 5 + missed
============================================================================
