----------------------------- MODULE Scheduler -----------------------------
(***************************************************************************)
(* The life of the schedulers: the class                                   *)
(* packages/server/src/modules/scheduler/Scheduler.ts, and how             *)
(* StorePurchaseServer.start and stop drive its objects. The server starts *)
(* them one after the other and awaits each onStart; SIGINT may come at    *)
(* any time. Scheduler i is the i-th of StorePurchaseServer.schedules. An  *)
(* action runs until nothing is left to do but wait for a timer or for     *)
(* input: the code between two awaits on settled promises is one step.     *)
(*                                                                         *)
(* One step of waitForStop's poll is one unit of time: setTimeout(.., 10). *)
(***************************************************************************)
EXTENDS Integers

CONSTANTS
    N,        \* number of schedulers
    Second,   \* units of time in a second
    Timeout   \* the argument of waitForStop

ASSUME SchedulerAssumption ==
    /\ N \in Nat \ {0}
    /\ Second \in Nat \ {0}
    /\ Timeout \in Nat \ {0}

Schedulers == 1 .. N

VARIABLES
    state,       \* ScheduleState of each scheduler (STARTING is never seen)
    is_working,
    task,        \* is the cron task registered?
    works,       \* calls of work that have not returned
    starting,    \* the scheduler whose onStart is awaited; N + 1: listening
    stopping,    \* stop(): "no", "wait", "close", "exit"
    at,          \* the scheduler stop() waits for
    phase,       \* where within a second waitForStop began
    elapsed,     \* units since waitForStop began
    stopped      \* the answers of waitForStop: "none", "true", "false"

stopVars == <<stopping, at, phase, elapsed, stopped>>
objectVars == <<state, is_working, task, works>>
vars == <<objectVars, starting, stopVars>>

ScheduleState == {"NONE", "RUNNING", "STOPPING", "STOPPED"}

(* StorePurchaseServer.start has called start of the first scheduler. *)
Init ==
    /\ state = [s \in Schedulers |-> IF s = 1 THEN "RUNNING" ELSE "NONE"]
    /\ is_working = [s \in Schedulers |-> FALSE]
    /\ task = [s \in Schedulers |-> s = 1]
    /\ works = [s \in Schedulers |-> 0]
    /\ starting = 1
    /\ stopping = "no" /\ at = 1
    /\ phase = 0 /\ elapsed = 0
    /\ stopped = [s \in Schedulers |-> "none"]

Alive == stopping # "exit"
Listening_Always == TRUE

Listening == starting = N + 1

StateAfterStart_Starting == "STARTING"

(* start overwrites STARTING before its first await. *)
StateAfterStart == "RUNNING"

----------------------------------------------------------------------------
(* The awaited onStart ends, and the next scheduler starts: also when the  *)
(* server is being stopped. After the last one the server listens.         *)
start(s) ==
    /\ Alive /\ starting = s - 1
    /\ state' = [state EXCEPT ![s] = StateAfterStart]
    /\ is_working' = [is_working EXCEPT ![s] = FALSE]
    /\ task' = [task EXCEPT ![s] = TRUE]
    /\ starting' = s
    /\ UNCHANGED <<works, stopVars>>

listen ==
    /\ Alive /\ starting = N
    /\ starting' = N + 1
    /\ UNCHANGED <<objectVars, stopVars>>

(* workTask on a tick of cron, up to its await of work; ticks that find    *)
(* the scheduler stopped or working do nothing.                            *)
MayWork_Unguarded(s) == state[s] # "STOPPED"
MayWork(s) == state[s] # "STOPPED" /\ ~ is_working[s]

workTask(s) ==
    /\ Alive /\ task[s]
    /\ MayWork(s)
    /\ is_working' = [is_working EXCEPT ![s] = TRUE]
    /\ works' = [works EXCEPT ![s] = @ + 1]
    /\ UNCHANGED <<state, task, starting, stopVars>>

(* work returns or throws: the rest of workTask. *)
StateAfterWork(s) == IF state[s] = "STOPPING" THEN "STOPPED" ELSE state[s]

workDone(s) ==
    /\ Alive /\ works[s] > 0
    /\ works' = [works EXCEPT ![s] = @ - 1]
    /\ is_working' = [is_working EXCEPT ![s] = FALSE]
    /\ state' = [state EXCEPT ![s] = StateAfterWork(s)]
    /\ UNCHANGED <<task, starting, stopVars>>

----------------------------------------------------------------------------
(* StorePurchaseServer.stop from the point where it waits for scheduler s: *)
(* waitForStop answers true at once for each one that has stopped, and so  *)
(* the loop gets to the first that has not. Behind the last one is         *)
(* server.close, or the exit when nothing listens yet.                     *)
FirstBusy_FromFirst(s, states) ==
    LET busy == {t \in Schedulers : states[t] # "STOPPED"}
    IN  CHOOSE t \in busy \cup {N + 1} : \A u \in busy : t <= u

FirstBusy(s, states) ==
    LET busy == {t \in s .. N : states[t] # "STOPPED"}
    IN  CHOOSE t \in busy \cup {N + 1} : \A u \in busy : t <= u

WaitFrom(s, states, answers) ==
    /\ at' = FirstBusy(s, states)
    /\ stopped' = [t \in Schedulers |-> IF t \in s .. at' - 1 THEN "true" ELSE answers[t]]
    /\ task' = [t \in Schedulers |-> task[t] /\ stopped'[t] = "none"]
    /\ stopping' = IF at' \in Schedulers THEN "wait" ELSE IF Listening THEN "close" ELSE "exit"
    /\ phase' \in 0 .. Second - 1
    /\ elapsed' = 0

(* SIGINT: stop() calls stop of every scheduler, then waits for each.      *)
StateAfterStop_AtOnce(s) == "STOPPED"

StateAfterStop(s) == IF is_working[s] THEN "STOPPING" ELSE "STOPPED"

stop ==
    /\ stopping = "no"
    /\ state' = [s \in Schedulers |-> StateAfterStop(s)]
    /\ WaitFrom(1, state', stopped)
    /\ UNCHANGED <<is_working, works, starting>>

(* A poll. Both times are cut down to whole seconds before the difference  *)
(* is compared with the timeout.                                           *)
SecondsWaited == (phase + elapsed + 1) \div Second

waitForStop ==
    /\ stopping = "wait"
    /\ \/ state[at] = "STOPPED" /\ WaitFrom(at, state, stopped)
       \/ /\ state[at] # "STOPPED" /\ SecondsWaited >= Timeout
          /\ WaitFrom(at + 1, state, [stopped EXCEPT ![at] = "false"])
       \/ /\ state[at] # "STOPPED" /\ SecondsWaited < Timeout
          /\ elapsed' = elapsed + 1
          /\ UNCHANGED <<task, stopping, at, phase, stopped>>
    /\ UNCHANGED <<state, is_working, works, starting>>

(* server.close calls back when the open requests have ended. *)
Close ==
    /\ stopping = "close"
    /\ stopping' = "exit"
    /\ UNCHANGED <<objectVars, starting, at, phase, elapsed, stopped>>

StartStep == listen \/ \E s \in Schedulers : start(s)
StopStep == waitForStop \/ Close

Next ==
    \/ StartStep
    \/ \E s \in Schedulers : workTask(s)
    \/ \E s \in Schedulers : workDone(s)
    \/ stop
    \/ StopStep

Spec == Init /\ [][Next]_vars

(* The timers and callbacks of the event loop run. Nothing says that a     *)
(* call of work returns.                                                   *)
FairSpec == Spec /\ WF_vars(StopStep)

----------------------------------------------------------------------------
(* Every variable holds a value of its kind. *)
TypeOK ==
    /\ state \in [Schedulers -> ScheduleState]
    /\ is_working \in [Schedulers -> BOOLEAN]
    /\ task \in [Schedulers -> BOOLEAN]
    /\ works \in [Schedulers -> Nat]
    /\ starting \in 1 .. N + 1
    /\ stopping \in {"no", "wait", "close", "exit"}
    /\ at \in 1 .. N + 1
    /\ phase \in 0 .. Second - 1 /\ elapsed \in Nat
    /\ stopped \in [Schedulers -> {"none", "true", "false"}]

(* Two calls of work of one scheduler never overlap, and is_working says   *)
(* exactly whether one is under way: what Node and SendBlock keep in their *)
(* fields between awaits has a single writer.                              *)
OneWorkAtATime ==
    \A s \in Schedulers : works[s] = IF is_working[s] THEN 1 ELSE 0

(* "To let the work under way complete one has to wait with waitForStop":  *)
(* once waitForStop has answered true, no work of that scheduler is under  *)
(* way.                                                                    *)
StoppedIsQuiet ==
    \A s \in Schedulers : stopped[s] = "true" => works[s] = 0

(* ... and none begins again while the process lives.                      *)
NeverRevived ==
    [][\A s \in Schedulers : stopped[s] # "none" => works'[s] <= works[s]]_vars

(* After SIGINT the process exits, even if a call of work hangs.           *)
InterruptExits == stopping = "wait" ~> stopping = "exit"

(* "@param timeout Timeout milli seconds": waitForStop gives up when that  *)
(* time has passed (a unit of time is no shorter than a millisecond).      *)
GivesUpInTime == elapsed <= Timeout
============================================================================
