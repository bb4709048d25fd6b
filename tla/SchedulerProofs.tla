-------------------------- MODULE SchedulerProofs --------------------------
(***************************************************************************)
(* For any number of schedulers and any timeout: the works of a scheduler  *)
(* never overlap, and one that waitForStop has reported as stopped stays   *)
(* quiet.                                                                  *)
(***************************************************************************)
EXTENDS Scheduler, TLAPS, WellFoundedInduction

USE SchedulerAssumption

(* A scheduler start() has not come to has no task, and stop() has marked  *)
(* it STOPPED if it came first; what stop() has left behind has no task,   *)
(* and lies before the scheduler it waits for, which has been started.     *)
NotStartedIsIdle ==
    \A s \in Schedulers : s > starting =>
        /\ ~ is_working[s] /\ ~ task[s]
        /\ stopping # "no" => state[s] = "STOPPED"

StoppedIsIdle ==
    \A s \in Schedulers :
        /\ state[s] = "STOPPED" => ~ is_working[s]
        /\ stopped[s] # "none" => ~ task[s]
        /\ stopped[s] = "true" => ~ is_working[s]

WaitsInOrder ==
    /\ stopping = "no" => \A s \in Schedulers : stopped[s] = "none"
    /\ stopping = "wait" => /\ at \in Schedulers /\ at <= starting
                            /\ \A s \in at .. N : stopped[s] = "none"
    /\ stopping = "close" => starting = N + 1

IInv == TypeOK /\ OneWorkAtATime /\ NotStartedIsIdle /\ StoppedIsIdle /\ WaitsInOrder

(* FirstBusy is what its name says. *)
LEMMA FirstBusyIsFirst ==
    ASSUME NEW states \in [Schedulers -> ScheduleState], NEW s \in 1 .. N + 1
    PROVE  /\ FirstBusy(s, states) \in s .. N + 1
           /\ FirstBusy(s, states) \in Schedulers => states[FirstBusy(s, states)] # "STOPPED"
           /\ \A t \in s .. FirstBusy(s, states) - 1 : states[t] = "STOPPED"
<1> DEFINE busy == {t \in s .. N : states[t] # "STOPPED"}
           candidates == busy \cup {N + 1}
<1>1. candidates \in SUBSET Nat /\ candidates # {}
  BY DEF Schedulers
<1>2. PICK first \in candidates : \A t \in candidates : first <= t
  <2> DEFINE less == OpToRel(<, Nat)
  <2>1. \A t, u \in Nat : t < u => <<t, u>> \in less
    BY Zenon DEF OpToRel
  <2>2. IsWellFoundedOn(less, Nat)
    BY NatLessThanWellFounded, Zenon
  <2> HIDE DEF less, candidates
  <2>3. PICK first \in candidates : \A t \in candidates : ~ (<<t, first>> \in less)
    BY <1>1, <2>2, WFMin, Zenon
  <2>4. \A t \in candidates : t \in Nat /\ ~ (t < first)
    BY <1>1, <2>1, <2>3, Zenon
  <2>5. \A t \in candidates : first <= t
    BY <2>3, <2>4
  <2> QED
    BY <2>3, <2>5, Zenon
<1>3. FirstBusy(s, states) \in candidates /\ \A u \in busy : FirstBusy(s, states) <= u
  BY <1>2 DEF FirstBusy
<1> HIDE DEF FirstBusy
<1> QED
  BY <1>3 DEF Schedulers

LEMMA InitInv == Init => IInv
<1> SUFFICES ASSUME Init PROVE IInv
  OBVIOUS
<1>1. TypeOK
  BY DEF Init, TypeOK, Schedulers, ScheduleState
<1>2. OneWorkAtATime
  BY DEF Init, OneWorkAtATime
<1>3. NotStartedIsIdle
  <2> SUFFICES ASSUME NEW s \in Schedulers, s > starting
               PROVE  ~ is_working[s] /\ ~ task[s]
    BY DEF Init, NotStartedIsIdle
  <2>1. ~ (s = 1)
    BY DEF Init
  <2>2. task[s] = (s = 1) /\ is_working[s] = FALSE
    BY Zenon DEF Init
  <2> QED
    BY <2>1, <2>2, Zenon
<1>4. StoppedIsIdle /\ WaitsInOrder
  BY DEF Init, StoppedIsIdle, WaitsInOrder
<1> QED
  BY <1>1, <1>2, <1>3, <1>4 DEF IInv

(* What WaitFrom(s, states, answers) leaves behind. *)
LEMMA WaitFromInv ==
    ASSUME IInv, NEW s \in 1 .. N + 1,
           NEW answers \in [Schedulers -> {"none", "true", "false"}],
           stopping' # "no",
           state' \in [Schedulers -> ScheduleState],
           UNCHANGED <<is_working, works, starting>>,
           \A t \in Schedulers : state'[t] = "STOPPED" => ~ is_working[t],
           \A t \in Schedulers : t > starting => state'[t] = "STOPPED",
           \A t \in s .. N : answers[t] = "none",
           \A t \in Schedulers : /\ answers[t] = "none" => stopped[t] = "none"
                                 /\ answers[t] = "true" => stopped[t] = "true",
           WaitFrom(s, state', answers)
    PROVE  IInv'
<1> DEFINE next == FirstBusy(s, state')
<1>1. /\ next \in s .. N + 1
      /\ next \in Schedulers => state'[next] # "STOPPED"
      /\ \A t \in s .. next - 1 : state'[t] = "STOPPED"
  BY FirstBusyIsFirst
<1> HIDE DEF next
<1>2. /\ at' = next
      /\ stopped' = [t \in Schedulers |-> IF t \in s .. next - 1 THEN "true" ELSE answers[t]]
      /\ task' = [t \in Schedulers |-> task[t] /\ stopped'[t] = "none"]
      /\ stopping' = IF next \in Schedulers THEN "wait" ELSE IF Listening THEN "close" ELSE "exit"
      /\ phase' \in 0 .. Second - 1
      /\ elapsed' = 0
  BY DEF WaitFrom, next
<1>3. s .. next - 1 \subseteq Schedulers
  BY <1>1 DEF Schedulers
<1>4. TypeOK'
  BY <1>1, <1>2 DEF IInv, TypeOK, Schedulers
<1>5. OneWorkAtATime'
  BY DEF IInv, OneWorkAtATime
<1>6. NotStartedIsIdle'
  BY <1>2 DEF IInv, NotStartedIsIdle
<1>7. StoppedIsIdle'
  <2> SUFFICES ASSUME NEW t \in Schedulers
               PROVE  /\ state'[t] = "STOPPED" => ~ is_working'[t]
                      /\ stopped'[t] # "none" => ~ task'[t]
                      /\ stopped'[t] = "true" => ~ is_working'[t]
    BY DEF StoppedIsIdle
  <2>1. stopped'[t] # "none" => ~ task'[t]
    BY <1>2
  <2>2. stopped'[t] = "true" => state'[t] = "STOPPED" \/ stopped[t] = "true"
    BY <1>1, <1>2
  <2> QED
    BY <2>1, <2>2 DEF IInv, StoppedIsIdle
<1>8. WaitsInOrder'
  <2>1. CASE next \in Schedulers
    <3>1. next <= starting
      BY <1>1, <2>1 DEF IInv, TypeOK, Schedulers
    <3>2. \A t \in next .. N : stopped'[t] = "none"
      BY <1>1, <1>2, <2>1 DEF Schedulers
    <3> QED
      BY <1>2, <2>1, <3>1, <3>2 DEF WaitsInOrder
  <2>2. CASE next \notin Schedulers
    BY <1>2, <2>2 DEF WaitsInOrder, Listening
  <2> QED
    BY <2>1, <2>2
<1> QED
  BY <1>4, <1>5, <1>6, <1>7, <1>8 DEF IInv

LEMMA NextInv == IInv /\ [Next]_vars => IInv'
<1> SUFFICES ASSUME IInv, [Next]_vars PROVE IInv'
  OBVIOUS
<1> USE DEF IInv
<1>1. ASSUME NEW s \in Schedulers, start(s) PROVE IInv'
  <2>1. s > starting /\ ~ is_working[s] /\ starting' = s
    BY <1>1 DEF start, StateAfterStart, NotStartedIsIdle, TypeOK, Schedulers
  <2>2. stopping # "close" /\ stopping # "exit" /\ UNCHANGED stopVars
    BY <1>1, <2>1 DEF start, StateAfterStart, Alive, WaitsInOrder, Schedulers, TypeOK
  <2>3. stopped[s] = "none"
    BY <1>1, <2>1, <2>2 DEF WaitsInOrder, TypeOK, Schedulers
  <2>4. TypeOK'
    BY <1>1, <2>2 DEF start, StateAfterStart, TypeOK, ScheduleState, Schedulers, stopVars
  <2>5. OneWorkAtATime'
    BY <1>1, <2>1 DEF start, StateAfterStart, OneWorkAtATime, TypeOK
  <2>6. NotStartedIsIdle'
    BY <1>1, <2>1, <2>2 DEF start, StateAfterStart, NotStartedIsIdle, TypeOK, stopVars, Schedulers
  <2>7. StoppedIsIdle'
    BY <1>1, <2>2, <2>3 DEF start, StateAfterStart, StoppedIsIdle, TypeOK, stopVars
  <2>8. WaitsInOrder'
    BY <2>1, <2>2 DEF WaitsInOrder, TypeOK, Schedulers, stopVars
  <2> QED
    BY <2>4, <2>5, <2>6, <2>7, <2>8
<1>2. ASSUME listen PROVE IInv'
  BY <1>2 DEF listen, Alive, TypeOK, OneWorkAtATime, NotStartedIsIdle, StoppedIsIdle,
              WaitsInOrder, objectVars, stopVars, Schedulers
<1>3. ASSUME NEW s \in Schedulers, workTask(s) PROVE IInv'
  <2>1. /\ task[s] /\ state[s] # "STOPPED" /\ ~ is_working[s]
        /\ UNCHANGED <<state, task, starting, stopVars>>
        /\ is_working' = [is_working EXCEPT ![s] = TRUE]
        /\ works' = [works EXCEPT ![s] = @ + 1]
    BY <1>3 DEF workTask, MayWork
  <2>2. TypeOK'
    BY <2>1 DEF TypeOK, stopVars
  <2>3. OneWorkAtATime'
    BY <2>1 DEF OneWorkAtATime, TypeOK
  <2>4. NotStartedIsIdle' /\ StoppedIsIdle' /\ WaitsInOrder'
    BY <2>1 DEF NotStartedIsIdle, StoppedIsIdle, WaitsInOrder, TypeOK, stopVars
  <2> QED
    BY <2>2, <2>3, <2>4
<1>4. ASSUME NEW s \in Schedulers, workDone(s) PROVE IInv'
  <2>1. /\ is_working[s] /\ works[s] = 1
        /\ UNCHANGED <<task, starting, stopVars>>
        /\ is_working' = [is_working EXCEPT ![s] = FALSE]
        /\ works' = [works EXCEPT ![s] = @ - 1]
        /\ state' = [state EXCEPT ![s] = StateAfterWork(s)]
    BY <1>4 DEF workDone, OneWorkAtATime
  <2>2. StateAfterWork(s) \in ScheduleState
    BY DEF StateAfterWork, TypeOK, ScheduleState
  <2>3. TypeOK'
    BY <2>1, <2>2 DEF TypeOK, stopVars
  <2>4. OneWorkAtATime'
    BY <2>1 DEF OneWorkAtATime, TypeOK
  <2>5. NotStartedIsIdle' /\ StoppedIsIdle' /\ WaitsInOrder'
    BY <2>1 DEF NotStartedIsIdle, StoppedIsIdle, WaitsInOrder, TypeOK, stopVars
  <2> QED
    BY <2>3, <2>4, <2>5
<1>5. ASSUME stop PROVE IInv'
  <2>1. /\ stopping = "no"
        /\ state' = [s \in Schedulers |-> StateAfterStop(s)]
        /\ WaitFrom(1, state', stopped)
        /\ UNCHANGED <<is_working, works, starting>>
    BY <1>5 DEF stop
  <2>2. state' \in [Schedulers -> ScheduleState]
    BY <2>1 DEF StateAfterStop, ScheduleState
  <2>3. \A t \in Schedulers : state'[t] = "STOPPED" => ~ is_working[t]
    BY <2>1 DEF StateAfterStop
  <2>4. \A t \in Schedulers : t > starting => state'[t] = "STOPPED"
    BY <2>1 DEF StateAfterStop, NotStartedIsIdle
  <2>5. \A t \in 1 .. N : stopped[t] = "none"
    BY <2>1 DEF WaitsInOrder, Schedulers
  <2>6. stopping' # "no"
    BY <2>1 DEF WaitFrom
  <2>7. stopped \in [Schedulers -> {"none", "true", "false"}] /\ 1 \in 1 .. N + 1
    BY DEF TypeOK
  <2> QED
    BY <2>1, <2>2, <2>3, <2>4, <2>5, <2>6, <2>7, WaitFromInv
<1>6. ASSUME waitForStop PROVE IInv'
  <2>1. /\ stopping = "wait" /\ at \in Schedulers /\ at <= starting
        /\ UNCHANGED <<state, is_working, works, starting>>
    BY <1>6 DEF waitForStop, WaitsInOrder
  <2>2. \A t \in Schedulers : state'[t] = "STOPPED" => ~ is_working[t]
    BY <2>1 DEF StoppedIsIdle
  <2>3. \A t \in Schedulers : t > starting => state'[t] = "STOPPED"
    BY <2>1 DEF NotStartedIsIdle
  <2>4. \A t \in at .. N : stopped[t] = "none"
    BY <2>1 DEF WaitsInOrder
  <2>5. state' \in [Schedulers -> ScheduleState]
    BY <2>1 DEF TypeOK
  <2>6. CASE WaitFrom(at, state, stopped)
    <3>1. stopping' # "no" /\ WaitFrom(at, state', stopped)
      BY <2>1, <2>6 DEF WaitFrom
    <3>2. stopped \in [Schedulers -> {"none", "true", "false"}] /\ at \in 1 .. N + 1
      BY DEF TypeOK
    <3> QED
      BY <2>1, <2>2, <2>3, <2>4, <2>5, <3>1, <3>2, WaitFromInv
  <2>7. CASE WaitFrom(at + 1, state, [stopped EXCEPT ![at] = "false"])
    <3> DEFINE answers == [stopped EXCEPT ![at] = "false"]
    <3>1. stopping' # "no" /\ WaitFrom(at + 1, state', answers)
      BY <2>1, <2>7 DEF WaitFrom
    <3>2. answers \in [Schedulers -> {"none", "true", "false"}] /\ at + 1 \in 1 .. N + 1
      BY <2>1 DEF TypeOK, Schedulers
    <3>3. \A t \in at + 1 .. N : answers[t] = "none"
      BY <2>1, <2>4 DEF TypeOK, Schedulers
    <3>4. \A t \in Schedulers : /\ answers[t] = "none" => stopped[t] = "none"
                                /\ answers[t] = "true" => stopped[t] = "true"
      BY <2>1 DEF TypeOK
    <3> HIDE DEF answers
    <3> QED
      BY <2>1, <2>2, <2>3, <2>5, <3>1, <3>2, <3>3, <3>4, WaitFromInv
  <2>8. CASE /\ elapsed' = elapsed + 1
             /\ UNCHANGED <<task, stopping, at, phase, stopped>>
    BY <2>1, <2>8 DEF TypeOK, OneWorkAtATime, NotStartedIsIdle, StoppedIsIdle, WaitsInOrder
  <2> QED
    BY <1>6, <2>6, <2>7, <2>8 DEF waitForStop
<1>7. ASSUME Close PROVE IInv'
  BY <1>7 DEF Close, TypeOK, OneWorkAtATime, NotStartedIsIdle, StoppedIsIdle,
              WaitsInOrder, objectVars
<1>8. CASE UNCHANGED vars
  BY <1>8 DEF vars, objectVars, stopVars, TypeOK, OneWorkAtATime, NotStartedIsIdle,
              StoppedIsIdle, WaitsInOrder
<1> QED
  BY <1>1, <1>2, <1>3, <1>4, <1>5, <1>6, <1>7, <1>8 DEF Next, StartStep, StopStep

LEMMA Invariance == Spec => []IInv
  BY InitInv, NextInv, PTL DEF Spec

(* Every variable keeps its type, whatever start, stop and cron interleave. *)
THEOREM TypeCorrect == Spec => []TypeOK
  BY Invariance, PTL DEF IInv

(* Works of one scheduler never overlap and is_working is exact. *)
THEOREM OneWorkAlways == Spec => []OneWorkAtATime
  BY Invariance, PTL DEF IInv

(* Nothing is under way in a scheduler waitForStop has reported stopped. *)
THEOREM StoppedIsQuietAlways == Spec => []StoppedIsQuiet
<1>1. IInv => StoppedIsQuiet
  BY DEF IInv, StoppedIsIdle, OneWorkAtATime, StoppedIsQuiet
<1> QED
  BY <1>1, Invariance, PTL

(* A scheduler stop() has gone past begins no further work. *)
THEOREM NeverRevivedAlways == Spec => NeverRevived
<1>1. IInv /\ [Next]_vars
        => [\A s \in Schedulers : stopped[s] # "none" => works'[s] <= works[s]]_vars
  <2> SUFFICES ASSUME IInv, Next, NEW s \in Schedulers, stopped[s] # "none"
               PROVE  works'[s] <= works[s]
    OBVIOUS
  <2>1. works \in [Schedulers -> Nat] /\ ~ task[s]
    BY DEF IInv, TypeOK, StoppedIsIdle
  <2>2. ASSUME NEW t \in Schedulers, workTask(t) PROVE works'[s] <= works[s]
    BY <2>1, <2>2 DEF workTask
  <2>3. ASSUME NEW t \in Schedulers, workDone(t) PROVE works'[s] <= works[s]
    BY <2>1, <2>3 DEF workDone
  <2>4. CASE StartStep \/ stop \/ StopStep
    BY <2>1, <2>4 DEF StartStep, start, listen, stop, StopStep, waitForStop, Close, objectVars
  <2> QED
    BY <2>2, <2>3, <2>4 DEF Next
<1> QED
  BY <1>1, Invariance, PTL DEF NeverRevived, Spec
============================================================================
