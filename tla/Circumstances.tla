--------------------------- MODULE Circumstances ---------------------------
(***************************************************************************)
(* The environments in which TLC checks the pipeline.                      *)
(***************************************************************************)
(* Production, with one crash and one failing call at any await. *)
InProduction ==
    [production |-> TRUE, earlyTick |-> FALSE, readErrors |-> FALSE,
     lateErrors |-> FALSE, unreadable |-> {},
     sequences |-> 3, faults |-> 1, crashes |-> 1]

(* Development: both starts after the first deploy a contract of their own. *)
Redeploying == [InProduction EXCEPT !.production = FALSE, !.faults = 0, !.crashes = 2]

(* Every error the code hides from itself. *)
Faulty ==
    [InProduction EXCEPT !.earlyTick = TRUE, !.readErrors = TRUE,
                         !.lateErrors = TRUE, !.sequences = 2]

Short == [InProduction EXCEPT !.sequences = 2]
Concurrent == [InProduction EXCEPT !.faults = 0]

SafetyEnvironments == {InProduction, Redeploying, Faulty}
OrderEnvironments == {Short, Concurrent}
EarlyEnvironments == {[InProduction EXCEPT !.earlyTick = TRUE]}
UnreadableEnvironments ==
    {[Short EXCEPT !.unreadable = {1}, !.faults = 0, !.crashes = 0]}
============================================================================
