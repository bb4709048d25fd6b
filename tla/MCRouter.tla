------------------------------ MODULE MCRouter ------------------------------
(***************************************************************************)
(* An instance of Router for TLC: every kind of new purchase the handler   *)
(* tells apart, and cancellations.                                         *)
(***************************************************************************)
EXTENDS Router

CONSTANTS r1, r2

New == [kind : {"new"}, converts : BOOLEAN, user : BOOLEAN, rewarded : BOOLEAN]

Cancel == [kind |-> "cancel", converts |-> FALSE, user |-> FALSE, rewarded |-> FALSE]

MCInputs == New \cup {Cancel}
=============================================================================
