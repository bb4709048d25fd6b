------------------------------ MODULE Intake ------------------------------
(***************************************************************************)
(* What the requests promise the rest of the server about table txs: each  *)
(* stored transaction has a sequence of its own, taken before the          *)
(* transaction is stored, and a request may give up at any time. The       *)
(* router implements it request by request; the pipeline of module Rollup  *)
(* is checked with no more than this.                                      *)
(***************************************************************************)
EXTENDS Integers

VARIABLES
    txs_sequence,  \* the sequence handed out last
    inflight,      \* sequences taken whose transaction may still be stored
    accepted       \* sequences of the transactions stored so far

intakeVars == <<txs_sequence, inflight, accepted>>

Init ==
    /\ txs_sequence = 0
    /\ inflight = {}
    /\ accepted = {}

(* The request that takes a sequence may fail before it uses it. *)
TakeSequence ==
    /\ txs_sequence' = txs_sequence + 1
    /\ inflight' \in {inflight, inflight \cup {txs_sequence'}}
    /\ UNCHANGED accepted

Store(tx) ==
    /\ tx \in inflight
    /\ inflight' = inflight \ {tx}
    /\ accepted' = accepted \cup {tx}
    /\ UNCHANGED txs_sequence

(* Failing requests, or all of them when the process dies. *)
Abandon ==
    /\ inflight' \subseteq inflight
    /\ UNCHANGED <<txs_sequence, accepted>>

Next == TakeSequence \/ Abandon \/ \E tx \in inflight : Store(tx)

Spec == Init /\ [][Next]_intakeVars
============================================================================
