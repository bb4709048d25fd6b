------------------------------- MODULE Ledger -------------------------------
(***************************************************************************)
(* What the store purchase server promises, without its tables, calls and  *)
(* crashes: README.md, "codes that collect purchase transactions, create   *)
(* blocks, and store them in smart contracts". A transaction may be in two *)
(* blocks (a crash can strike between sealing and Retire), but none is     *)
(* dropped, and no block is changed or reordered once it is in the log.    *)
(***************************************************************************)
EXTENDS Integers, Sequences, FiniteSets

CONSTANTS
    Tx,       \* transactions
    max_txs   \* most transactions in a block

VARIABLES
    waiting,   \* the pool
    log,       \* the blocks, each the set of its transactions
    anchored   \* how many blocks of the log the contract holds

vars == <<waiting, log, anchored>>

Init ==
    /\ waiting = {}
    /\ log = <<>>
    /\ anchored = 0

Accept(tx) ==
    /\ waiting' = waiting \cup {tx}
    /\ UNCHANGED <<log, anchored>>

Seal(content) ==
    /\ content # {}
    /\ Cardinality(content) <= max_txs
    /\ log' = Append(log, content)
    /\ UNCHANGED <<waiting, anchored>>

Retire(tx) ==
    /\ \E i \in 1 .. Len(log) : tx \in log[i]
    /\ waiting' = waiting \ {tx}
    /\ UNCHANGED <<log, anchored>>

Anchor ==
    /\ anchored < Len(log)
    /\ anchored' = anchored + 1
    /\ UNCHANGED <<waiting, log>>

Next ==
    \/ \E tx \in Tx : Accept(tx)
    \/ \E content \in SUBSET waiting : Seal(content)
    \/ \E tx \in waiting : Retire(tx)
    \/ Anchor

Spec == Init /\ [][Next]_vars
============================================================================
