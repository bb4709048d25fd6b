-------------------------- MODULE MCStorePurchase --------------------------
(***************************************************************************)
(* A small instance of the contract: two accounts, three hashes beside     *)
(* null (so that a hash can be stored twice), heights up to 4.  *)
(* The contract treats all accounts alike and never compares bodies.       *)
(***************************************************************************)
EXTENDS StorePurchase, TLC

CONSTANTS a1, a2, h1, h2, h3

MCAccount == {a1, a2}
MCHash == {NullHash, h1, h2, h3}
Symmetry == Permutations({a1, a2}) \cup Permutations({h1, h2, h3})
============================================================================
