----------------------------- MODULE SendBlock -----------------------------
(***************************************************************************)
(* The sender: packages/server/src/service/scheduler/SendBlock.ts. Once    *)
(* per period it looks up the block that follows the contract's last one,  *)
(* submits it to the contract without waiting until the call is executed,  *)
(* and deletes rows the contract is known to hold.                         *)
(***************************************************************************)
EXTENDS RollupState

VARIABLES
    sending,        \* program counter of work
    contractHeight, \* local variable latestHeightContract
    data            \* local variable: the row to send, or None

sendVars == <<sending, contractHeight, data>>

SendIdle ==
    /\ sending = "idle"
    /\ contractHeight = 0
    /\ data = None

EndSend ==
    /\ sending' = "idle"
    /\ contractHeight' = 0
    /\ data' = None

(* The tick on which the period changes, and getLastHeight. When the call  *)
(* fails work ends without a trace.                                        *)
SendReadContract ==
    /\ sending = "idle"
    /\ contractHeight' = lastHeight
    /\ sending' = "database"
    /\ UNCHANGED <<tableVars, chainVars, ipfs, faults, data>>

NextToSend_Last(height) == blocks[selectLastHeight]

(* The block after the contract's last one; "Lost blocks" if it is missing. *)
(* One step for both queries: only this scheduler deletes rows, so a row    *)
(* inserted between them changes neither answer.                            *)
NextToSend(height) ==
    IF selectLastHeight > height /\ HasBlock(height + 1)
    THEN blocks[height + 1]
    ELSE None

SendReadDatabase ==
    /\ sending = "database"
    /\ \/ NoRows /\ EndSend /\ Succeeds
       \/ /\ ~ NoRows
          /\ data' = NextToSend(contractHeight)
          /\ sending' = IF data' = None THEN "delete" ELSE "submit"
          /\ UNCHANGED contractHeight
          /\ Succeeds
       \/ EndSend /\ Fails
    /\ UNCHANGED <<tableVars, chainVars, ipfs>>

(* contract.add(...) resolves when the call is submitted. An error (the    *)
(* call may have been submitted all the same) is logged; work goes on. A   *)
(* call the provider refuses because it would revert is one that Execute   *)
(* lets revert.                                                            *)
SendSubmit ==
    /\ sending = "submit"
    /\ \/ pending' = pending \cup {data} /\ Succeeds
       \/ UNCHANGED pending /\ Fails
    /\ sending' = "delete"
    /\ data' = None
    /\ UNCHANGED <<tableVars, contractVars, ipfs, contractHeight>>

(* deleteBlockByHeight(latestHeightContract), with the height read before  *)
(* the block was sent.                                                     *)
SendDelete ==
    /\ sending = "delete"
    /\ \/ deleteBlockByHeight(contractHeight) /\ Succeeds
       \/ UNCHANGED blocks /\ Fails
    /\ EndSend
    /\ UNCHANGED <<txs, txs_sequence, chainVars, ipfs>>

SendNext ==
    \/ SendReadContract
    \/ SendReadDatabase
    \/ SendSubmit
    \/ SendDelete
============================================================================
