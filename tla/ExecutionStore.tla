--------------------------- MODULE ExecutionStore ---------------------------
(***************************************************************************)
(* The PostgreSQL rows of a request (src/db/mod.rs): its status in         *)
(* execution_requests and its rows in transactions.                        *)
(***************************************************************************)
EXTENDS Platform

VARIABLES
    status,       \* status[r]: the status column, "absent" before the INSERT
    txRows        \* txRows[r]: rows of transactions that name r

storeVars == <<status, txRows>>

Terminal == {"confirmed", "failed", "reverted"}

ExecutionStatus == {"pending", "queued", "broadcasting"} \cup Terminal

StoreTypeOK ==
    /\ status \in [Requests -> ExecutionStatus \cup {"absent"}]
    /\ txRows \in [Requests -> Nat]

\* INSERT of a row with status Pending.
InsertExecutionRequest(r, reply) ==
    /\ status' = IF Applied(reply) THEN [status EXCEPT ![r] = "pending"]
                                   ELSE status
    /\ UNCHANGED txRows

\* The UPDATE names no expected old status: it overwrites whatever is there.
UpdateExecutionStatus(r, new, reply) ==
    /\ status' = IF Applied(reply) THEN [status EXCEPT ![r] = new] ELSE status
    /\ UNCHANGED txRows

\* Every INSERT makes a new row: no column of transactions but id is unique.
InsertTransaction(r, reply) ==
    /\ txRows' = IF Applied(reply) THEN [txRows EXCEPT ![r] = @ + 1] ELSE txRows
    /\ UNCHANGED status
=============================================================================
