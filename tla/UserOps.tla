------------------------------- MODULE UserOps -------------------------------
(***************************************************************************)
(* The bundler and the chain, as src/worker and src/relayer/erc4337 use    *)
(* them (external).  A worker that gives up on a UserOperation (receipt    *)
(* timeout, lost reply, panic, process crash) does not withdraw it: the    *)
(* operation becomes an orphan that the paymaster signature keeps          *)
(* includable for five minutes.                                            *)
(*                                                                         *)
(* Each request is of a wallet of its own, so all pending operations of a  *)
(* request carry the same EntryPoint nonce and at most one is included.    *)
(***************************************************************************)
EXTENDS Platform

VARIABLES
    watched,      \* watched[w]: the operation worker w has submitted
    orphaned,     \* requests with a pending operation nobody watches
    executed,     \* executed[r]: operations of r included with success
    undone        \* undone[r]: operations of r included and reverted

chainVars == <<watched, orphaned, executed, undone>>

NoOp == [req |-> "none", state |-> "none"]

OpState == {"pending", "succeeded", "reverted", "replaced"}

ChainTypeOK ==
    /\ watched \in [WorkerIds -> [req : Requests, state : OpState] \cup {NoOp}]
    /\ orphaned \subseteq Requests
    /\ executed \in [Requests -> Nat]
    /\ undone \in [Requests -> Nat]

Pending(r) == [req |-> r, state |-> "pending"]

\* A bundler accepts an operation of r: it replaces any pending one with the
\* same nonce.  worker = the submitter, or none when the reply is lost.
Submit(r, submitters) ==
    /\ watched' = [w \in WorkerIds |->
                      IF w \in submitters THEN Pending(r)
                      ELSE IF watched[w] = Pending(r)
                           THEN [watched[w] EXCEPT !.state = "replaced"]
                           ELSE watched[w]]
    /\ orphaned' = IF submitters = {} THEN orphaned \cup {r} ELSE orphaned \ {r}
    /\ UNCHANGED <<executed, undone>>

\* The workers in gone stop watching their operations.
Abandon(gone) ==
    /\ watched' = [w \in WorkerIds |-> IF w \in gone THEN NoOp ELSE watched[w]]
    /\ orphaned' = orphaned \cup
                   {watched[w].req : w \in {v \in gone : watched[v].state = "pending"}}
    /\ UNCHANGED <<executed, undone>>

\* A block includes the pending operation of r; success is the outcome of
\* its calls.
Include(r, success) ==
    /\ executed' = IF success THEN [executed EXCEPT ![r] = @ + 1] ELSE executed
    /\ undone' = IF success THEN undone ELSE [undone EXCEPT ![r] = @ + 1]

IncludeWatched(w, success) ==
    /\ watched[w].state = "pending"
    /\ Include(watched[w].req, success)
    /\ watched' = [watched EXCEPT ![w].state =
                      IF success THEN "succeeded" ELSE "reverted"]
    /\ UNCHANGED orphaned

IncludeOrphan(r, success) ==
    /\ r \in orphaned
    /\ Include(r, success)
    /\ orphaned' = orphaned \ {r}
    /\ UNCHANGED watched

\* The validity window closes, or the bundler drops the operation.
ExpireOrphan(r) ==
    /\ r \in orphaned
    /\ orphaned' = orphaned \ {r}
    /\ UNCHANGED <<watched, executed, undone>>

\* The effect of r on the chain is decided at least once.
Decided(r) == executed[r] + undone[r] > 0
=============================================================================
