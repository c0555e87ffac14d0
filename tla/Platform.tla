------------------------------ MODULE Platform ------------------------------
(***************************************************************************)
(* What the modules of the execution pipeline share: the ids of requests   *)
(* and workers, and the answer of a remote command as the platform's       *)
(* Redis, PostgreSQL and bundler clients see it.  A command that fails was *)
(* either never executed by the server ("refused") or executed with its    *)
(* reply lost on the way back ("lost"); the caller gets an Err in both     *)
(* cases.  MaxFaults bounds how many commands fail in one behaviour.       *)
(***************************************************************************)
EXTENDS Naturals

CONSTANTS
    Requests,     \* request ids (rows of execution_requests)
    NumWorkers,   \* NUM_WORKERS
    MaxFaults

ASSUME PlatformAssumption ==
    /\ NumWorkers \in Nat \ {0}
    /\ MaxFaults \in Nat

VARIABLE faults

\* main.rs starts one supervisor per id of this range.
WorkerIds == 0..NumWorkers - 1

Replies == {"ok", "refused", "lost"}

Applied(reply) == reply # "refused"

\* The server answers a command with reply.
Answer(reply) ==
    /\ reply \in Replies
    /\ reply # "ok" => faults < MaxFaults
    /\ faults' = IF reply = "ok" THEN faults ELSE faults + 1

FaultsTypeOK == faults \in 0..MaxFaults
=============================================================================
