------------------------------- MODULE Worker -------------------------------
(***************************************************************************)
(* The worker loop of src/worker/mod.rs, one action per await: a worker    *)
(* takes a job, marks its request, executes it through the bundler, writes *)
(* the outcome, fires the webhook and acknowledges the job, or puts it     *)
(* back with a bumped attempt count.                                       *)
(*                                                                         *)
(* pc[w] names the await the worker of id w is at:                         *)
(*   idle            BLMOVE                                                *)
(*   poison_status   UPDATE of the poison-pill guard                       *)
(*   dlq_rem         LREM of move_to_dlq (and of a corrupt payload)        *)
(*   dlq_push        LPUSH of move_to_dlq (and of a corrupt payload)       *)
(*   broadcast       UPDATE to Broadcasting                                *)
(*   execute         execute_erc4337 up to eth_sendUserOperation           *)
(*   await_receipt   wait_for_receipt                                      *)
(*   confirm_status, confirm_row     UPDATE and INSERT of a success        *)
(*   revert_status                   UPDATE of a revert                    *)
(*   notify          fire_webhook                                          *)
(*   ack             ack_job after a success or a revert                   *)
(*   requeue_ack, requeue_push, exhaust_push, exhaust_status               *)
(*                   the awaits of re_enqueue_with_bump                    *)
(*   recovering      recover_stale_jobs of the supervisor, after a panic   *)
(*   stopped         the process is not serving                            *)
(***************************************************************************)
EXTENDS JobQueue, ExecutionStore, UserOps

CONSTANTS
    NoJob,        \* no payload in hand
    EchoesRevert  \* some error text of the bundler says "UserOp reverted"

ASSUME WorkerAssumption ==
    /\ NoJob \notin Payload
    /\ EchoesRevert \in BOOLEAN

VARIABLES
    pc,           \* pc[w]: see above
    held,         \* held[w]: the payload worker w took last
    verdict,      \* verdict[w]: the status the worker is about to announce
    runs,         \* history, runs[r]: executions of r begun
    events        \* history, events[r]: webhooks fired for r, in order

workerVars == <<pc, held, verdict, runs, events>>

DlqPc == {"dlq_rem", "dlq_push"}

RequeuePc == {"requeue_ack", "requeue_push", "exhaust_push", "exhaust_status"}

OutcomePc == {"confirm_status", "confirm_row", "revert_status", "notify", "ack"}

RunPc == {"execute", "await_receipt"}

Pc == {"idle", "poison_status", "broadcast", "recovering", "stopped"}
        \cup DlqPc \cup RequeuePc \cup OutcomePc \cup RunPc

WorkerTypeOK ==
    /\ pc \in [WorkerIds -> Pc]
    /\ held \in [WorkerIds -> Payload \cup {NoJob}]
    /\ verdict \in [WorkerIds -> Terminal \cup {"none"}]
    /\ runs \in [Requests -> Nat]
    /\ events \in [Requests -> Seq(Terminal)]
-----------------------------------------------------------------------------
Goto(w, next) ==
    /\ pc' = [pc EXCEPT ![w] = next]
    /\ UNCHANGED <<held, verdict>>

\* The loop is back at its BLMOVE.
Finish(w) ==
    /\ pc' = [pc EXCEPT ![w] = "idle"]
    /\ held' = [held EXCEPT ![w] = NoJob]
    /\ verdict' = [verdict EXCEPT ![w] = "none"]

\* Mutant of Bumped: the attempt is not counted.
NotBumped(job) == job

\* bumped in re_enqueue_with_bump.
Bumped(job) == [job EXCEPT !.attempt = @ + 1]

\* BLMOVE and the poison-pill guard.  A job whose reply is lost stays in the
\* processing list while the worker sleeps and asks for the next one.
Dequeue(w) ==
    /\ pc[w] = "idle"
    /\ DequeueJob(w)
    /\ \/ /\ Answer("lost")
          /\ UNCHANGED <<pc, held, verdict>>
       \/ /\ Answer("ok")
          /\ held' = [held EXCEPT ![w] = Last(queue)]
          /\ pc' = [pc EXCEPT ![w] =
                      CASE Last(queue) = Corrupt -> "dlq_rem"
                        [] Last(queue) # Corrupt /\ Last(queue).attempt >= MaxAttempts
                             -> "poison_status"
                        [] OTHER -> "broadcast"]
          /\ UNCHANGED verdict
    /\ UNCHANGED <<runs, events, storeVars, chainVars>>

\* The guard's UPDATE to Failed; its error is ignored.
PoisonStatus(w) ==
    /\ pc[w] = "poison_status"
    /\ \E reply \in Replies :
          /\ Answer(reply)
          /\ UpdateExecutionStatus(held[w].req, "failed", reply)
    /\ verdict' = [verdict EXCEPT ![w] = "failed"]
    /\ pc' = [pc EXCEPT ![w] = "notify"]
    /\ UNCHANGED <<held, runs, events, queueVars, chainVars>>

\* move_to_dlq returns at the first error; dequeue_job ignores the error of
\* either command when it discards a corrupt payload.
MoveToDlqRemove(w) ==
    /\ pc[w] = "dlq_rem"
    /\ \E reply \in Replies :
          /\ Answer(reply)
          /\ RemoveFromProcessing(w, held[w], reply)
          /\ IF reply = "ok" \/ held[w] = Corrupt THEN Goto(w, "dlq_push")
                                                   ELSE Finish(w)
    /\ UNCHANGED <<runs, events, storeVars, chainVars>>

MoveToDlqPush(w) ==
    /\ pc[w] = "dlq_push"
    /\ \E reply \in Replies : Answer(reply) /\ PushToDlq(held[w], reply)
    /\ Finish(w)
    /\ UNCHANGED <<runs, events, storeVars, chainVars>>

\* UPDATE to Broadcasting; its error is only logged.
Broadcast(w) ==
    /\ pc[w] = "broadcast"
    /\ \E reply \in Replies :
          /\ Answer(reply)
          /\ UpdateExecutionStatus(held[w].req, "broadcasting", reply)
    /\ Goto(w, "execute")
    /\ runs' = [runs EXCEPT ![held[w].req] = @ + 1]
    /\ UNCHANGED <<events, queueVars, chainVars>>
-----------------------------------------------------------------------------
\* Everything in execute_erc4337 before the bundler accepts the operation may
\* fail: the wallet, the RPC node, estimation, signing, the submission.
ExecuteFails(w) ==
    /\ pc[w] = "execute"
    /\ Goto(w, "requeue_ack")
    /\ UNCHANGED <<runs, events, faults, queueVars, storeVars, chainVars>>

\* A failure is taken for a revert when its text has the words, and the text
\* quotes what the bundler answered.
ExecuteFailsAsRevert(w) ==
    /\ EchoesRevert
    /\ pc[w] = "execute"
    /\ Goto(w, "revert_status")
    /\ UNCHANGED <<runs, events, faults, queueVars, storeVars, chainVars>>

\* eth_sendUserOperation: the bundler accepts the operation, and the worker
\* learns it or only sees a transport error.
SubmitUserOp(w) ==
    /\ pc[w] = "execute"
    /\ \/ /\ Answer("ok")
          /\ Submit(held[w].req, {w})
          /\ Goto(w, "await_receipt")
       \/ /\ Answer("lost")
          /\ Submit(held[w].req, {})
          /\ Goto(w, "requeue_ack")
    /\ UNCHANGED <<runs, events, queueVars, storeVars>>

\* A receipt with success = true.
ReceiptConfirmed(w) ==
    /\ pc[w] = "await_receipt"
    /\ watched[w].state = "succeeded"
    /\ Abandon({w})
    /\ Goto(w, "confirm_status")
    /\ UNCHANGED <<runs, events, faults, queueVars, storeVars>>

\* A receipt with success = false: "UserOp reverted on-chain" is final.
ReceiptReverted(w) ==
    /\ pc[w] = "await_receipt"
    /\ watched[w].state = "reverted"
    /\ Abandon({w})
    /\ Goto(w, "revert_status")
    /\ UNCHANGED <<runs, events, faults, queueVars, storeVars>>

\* Mutants of ReceiptTimeout: the job is acknowledged instead of retried, the
\* timeout is classified as a revert, or the run submits once more.
ReceiptTimeoutResubmits(w) ==
    /\ pc[w] = "await_receipt"
    /\ Abandon({w})
    /\ Goto(w, "execute")
    /\ UNCHANGED <<runs, events, faults, queueVars, storeVars>>

ReceiptTimeoutAcks(w) ==
    /\ pc[w] = "await_receipt"
    /\ Abandon({w})
    /\ Goto(w, "ack")
    /\ UNCHANGED <<runs, events, faults, queueVars, storeVars>>

ReceiptTimeoutReverts(w) ==
    /\ pc[w] = "await_receipt"
    /\ Abandon({w})
    /\ Goto(w, "revert_status")
    /\ UNCHANGED <<runs, events, faults, queueVars, storeVars>>

\* "timeout after 120s waiting for UserOp receipt" is transient, whatever
\* became of the operation since the last poll.
ReceiptTimeout(w) ==
    /\ pc[w] = "await_receipt"
    /\ Abandon({w})
    /\ Goto(w, "requeue_ack")
    /\ UNCHANGED <<runs, events, faults, queueVars, storeVars>>

\* The spawned execution panics: the join error is handled as a failure.
ExecutionPanics(w) ==
    /\ pc[w] \in RunPc
    /\ Abandon({w})
    /\ Goto(w, "requeue_ack")
    /\ UNCHANGED <<runs, events, faults, queueVars, storeVars>>
-----------------------------------------------------------------------------
\* UPDATE to Confirmed; its error is logged as CRITICAL and ignored.
ConfirmStatus(w) ==
    /\ pc[w] = "confirm_status"
    /\ \E reply \in Replies :
          /\ Answer(reply)
          /\ UpdateExecutionStatus(held[w].req, "confirmed", reply)
    /\ Goto(w, "confirm_row")
    /\ UNCHANGED <<runs, events, queueVars, chainVars>>

\* INSERT into transactions; its error is logged and ignored.
ConfirmRow(w) ==
    /\ pc[w] = "confirm_row"
    /\ \E reply \in Replies :
          Answer(reply) /\ InsertTransaction(held[w].req, reply)
    /\ verdict' = [verdict EXCEPT ![w] = "confirmed"]
    /\ pc' = [pc EXCEPT ![w] = "notify"]
    /\ UNCHANGED <<held, runs, events, queueVars, chainVars>>

\* UPDATE to Reverted; its error is logged as CRITICAL and ignored.
RevertStatus(w) ==
    /\ pc[w] = "revert_status"
    /\ \E reply \in Replies :
          /\ Answer(reply)
          /\ UpdateExecutionStatus(held[w].req, "reverted", reply)
    /\ verdict' = [verdict EXCEPT ![w] = "reverted"]
    /\ pc' = [pc EXCEPT ![w] = "notify"]
    /\ UNCHANGED <<held, runs, events, queueVars, chainVars>>

\* Mutant of FireWebhook: a revert is announced and then retried.
FireWebhookRetriesRevert(w) ==
    /\ pc[w] = "notify"
    /\ events' = [events EXCEPT ![held[w].req] = Append(@, verdict[w])]
    /\ CASE held[w].attempt >= MaxAttempts -> Goto(w, "dlq_rem")
         [] held[w].attempt < MaxAttempts /\ verdict[w] = "failed" -> Finish(w)
         [] held[w].attempt < MaxAttempts /\ verdict[w] = "reverted"
              -> Goto(w, "requeue_ack")
         [] OTHER -> Goto(w, "ack")
    /\ UNCHANGED <<runs, faults, queueVars, storeVars, chainVars>>

\* fire_webhook spawns the delivery and returns; it does nothing for a job
\* without a callback_url or api_key_hash, which are not modelled: the events
\* are what such a job would be told.  What follows it depends on
\* the caller: the poison guard, the end of re_enqueue_with_bump, or an ack.
FireWebhook(w) ==
    /\ pc[w] = "notify"
    /\ events' = [events EXCEPT ![held[w].req] = Append(@, verdict[w])]
    /\ CASE held[w].attempt >= MaxAttempts -> Goto(w, "dlq_rem")
         [] held[w].attempt < MaxAttempts /\ verdict[w] = "failed" -> Finish(w)
         [] OTHER -> Goto(w, "ack")
    /\ UNCHANGED <<runs, faults, queueVars, storeVars, chainVars>>

\* ack_job; its error is only logged.
Ack(w) ==
    /\ pc[w] = "ack"
    /\ \E reply \in Replies :
          Answer(reply) /\ RemoveFromProcessing(w, held[w], reply)
    /\ Finish(w)
    /\ UNCHANGED <<runs, events, storeVars, chainVars>>
-----------------------------------------------------------------------------
\* Mutants of ReEnqueueAck: the original stays in the processing list; the
\* limit is off by one; an exhausted job is not dead-lettered.
ReEnqueueKeepsOriginal(w) ==
    /\ pc[w] = "requeue_ack"
    /\ Answer("ok")
    /\ Goto(w, IF Bumped(held[w]).attempt >= MaxAttempts THEN "exhaust_push"
                                                         ELSE "requeue_push")
    /\ UNCHANGED <<runs, events, queueVars, storeVars, chainVars>>

ReEnqueueOneTooMany(w) ==
    /\ pc[w] = "requeue_ack"
    /\ \E reply \in Replies :
          Answer(reply) /\ RemoveFromProcessing(w, held[w], reply)
    /\ Goto(w, IF Bumped(held[w]).attempt > MaxAttempts THEN "exhaust_push"
                                                        ELSE "requeue_push")
    /\ UNCHANGED <<runs, events, storeVars, chainVars>>

ReEnqueueSkipsDlq(w) ==
    /\ pc[w] = "requeue_ack"
    /\ \E reply \in Replies :
          Answer(reply) /\ RemoveFromProcessing(w, held[w], reply)
    /\ Goto(w, IF Bumped(held[w]).attempt >= MaxAttempts THEN "exhaust_status"
                                                         ELSE "requeue_push")
    /\ UNCHANGED <<runs, events, storeVars, chainVars>>

\* re_enqueue_with_bump removes the original first and goes on even if that
\* failed.  From here to the next push the job is in no Redis list.
ReEnqueueAck(w) ==
    /\ pc[w] = "requeue_ack"
    /\ \E reply \in Replies :
          Answer(reply) /\ RemoveFromProcessing(w, held[w], reply)
    /\ Goto(w, IF Bumped(held[w]).attempt >= MaxAttempts THEN "exhaust_push"
                                                         ELSE "requeue_push")
    /\ UNCHANGED <<runs, events, storeVars, chainVars>>

\* LPUSH of the bumped job; an error is logged ("job may be lost").
ReEnqueuePush(w) ==
    /\ pc[w] = "requeue_push"
    /\ \E reply \in Replies :
          Answer(reply) /\ EnqueueJob(Bumped(held[w]), reply)
    /\ Finish(w)
    /\ UNCHANGED <<runs, events, storeVars, chainVars>>

\* LPUSH of the bumped job onto the dead-letter list; its error is logged.
ExhaustPush(w) ==
    /\ pc[w] = "exhaust_push"
    /\ \E reply \in Replies :
          Answer(reply) /\ PushToDlq(Bumped(held[w]), reply)
    /\ Goto(w, "exhaust_status")
    /\ UNCHANGED <<runs, events, storeVars, chainVars>>

\* Mutant of ExhaustStatus: no webhook for exhausted retries.
ExhaustStatusSilent(w) ==
    /\ pc[w] = "exhaust_status"
    /\ \E reply \in Replies :
          /\ Answer(reply)
          /\ UpdateExecutionStatus(held[w].req, "failed", reply)
    /\ Finish(w)
    /\ UNCHANGED <<runs, events, queueVars, chainVars>>

\* UPDATE to Failed; its error is logged as CRITICAL and ignored.
ExhaustStatus(w) ==
    /\ pc[w] = "exhaust_status"
    /\ \E reply \in Replies :
          /\ Answer(reply)
          /\ UpdateExecutionStatus(held[w].req, "failed", reply)
    /\ verdict' = [verdict EXCEPT ![w] = "failed"]
    /\ pc' = [pc EXCEPT ![w] = "notify"]
    /\ UNCHANGED <<held, runs, events, queueVars, chainVars>>
-----------------------------------------------------------------------------
\* The loop itself panics (main.rs, worker_supervisor).  It runs no code of
\* its own while it waits for the execution task.
LoopPanics(w) ==
    /\ pc[w] \notin RunPc \cup {"recovering", "stopped"}
    /\ pc' = [pc EXCEPT ![w] = "recovering"]
    /\ held' = [held EXCEPT ![w] = NoJob]
    /\ verdict' = [verdict EXCEPT ![w] = "none"]
    /\ UNCHANGED <<runs, events, faults, queueVars, storeVars, chainVars>>

\* The supervisor's recover_stale_jobs: one LMOVE, an error ends the loop and
\* is only logged; an empty list ends it too, and the worker restarts.
SupervisorRecovers(w) ==
    /\ pc[w] = "recovering"
    /\ \/ \E reply \in Replies :
             /\ Answer(reply)
             /\ RecoverOne(w, reply)
             /\ Goto(w, IF reply = "ok" THEN "recovering" ELSE "idle")
       \/ /\ processing[w] = <<>>
          /\ Goto(w, "idle")
          /\ UNCHANGED <<faults, queueVars>>
    /\ UNCHANGED <<runs, events, storeVars, chainVars>>

\* The awaits of one worker that its own task performs.
WorkerStep(w) ==
    \/ Dequeue(w)
    \/ PoisonStatus(w) \/ MoveToDlqRemove(w) \/ MoveToDlqPush(w)
    \/ Broadcast(w) \/ ExecuteFails(w) \/ ExecuteFailsAsRevert(w) \/ SubmitUserOp(w)
    \/ ReceiptConfirmed(w) \/ ReceiptReverted(w) \/ ReceiptTimeout(w)
    \/ ExecutionPanics(w)
    \/ ConfirmStatus(w) \/ ConfirmRow(w) \/ RevertStatus(w)
    \/ FireWebhook(w) \/ Ack(w)
    \/ ReEnqueueAck(w) \/ ReEnqueuePush(w)
    \/ ExhaustPush(w) \/ ExhaustStatus(w)
    \/ SupervisorRecovers(w)
=============================================================================
