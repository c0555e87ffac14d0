------------------------------ MODULE JobQueue ------------------------------
(***************************************************************************)
(* The Redis job queue of src/queue/mod.rs: the main list, one processing  *)
(* list per worker id and the dead-letter list.  The head of a sequence is *)
(* the LEFT end of the Redis list, so a job enters the queue at its head   *)
(* and is taken from its end.                                              *)
(*                                                                         *)
(* A payload is the JSON text of an ExecutionJob.  Everything in it but    *)
(* attempt_count is fixed by the request and by the release that wrote the *)
(* text: an older one leaves out fields that this one reads with a default *)
(* and always writes.  So two payloads are the same text iff they agree on *)
(* req, attempt and form.  Corrupt stands for a payload that serde_json    *)
(* rejects.                                                                *)
(***************************************************************************)
EXTENDS Platform, Sequences, SequencesExt

CONSTANTS
    MaxAttempts,  \* MAX_JOB_ATTEMPTS
    Corrupt       \* a payload that does not deserialize

Job == [req : Requests, attempt : Nat, form : {"current", "older"}]

Payload == Job \cup {Corrupt}

ASSUME QueueAssumption ==
    /\ MaxAttempts \in Nat \ {0}
    /\ Corrupt \notin Job

VARIABLES queue, processing, deadLetter

queueVars == <<queue, processing, deadLetter>>

\* execution_jobs, execution_jobs:processing:{id} and execution_jobs:dead_letter.
QueueTypeOK ==
    /\ queue \in Seq(Payload)
    /\ processing \in [WorkerIds -> Seq(Payload)]
    /\ deadLetter \in Seq(Payload)
-----------------------------------------------------------------------------
\* The text the queue functions make of the job a payload was read into.  The
\* payload that could not be read is passed on as it is.
Reserialized(payload) ==
    IF payload = Corrupt THEN Corrupt ELSE [payload EXCEPT !.form = "current"]

\* LPUSH onto the main list (enqueue_job).
EnqueueJob(job, reply) ==
    /\ queue' = IF Applied(reply) THEN Cons(Reserialized(job), queue) ELSE queue
    /\ UNCHANGED <<processing, deadLetter>>

\* BLMOVE from the main list to the processing list of w (dequeue_job).
DequeueJob(w) ==
    /\ queue # <<>>
    /\ queue' = Front(queue)
    /\ processing' = [processing EXCEPT ![w] = Cons(Last(queue), @)]
    /\ UNCHANGED deadLetter

\* LREM 1 from the processing list of w (ack_job, and the first half of
\* move_to_dlq).  The text is looked for that this release would write, and
\* finding none is only logged.
RemoveFromProcessing(w, payload, reply) ==
    /\ processing' = IF Applied(reply)
                     THEN [processing EXCEPT ![w] = RemoveFirst(@, Reserialized(payload))]
                     ELSE processing
    /\ UNCHANGED <<queue, deadLetter>>

\* LPUSH onto the dead-letter list (push_to_dlq, and the second half of
\* move_to_dlq).
PushToDlq(payload, reply) ==
    /\ deadLetter' = IF Applied(reply) THEN Cons(Reserialized(payload), deadLetter)
                                       ELSE deadLetter
    /\ UNCHANGED <<queue, processing>>

\* Mutant of RecoverOne: the job is popped and not pushed.
RecoverOnePopsOnly(w, reply) ==
    /\ processing[w] # <<>>
    /\ processing' = IF Applied(reply) THEN [processing EXCEPT ![w] = Front(@)]
                                       ELSE processing
    /\ UNCHANGED <<queue, deadLetter>>

\* One LMOVE of recover_stale_jobs: the oldest job of the processing list
\* goes to the head of the main list, behind every job waiting there.
RecoverOne(w, reply) ==
    /\ processing[w] # <<>>
    /\ IF Applied(reply)
       THEN /\ queue' = Cons(Last(processing[w]), queue)
            /\ processing' = [processing EXCEPT ![w] = Front(@)]
       ELSE UNCHANGED <<queue, processing>>
    /\ UNCHANGED deadLetter
-----------------------------------------------------------------------------
\* Every job of the list is in the text of this release.
CurrentForm(list) ==
    \A i \in DOMAIN list : list[i] # Corrupt => list[i].form = "current"

\* Jobs of request r among the payloads of a list.
PositionsOf(r, list) ==
    {i \in DOMAIN list : list[i] # Corrupt /\ list[i].req = r}

InProcessing(r) == \E w \in WorkerIds : PositionsOf(r, processing[w]) # {}

\* Request r has a job in some Redis list.
Stored(r) ==
    \/ PositionsOf(r, queue) # {}
    \/ PositionsOf(r, deadLetter) # {}
    \/ InProcessing(r)
=============================================================================
