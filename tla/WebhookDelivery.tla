--------------------------- MODULE WebhookDelivery ---------------------------
(***************************************************************************)
(* What an agent learns without asking: fire_webhook of src/worker starts  *)
(* a task per terminal outcome of a request, and deliver of src/webhook    *)
(* posts its event until the endpoint takes it or MAX_RETRIES attempts are *)
(* made.  Tasks are independent, so a later event may overtake an earlier. *)
(* All events here are of one request that runs more than once.            *)
(***************************************************************************)
EXTENDS Naturals

CONSTANTS
    MaxEvents,    \* outcomes of the request in one behaviour
    MaxRetries    \* MAX_RETRIES

VARIABLES
    task,         \* task[e]: of event e, in the order they were fired
    received,     \* copies of events that reached the endpoint
    clock         \* completed_at of the next event

vars == <<task, received, clock>>

Event == 1..MaxEvents
Unfired == [at |-> "unfired", tries |-> 0, completed |-> 0]

Init ==
    /\ task = [e \in Event |-> Unfired]
    /\ received = {}
    /\ clock = 0

\* A worker (or recovery) announces an outcome of a job with a callback_url
\* and a signing secret; the others have no task.
Fire(e) ==
    /\ task[e].at = "unfired"
    /\ \A d \in Event : d < e => task[d].at # "unfired"
    /\ task' = [task EXCEPT ![e] = [at |-> "post", tries |-> 0, completed |-> clock + 1]]
    /\ clock' = clock + 1
    /\ UNCHANGED received

\* Mutant of HasTriesLeft: the first attempt is not counted.
HasTriesAfterFirst(e) == task[e].tries + 1 <= MaxRetries

\* Another attempt follows the one being made.
HasTriesLeft(e) == task[e].tries + 1 < MaxRetries

\* One POST: the endpoint gets it or not, and a 2xx gets back or not.
Post(e, arrives, accepted) ==
    /\ task[e].at = "post"
    /\ accepted => arrives
    /\ received' = IF arrives
                   THEN received \cup {[event |-> e, completed |-> task[e].completed,
                                        try |-> task[e].tries + 1]}
                   ELSE received
    /\ task' = [task EXCEPT ![e].tries = @ + 1,
                            ![e].at = IF accepted THEN "delivered"
                                      ELSE IF HasTriesLeft(e) THEN "backoff"
                                      ELSE "exhausted"]
    /\ UNCHANGED clock

\* The backoff ends.
Again(e) ==
    /\ task[e].at = "backoff"
    /\ task' = [task EXCEPT ![e].at = "post"]
    /\ UNCHANGED <<received, clock>>

\* The process ends and its tasks with it; nothing starts them again.
ProcessStops ==
    /\ \E e \in Event : task[e].at \in {"post", "backoff"}
    /\ task' = [e \in Event |->
                  IF task[e].at \in {"post", "backoff"} THEN [task[e] EXCEPT !.at = "lost"]
                  ELSE task[e]]
    /\ UNCHANGED <<received, clock>>

Next ==
    \/ \E e \in Event : \/ Fire(e) \/ Again(e)
                        \/ \E arrives, accepted \in BOOLEAN : Post(e, arrives, accepted)
    \/ ProcessStops

Spec == Init /\ [][Next]_vars
=============================================================================
