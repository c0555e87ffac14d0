-------------------------- MODULE PipelineRefinement --------------------------
(***************************************************************************)
(* The execution pipeline implements JobDelivery as long as no Redis       *)
(* command fails: each list is a place, and so is the hand of a worker.    *)
(***************************************************************************)
EXTENDS ExecutionPipeline

PlaceOf(r) ==
    IF PositionsOf(r, queue) # {} THEN "ready"
    ELSE IF InProcessing(r) THEN "taken"
    ELSE IF PositionsOf(r, deadLetter) # {} THEN "dead"
    ELSE IF Hands(r) # {} THEN "moving"
    ELSE IF runs[r] = 0 /\ events[r] = <<>> THEN "outside"
    ELSE "gone"

Delivery == INSTANCE JobDelivery WITH
    place <- [r \in Requests |-> PlaceOf(r)],
    effects <- [r \in Requests |-> executed[r] + undone[r]]

\* Every step of the pipeline is a step of JobDelivery or leaves the places
\* and effects alone: a job is never in two places, leaves the processing list
\* only decided or in a worker's hand, and is lost only from such a hand.
\* (queue/mod.rs:1-13, worker/mod.rs:4-9)
ImplementsDelivery == Delivery!DeliverySpec
=============================================================================
