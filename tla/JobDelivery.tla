----------------------------- MODULE JobDelivery -----------------------------
(***************************************************************************)
(* What src/queue/mod.rs and src/worker/mod.rs promise of a job, without   *)
(* lists, workers or processes: a job is in one place at a time, is handed *)
(* out until its effect is decided, and is given up only while it is in    *)
(* the hand of someone who moves it.                                       *)
(***************************************************************************)
EXTENDS Naturals

CONSTANT Requests

VARIABLES
    place,        \* place[r]: where the job of r is
    effects       \* effects[r]: operations of r included on the chain

deliveryVars == <<place, effects>>

Place == {"outside", "ready", "taken", "moving", "dead", "gone"}

DeliveryInit ==
    /\ place \in [Requests -> {"outside", "ready"}]
    /\ effects = [r \in Requests |-> 0]

\* The job of r goes from one place to another.
Move(r, from, to) ==
    /\ place[r] = from
    /\ place' = [place EXCEPT ![r] = to]
    /\ UNCHANGED effects

Accept(r) == Move(r, "outside", "ready")

Take(r) == Move(r, "ready", "taken")

\* Recovery: the holder died.
GiveBack(r) == Move(r, "taken", "ready")

PickUp(r) == Move(r, "taken", "moving")

Retry(r) == Move(r, "moving", "ready")

Bury(r) == Move(r, "moving", "dead")

Settle(r) ==
    /\ effects[r] > 0
    /\ Move(r, "taken", "gone")

\* The movers of all jobs in lost die at once.
Lose(lost) ==
    /\ \A r \in lost : place[r] = "moving"
    /\ place' = [r \in Requests |-> IF r \in lost THEN "gone" ELSE place[r]]
    /\ UNCHANGED effects

\* Nothing is included for a job that was never handed out.
Effect(r) ==
    /\ place[r] \notin {"outside"}
    /\ effects' = [effects EXCEPT ![r] = @ + 1]
    /\ UNCHANGED place

DeliveryNext ==
    \/ \E r \in Requests :
          \/ Accept(r) \/ Take(r) \/ GiveBack(r) \/ PickUp(r)
          \/ Retry(r) \/ Bury(r) \/ Settle(r) \/ Effect(r)
    \/ \E lost \in SUBSET Requests : Lose(lost)

DeliverySpec == DeliveryInit /\ [][DeliveryNext]_deliveryVars
=============================================================================
