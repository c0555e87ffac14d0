-------------------------- MODULE ProtocolActions --------------------------
(***************************************************************************)
(* The handler every protocol adapter shares.  A request is validated; the *)
(* handler reads the chain one RPC at a time; from what it has seen it     *)
(* compiles calls (or an answer), has the batch simulated on the chain as  *)
(* it is by then, and queues it.  The worker's user operation executes the *)
(* batch later, all of it or none of it.  Between any two of these steps   *)
(* prices, pools and interest move and the batches of the wallet's other   *)
(* requests are executed.  The pipeline may run a job more than once (an   *)
(* operation that was given up is included late), so may the batch here.   *)
(*                                                                         *)
(* A protocol module gives the operators: what a request is, which reads   *)
(* it makes and what they return, what is decided from them, and what a    *)
(* call does to the chain ({} : it reverts).  Reads have no effect, so an  *)
(* early return between two reads is taken after the last one.             *)
(***************************************************************************)
EXTENDS Naturals, Sequences

CONSTANTS
    Protocol,         \* its name
    Handlers,         \* concurrent requests of one wallet
    Requests,
    MaxMoves,         \* bound on the moves of prices, pools and interest
    MaxRuns,          \* bound on the executions of one batch
    Valid(_),         \* request
    Reads(_),         \* request
    Read(_, _, _),    \* chain, name of the read, request
    Decide(_, _),     \* request, values read
    Call(_, _),       \* chain, call
    Moves(_)          \* chain

VARIABLES
    protocol,   \* the protocol of this behaviour
    chain,      \* its state, and the wallet's
    task,       \* of each handler
    moves

\* Every action is an action of this protocol.
Here == protocol = Protocol /\ UNCHANGED protocol

Idle == [stage |-> "idle"]

\* The chain after a batch, or {} when one of its calls reverts.
Run(c, calls) ==
    LET after[n \in 0..Len(calls)] ==
            IF n = 0 THEN {c} ELSE UNION {Call(d, calls[n]) : d \in after[n - 1]}
    IN after[Len(calls)]

\* The chain is no longer the one a task began to read: the market moved, or
\* a batch of the wallet was executed.
Overtaken(tasks, by) ==
    [h \in Handlers |->
        IF tasks[h].stage = "idle" \/ tasks[h].since = "wallet" THEN tasks[h]
        ELSE [tasks[h] EXCEPT !.since = by]]

Begin(h) ==
    /\ Here
    /\ task[h].stage = "idle"
    /\ \E r \in Requests :
         task' = [task EXCEPT ![h] =
                    [stage |-> IF Valid(r) THEN "reading" ELSE "rejected", req |-> r,
                     seen |-> <<>>, result |-> <<>>, runs |-> 0, since |-> "nothing"]]
    /\ UNCHANGED <<chain, moves>>

ReadNext(h) ==
    /\ Here
    /\ task[h].stage = "reading"
    /\ LET r == task[h].req
           n == Len(task[h].seen)
       IN /\ n < Len(Reads(r))
          /\ task' = [task EXCEPT ![h].seen = Append(@, Read(chain, Reads(r)[n + 1], r))]
    /\ UNCHANGED <<chain, moves>>

Decision(h) == Decide(task[h].req, task[h].seen)

HasRead(h) ==
    /\ task[h].stage = "reading"
    /\ Len(task[h].seen) = Len(Reads(task[h].req))

Left(h, stage, result) ==
    [task EXCEPT ![h].stage = stage, ![h].result = result, ![h].seen = <<>>]

\* A query is answered from what was read.
Answer(h) ==
    /\ Here
    /\ HasRead(h)
    /\ Decision(h).kind = "answer"
    /\ task' = Left(h, "answered", Decision(h).answer)
    /\ UNCHANGED <<chain, moves>>

\* handle_simulate: the outcome is returned and nothing is queued.
Simulate(h) ==
    /\ Here
    /\ HasRead(h)
    /\ Decision(h).kind = "calls"
    /\ Run(chain, Decision(h).calls) # {}
    /\ task' = Left(h, "simulated", Decision(h).calls)
    /\ UNCHANGED <<chain, moves>>

\* handle_execute: the batch is simulated and queued, or the request fails.
Submit(h) ==
    /\ Here
    /\ HasRead(h)
    /\ Decision(h).kind # "answer"
    /\ task' = IF Decision(h).kind = "calls" /\ Run(chain, Decision(h).calls) # {}
               THEN Left(h, "queued", Decision(h).calls)
               ELSE Left(h, "rejected", <<>>)
    /\ UNCHANGED <<chain, moves>>

\* The user operation is included: executeBatch succeeds or reverts as one.
Mine(h) ==
    /\ Here
    /\ task[h].stage \in {"queued", "mined", "reverted"}
    /\ task[h].runs < MaxRuns
    /\ LET after == Run(chain, task[h].result)
           done == [task EXCEPT ![h].runs = @ + 1,
                                ![h].stage = IF after = {} THEN "reverted" ELSE "mined"]
       IN \/ /\ after = {}
             /\ chain' = chain
             /\ task' = done
          \/ /\ chain' \in after
             /\ task' = IF chain' = chain THEN done ELSE Overtaken(done, "wallet")
    /\ UNCHANGED moves

Move ==
    /\ Here
    /\ moves < MaxMoves
    /\ moves' = moves + 1
    /\ chain' \in Moves(chain)
    /\ task' = Overtaken(task, "market")

Next ==
    \/ \E h \in Handlers :
          Begin(h) \/ ReadNext(h) \/ Answer(h) \/ Simulate(h) \/ Submit(h) \/ Mine(h)
    \/ Move

\* Vocabulary of the properties.
Asked(h, ops) == task[h].stage # "idle" /\ task[h].req.op \in ops
Executed(h) == task[h].stage # "idle" /\ task'[h].runs > task[h].runs
Succeeded(h) == Executed(h) /\ task'[h].stage = "mined"
\* What has happened to the chain since the handler began to read it.
Since(h) == task[h].since
Fresh(h) == Since(h) = "nothing"
=============================================================================
