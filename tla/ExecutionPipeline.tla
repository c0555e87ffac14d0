-------------------------- MODULE ExecutionPipeline --------------------------
(***************************************************************************)
(* The execution pipeline of one platform process: handle_execute of       *)
(* src/api/services/mod.rs for every request, the workers of module        *)
(* Worker, and the process itself, which may crash at any await and, when  *)
(* started again, runs the recovery of src/main.rs before it serves.       *)
(* Redis, PostgreSQL and the chain survive the crash.                      *)
(***************************************************************************)
EXTENDS Worker, FiniteSets

CONSTANTS
    Backlog,      \* payloads an earlier release left in the main list
    MaxCrashes,   \* process crashes in one behaviour
    MaxPanics     \* panics of a worker loop in one behaviour

VARIABLES
    call,         \* call[r]: the await handle_execute of r is at
    phase,        \* what the process is doing
    bootWid,      \* the worker id whose list start-up recovery is draining
    crashes,
    panics

processVars == <<phase, bootWid, crashes, panics>>

vars == <<faults, queueVars, storeVars, chainVars, workerVars, call, processVars>>

\* The awaits of handle_execute after the row is requested.
Handling == {"simulate", "record_failure", "record_estimate", "enqueue", "mark_queued"}

Call == {"new", "accepted", "rejected", "error"} \cup Handling

BacklogOf(r) == PositionsOf(r, Backlog)

ASSUME PipelineAssumption ==
    /\ Backlog \in Seq(Payload)
    /\ MaxCrashes \in Nat
    /\ MaxPanics \in Nat
    \* a request has at most one job
    /\ \A r \in Requests : \A i, j \in BacklogOf(r) : i = j

TypeOK ==
    /\ FaultsTypeOK
    /\ QueueTypeOK
    /\ StoreTypeOK
    /\ ChainTypeOK
    /\ WorkerTypeOK
    /\ call \in [Requests -> Call]
    /\ phase \in {"down", "recovering", "serving"}
    /\ bootWid \in WorkerIds
    /\ crashes \in 0..MaxCrashes
    /\ panics \in 0..MaxPanics

\* The process is about to start on empty lists, or on the backlog.
Init ==
    /\ faults = 0
    /\ queue = Backlog
    /\ processing = [w \in WorkerIds |-> <<>>]
    /\ deadLetter = <<>>
    /\ status = [r \in Requests |-> IF BacklogOf(r) # {} THEN "queued" ELSE "absent"]
    /\ txRows = [r \in Requests |-> 0]
    /\ watched = [w \in WorkerIds |-> NoOp]
    /\ orphaned = {}
    /\ executed = [r \in Requests |-> 0]
    /\ undone = [r \in Requests |-> 0]
    /\ pc = [w \in WorkerIds |-> "stopped"]
    /\ held = [w \in WorkerIds |-> NoJob]
    /\ verdict = [w \in WorkerIds |-> "none"]
    /\ runs = [r \in Requests |-> 0]
    /\ events = [r \in Requests |-> <<>>]
    /\ call = [r \in Requests |-> IF BacklogOf(r) # {} THEN "accepted" ELSE "new"]
    /\ phase = "down"
    /\ bootWid = 0
    /\ crashes = 0
    /\ panics = 0
-----------------------------------------------------------------------------
\* handle_execute moves from one await to the next when the command succeeds,
\* and returns its error to the client (`?`) when it fails.
Proceed(r, reply, next) ==
    call' = [call EXCEPT ![r] = IF reply = "ok" THEN next ELSE "error"]

\* Validation passed: INSERT with status Pending.
InsertRequest(r) ==
    /\ call[r] = "new"
    /\ \E reply \in Replies :
          /\ Answer(reply)
          /\ InsertExecutionRequest(r, reply)
          /\ Proceed(r, reply, "simulate")
    /\ UNCHANGED <<queueVars, chainVars, workerVars>>

\* simulate_request succeeds, reports a failing call, or is itself an error.
Simulate(r) ==
    /\ call[r] = "simulate"
    /\ \E next \in {"record_estimate", "record_failure", "error"} :
          call' = [call EXCEPT ![r] = next]
    /\ UNCHANGED <<faults, queueVars, storeVars, chainVars, workerVars>>

RecordFailure(r) ==
    /\ call[r] = "record_failure"
    /\ \E reply \in Replies :
          /\ Answer(reply)
          /\ UpdateExecutionStatus(r, "failed", reply)
          /\ Proceed(r, reply, "rejected")
    /\ UNCHANGED <<queueVars, chainVars, workerVars>>

\* The gas estimate is stored, and the webhook secret loaded if one is needed.
RecordEstimate(r) ==
    /\ call[r] = "record_estimate"
    /\ \E reply \in Replies :
          /\ Answer(reply)
          /\ UpdateExecutionStatus(r, "pending", reply)
          /\ Proceed(r, reply, "enqueue")
    /\ UNCHANGED <<queueVars, chainVars, workerVars>>

\* LPUSH of the first job of r.  From here a worker may take it.
Enqueue(r) ==
    /\ call[r] = "enqueue"
    /\ \E reply \in Replies :
          /\ Answer(reply)
          /\ EnqueueJob([req |-> r, attempt |-> 0, form |-> "current"], reply)
          /\ Proceed(r, reply, "mark_queued")
    /\ UNCHANGED <<storeVars, chainVars, workerVars>>

\* The UPDATE to Queued comes after the LPUSH, whatever the worker did since.
MarkQueued(r) ==
    /\ call[r] = "mark_queued"
    /\ \E reply \in Replies :
          /\ Answer(reply)
          /\ UpdateExecutionStatus(r, "queued", reply)
          /\ Proceed(r, reply, "accepted")
    /\ UNCHANGED <<queueVars, chainVars, workerVars>>

\* The client disconnects and the server drops the handler at its await.
HandlerDropped(r) ==
    /\ call[r] \in Handling
    /\ call' = [call EXCEPT ![r] = "error"]
    /\ UNCHANGED <<faults, queueVars, storeVars, chainVars, workerVars>>

HandlerStep(r) ==
    \/ InsertRequest(r) \/ Simulate(r) \/ RecordFailure(r) \/ RecordEstimate(r)
    \/ Enqueue(r) \/ MarkQueued(r)
-----------------------------------------------------------------------------
\* Start-up: recovery begins with worker id 0.
Boot ==
    /\ phase = "down"
    /\ phase' = "recovering"
    /\ bootWid' = 0
    /\ UNCHANGED <<faults, queueVars, storeVars, chainVars, workerVars, call,
                   crashes, panics>>

\* One LMOVE of start-up recovery; its error ends main.
BootRecovers ==
    /\ phase = "recovering"
    /\ \E reply \in Replies :
          /\ Answer(reply)
          /\ RecoverOne(bootWid, reply)
          /\ phase' = IF reply = "ok" THEN phase ELSE "down"
    /\ UNCHANGED <<storeVars, chainVars, workerVars, call, bootWid, crashes, panics>>

\* Mutants of BootNext: recovery visits one id too many, or one too few.
BootNextOverruns ==
    /\ phase = "recovering"
    /\ processing[bootWid] = <<>>
    /\ bootWid' = bootWid + 1
    /\ UNCHANGED <<faults, queueVars, storeVars, chainVars, workerVars, call,
                   phase, crashes, panics>>

BootNextStopsShort ==
    /\ phase = "recovering"
    /\ processing[bootWid] = <<>>
    /\ IF bootWid + 1 < NumWorkers - 1
       THEN /\ bootWid' = bootWid + 1
            /\ UNCHANGED <<phase, pc>>
       ELSE /\ phase' = "serving"
            /\ pc' = [w \in WorkerIds |-> "idle"]
            /\ UNCHANGED bootWid
    /\ UNCHANGED <<faults, queueVars, storeVars, chainVars, held, verdict, runs,
                   events, call, crashes, panics>>

\* The list of bootWid is empty: the next id, or the supervisors are spawned.
BootNext ==
    /\ phase = "recovering"
    /\ processing[bootWid] = <<>>
    /\ IF bootWid < NumWorkers - 1
       THEN /\ bootWid' = bootWid + 1
            /\ UNCHANGED <<phase, pc>>
       ELSE /\ phase' = "serving"
            /\ pc' = [w \in WorkerIds |-> "idle"]
            /\ UNCHANGED bootWid
    /\ UNCHANGED <<faults, queueVars, storeVars, chainVars, held, verdict, runs,
                   events, call, crashes, panics>>

\* The process dies: every task with it, but no row, list or operation.
Crash ==
    /\ phase # "down"
    /\ crashes < MaxCrashes
    /\ crashes' = crashes + 1
    /\ phase' = "down"
    /\ pc' = [w \in WorkerIds |-> "stopped"]
    /\ held' = [w \in WorkerIds |-> NoJob]
    /\ verdict' = [w \in WorkerIds |-> "none"]
    /\ Abandon(WorkerIds)
    /\ call' = [r \in Requests |-> IF call[r] \in Handling THEN "error" ELSE call[r]]
    /\ UNCHANGED <<faults, queueVars, storeVars, runs, events, bootWid, panics>>

WorkerPanics(w) ==
    /\ panics < MaxPanics
    /\ panics' = panics + 1
    /\ LoopPanics(w)
    /\ UNCHANGED <<call, phase, bootWid, crashes>>

ChainStep ==
    /\ \/ \E w \in WorkerIds, success \in BOOLEAN : IncludeWatched(w, success)
       \/ \E r \in Requests, success \in BOOLEAN : IncludeOrphan(r, success)
       \/ \E r \in Requests : ExpireOrphan(r)
    /\ UNCHANGED <<faults, queueVars, storeVars, workerVars, call, processVars>>

Next ==
    \/ \E r \in Requests :
          /\ phase = "serving"
          /\ HandlerStep(r) \/ HandlerDropped(r)
          /\ UNCHANGED processVars
    \/ \E w \in WorkerIds : WorkerStep(w) /\ UNCHANGED <<call, processVars>>
    \/ \E w \in WorkerIds : WorkerPanics(w)
    \/ ChainStep
    \/ Boot \/ BootRecovers \/ BootNext \/ Crash

Spec == Init /\ [][Next]_vars

\* Tokio keeps polling every ready task and a supervisor or a service manager
\* restarts what died, so no task stops for ever at an await that can return.
\* A client need not call, and nothing is assumed of the chain.
Fairness ==
    /\ \A w \in WorkerIds : WF_vars(WorkerStep(w) /\ UNCHANGED <<call, processVars>>)
    /\ WF_vars(Boot) /\ WF_vars(BootRecovers) /\ WF_vars(BootNext)

FairSpec == Spec /\ Fairness
-----------------------------------------------------------------------------
\* Workers that carry the only trace of a job of r: it has left the
\* processing list and is not pushed yet.
Hands(r) ==
    {w \in WorkerIds : /\ pc[w] \in {"requeue_push", "exhaust_push", "dlq_push"}
                       /\ held[w] # Corrupt
                       /\ held[w].req = r}

\* Every place that has a job of r.
Copies(r) ==
    {<<"queue", 0, i>> : i \in PositionsOf(r, queue)}
    \cup {<<"dead_letter", 0, i>> : i \in PositionsOf(r, deadLetter)}
    \cup (UNION {{<<"processing", w, i>> : i \in PositionsOf(r, processing[w])} :
                    w \in WorkerIds})
    \cup {<<"hand", w, 1>> : w \in Hands(r)}

\* The three kinds of disturbance the run has seen.
Disturbances == crashes + panics

\* A request whose first job the API has pushed, as far as the API knows.
Pushed(r) == call[r] \in {"mark_queued", "accepted"}

\* A dead-letter entry of r that used up its attempts.
DeadLettered(r) ==
    \E i \in PositionsOf(r, deadLetter) : deadLetter[i].attempt >= MaxAttempts

\* What the platform knows when it calls r reverted.
RevertKnown(r) == undone[r] > 0 \/ EchoesRevert
-----------------------------------------------------------------------------
\* As long as no Redis command fails and all payloads are of this release, a
\* job exists at most once over all the lists and the workers' hands, whatever
\* crashes, panics and recoveries happen: re_enqueue_with_bump and move_to_dlq
\* remove before they push, and recovery moves.  (worker/mod.rs:786-857,
\* queue/mod.rs:100-191)
SingleCopy ==
    faults = 0 /\ CurrentForm(Backlog) =>
        \A r \in Requests : \A c, d \in Copies(r) : c = d

\* A job that was pushed and whose outcome is not announced is in some list
\* or hand, unless a command failed or a task died: the loop itself loses no
\* job on any of its paths.  (worker/mod.rs:6-7, queue/mod.rs:13)
UnannouncedJobIsKept ==
    faults + Disturbances = 0 =>
        \A r \in Requests : Pushed(r) /\ events[r] = <<>> => Copies(r) # {}

\* Whatever fails, the last job of a request leaves Redis only when its
\* effect on the chain is decided, when a worker has it in hand to push it
\* back, or when it is a poison pill whose failure was announced.
\* (worker/mod.rs:74-105, 196-208, 786-796)
LastCopyLeavesDecided ==
    [][\A r \in Requests :
          Stored(r) /\ ~Stored(r)' =>
              \/ Decided(r)
              \/ Hands(r)' # {}
              \/ events[r] # <<>> /\ Last(events[r]) = "failed"]_vars

\* The main list has no job with its attempts used up but what the backlog
\* brought, and the dead-letter list no job with attempts left: the bump, the
\* limit and the poison-pill guard agree.  (worker/mod.rs:74, 799-842)
AttemptsWithinLimit ==
    /\ \A r \in Requests : \A i \in PositionsOf(r, queue) :
          queue[i].attempt >= MaxAttempts => BacklogOf(r) # {} /\ runs[r] = 0
    /\ \A r \in Requests : \A i \in PositionsOf(r, deadLetter) :
          deadLetter[i].attempt >= MaxAttempts

\* A crash or panic costs a request one more of each at most: of its
\* MAX_JOB_ATTEMPTS executions, because recovery does not count an attempt, and
\* of its one webhook and one row in transactions, because only a run cut
\* between its outcome and the ack is repeated.  A success told has a row, one
\* for each time it is told at least.
\* (worker/mod.rs:158-208, 798-801, queue/mod.rs:162-191)
DisturbancesCostOneRun ==
    faults = 0 /\ CurrentForm(Backlog) =>
        \A r \in Requests :
            LET told == {i \in DOMAIN events[r] : events[r][i] = "confirmed"}
            IN  /\ runs[r] <= MaxAttempts + Disturbances
                /\ Len(events[r]) <= 1 + Disturbances
                /\ Cardinality(told) <= txRows[r]
                /\ txRows[r] <= 1 + Disturbances

\* Whatever fails, the database or a webhook says confirmed only of a request
\* whose operation was included with success, and reverted only of one whose
\* operation was included and reverted, or whose failure the bundler worded
\* like a revert.  (worker/mod.rs:148-268, erc4337/mod.rs:778-849)
OutcomeIsOnChain ==
    \A r \in Requests :
        /\ status[r] = "confirmed" \/ "confirmed" \in ToSet(events[r]) => executed[r] > 0
        /\ status[r] = "reverted" \/ "reverted" \in ToSet(events[r]) => RevertKnown(r)

\* A request that ran and is called failed in the database or a webhook has
\* used up its attempts and is in the dead-letter list, unless a command
\* failed.  (worker/mod.rs:801-842)
FailureIsDeadLettered ==
    faults = 0 =>
        \A r \in Requests :
            status[r] = "failed" \/ "failed" \in ToSet(events[r]) =>
                runs[r] = 0 \/ DeadLettered(r)

\* However runs are cut and operations abandoned, a request takes effect on
\* the chain at most once per run, and is not called confirmed more often than
\* it succeeded: an operation that outlives its run is not replaced twice and
\* not told twice.  (worker/mod.rs:133-208, erc4337/mod.rs:778-849)
EffectsBounded ==
    \A r \in Requests :
        LET told == {i \in DOMAIN events[r] : events[r][i] = "confirmed"}
        IN  /\ executed[r] + undone[r] <= runs[r]
            /\ Cardinality(told) <= executed[r]

\* A terminal status is overwritten in two ways only: by handle_execute's late
\* UPDATE to Queued, and by the repeated run of a job that a crash, a panic
\* or a failed command left in its list.  (services/mod.rs:519-522,
\* worker/mod.rs:115-126)
TerminalStatusLeft ==
    [][\A r \in Requests :
          status[r] \in Terminal /\ status'[r] # status[r] =>
              \/ call[r] = "mark_queued" /\ status'[r] = "queued"
              \/ faults + Disturbances > 0]_vars
-----------------------------------------------------------------------------
\* A request is being looked after: its job waits or is being processed.
InFlight(r) == PositionsOf(r, queue) # {} \/ InProcessing(r)

\* With no failing command, every job in flight is settled, dead-lettered or
\* (crash in the hand of a worker) lost, but is not left behind: no list is
\* forgotten by workers, supervisors and start-up recovery together.
\* (worker/mod.rs:58, main.rs:100-131, 418-437)
EveryJobLeavesItsLists ==
    CurrentForm(Backlog) => \A r \in Requests : InFlight(r) ~> ~InFlight(r)

\* Every job the API has pushed is answered by a webhook when nothing crashes
\* and no command fails.  (README: "callback", worker/mod.rs:12)
EveryPushIsAnnounced == \A r \in Requests : Pushed(r) ~> events[r] # <<>>
-----------------------------------------------------------------------------
\* What the documentation says, without the conditions above.

\* queue/mod.rs:13 "a job is never silently lost" and worker/mod.rs:6-7.
NoSilentJobLoss ==
    \A r \in Requests : Pushed(r) /\ events[r] = <<>> => Copies(r) # {}

\* README:201-202 draws confirmed, failed and reverted as the ends of the flow
\* and docs/gitbook/workflows/status.md:61 tells agents to poll until then.
TerminalStatusIsFinal ==
    [][\A r \in Requests : status[r] \in Terminal => status'[r] = status[r]]_vars

\* docs/agent-integration/skills.md:484 "Treat `GET /status/:id` as source of
\* truth for terminal result (`confirmed`, `failed`, `reverted`)."
FailedHasNoEffect == \A r \in Requests : status[r] = "failed" => executed[r] = 0
=============================================================================
