------------------------------ MODULE Services ------------------------------
(***************************************************************************)
(* The services around the execution pipeline, each with the processes,    *)
(* tables and remote ends it depends on: submission of UserOperations,     *)
(* discovery of pools, the paymaster key, issuance of API keys, delivery   *)
(* of webhooks.  They share no state, so a behaviour is of one of them and *)
(* the others keep their initial values.                                   *)
(***************************************************************************)
EXTENDS Integers, Sequences, FiniteSets

CONSTANTS
    \* UserOpSubmission
    Attempts, Half, Estimates, Prices, Rejections,
    Grace, Window, Timeout, SubmissionTime,
    \* PoolDiscovery
    Callers, MaxPools, PageSize, MaxPages, TTL, HttpTimeout, DiscoveryTime,
    \* PlatformKey
    Processes, MaxGenerated,
    \* KeyIssuance
    Visitors, Limit, WindowSecs, Second, IssuanceTime, MaxRequests,
    \* WebhookDelivery
    MaxEvents, MaxRetries

ASSUME ServicesAssumption ==
    /\ {Half, Grace, Timeout, SubmissionTime} \subseteq Nat /\ Window \in Nat \ {0}
    /\ {PageSize, MaxPages} \subseteq Nat \ {0}
    /\ {MaxPools, TTL, HttpTimeout, DiscoveryTime} \subseteq Nat
    /\ MaxGenerated \in Nat
    /\ {Limit, WindowSecs, IssuanceTime, MaxRequests} \subseteq Nat /\ Second \in Nat \ {0}
    /\ MaxEvents \in Nat /\ MaxRetries \in Nat \ {0}

\* The first conjunct is arithmetic that the provers do not know of ^.  Gas and
\* fees fit in 128 bits, which pack_two_uint128 asks of its callers
\* (erc4337/mod.rs:1082); a text names numbers that parse as a U256.
ASSUME WidthsAssumption ==
    /\ 2 ^ Half \in Nat \ {0} /\ 2 ^ (2 * Half) \in Nat /\ 2 ^ Half <= 2 ^ (2 * Half)
    /\ \A e \in Estimates : {e.call, e.verification} \subseteq 0..(2 ^ Half - 1) /\ e.pvg \in Nat
    /\ \A p \in Prices : /\ {p.max, p.priority, p.base} \subseteq Nat
                         /\ p.max < 2 ^ Half /\ 2 * p.base + p.priority < 2 ^ Half
    /\ \A text \in Rejections : /\ text.numbers \in Seq(0..(2 ^ (2 * Half) - 1))
                                /\ text.before \in Nat

VARIABLES
    part,         \* which of the services this behaviour is of
    attempt, nonce, deployed, mempool, receipts, submissionNow,
    service, block, born, cache, caller, discoveryNow,
    signer, boot, generated, trusted,
    counter, visitor, issued, promises, requests, issuanceNow,
    task, received, clock

Submission == INSTANCE UserOpSubmission WITH MaxTime <- SubmissionTime, now <- submissionNow
Discovery == INSTANCE PoolDiscovery WITH MaxTime <- DiscoveryTime, now <- discoveryNow
Key == INSTANCE PlatformKey
Issuance == INSTANCE KeyIssuance WITH MaxTime <- IssuanceTime, now <- issuanceNow
Webhook == INSTANCE WebhookDelivery

submission == <<attempt, nonce, deployed, mempool, receipts, submissionNow>>
discovery == <<service, block, born, cache, caller, discoveryNow>>
key == <<signer, boot, generated, trusted>>
issuance == <<counter, visitor, issued, promises, requests, issuanceNow>>
webhook == <<task, received, clock>>

vars == <<part, submission, discovery, key, issuance, webhook>>

Init ==
    /\ part \in {"submission", "discovery", "key", "issuance", "webhook"}
    /\ Submission!Init /\ Discovery!Init /\ Key!Init /\ Issuance!Init /\ Webhook!Init
    /\ part # "discovery" => service = "uniswap"

SubmissionStep == part = "submission" /\ Submission!Next
                  /\ UNCHANGED <<part, discovery, key, issuance, webhook>>
DiscoveryStep == part = "discovery" /\ Discovery!Next
                 /\ UNCHANGED <<part, submission, key, issuance, webhook>>
KeyStep == part = "key" /\ Key!Next
           /\ UNCHANGED <<part, submission, discovery, issuance, webhook>>
IssuanceStep == part = "issuance" /\ Issuance!Next
                /\ UNCHANGED <<part, submission, discovery, key, webhook>>
WebhookStep == part = "webhook" /\ Webhook!Next
               /\ UNCHANGED <<part, submission, discovery, key, issuance>>

Next == SubmissionStep \/ DiscoveryStep \/ KeyStep \/ IssuanceStep \/ WebhookStep

Spec == Init /\ [][Next]_vars
-----------------------------------------------------------------------------
(* Everything the platform hands to the bundler, the retried operation     *)
(* too, is signed as it is: the paymaster's signature covers the final gas *)
(* fields, the owner's covers the paymaster data, and neither is from the  *)
(* draft or from the first submission; and a chain whose clock is up to    *)
(* the grace behind takes it at once                                       *)
(* (sign_user_operation_for_submission, worker/mod.rs:587-620).            *)
SubmittedIsCovered ==
    \A a \in Attempts : \A op \in attempt[a].sent :
        \A t \in (op.paymaster.until - Window - Grace)..op.paymaster.until :
            t >= 0 => Submission!Covered(op, t)

(* The bundler is sent the gas limits it estimated itself and fees that    *)
(* leave the priority fee below the maximum and the maximum at twice the   *)
(* base fee and the priority: nothing is exchanged or cut off between the  *)
(* packed form that is signed and the form that is sent                    *)
(* (pack_two_uint128, to_rpc_user_operation, erc4337/mod.rs:743,1084).     *)
BundlerSeesTheEstimate ==
    \A a \in Attempts : attempt[a].at \in {"send", "wait"} =>
        LET rpc == Submission!Rpc(attempt[a].op)
            e == attempt[a].answer.estimate
            p == attempt[a].answer.prices
        IN /\ rpc.call = e.call /\ rpc.verification = e.verification
           /\ rpc.pvg >= e.pvg
           /\ rpc.priority = p.priority /\ rpc.priority <= rpc.max
           /\ rpc.max >= p.max /\ rpc.max >= 2 * p.base + p.priority

(* An attempt's two submissions are for one nonce, so its job takes effect *)
(* once at most even if the bundler kept the operation it refused; and the *)
(* second is only made when the first was below the minimum the bundler    *)
(* named, and meets it (worker/mod.rs:560-620, 698-706).                   *)
AttemptRunsOnce ==
    \A a \in Attempts :
        /\ Cardinality({r \in receipts :
              \E op \in attempt[a].sent : r.hash = Submission!OpHash(op)}) <= 1
        /\ attempt[a].at \in {"sign", "send", "wait"} /\ attempt[a].asked # Submission!NoData =>
             /\ attempt[a].op.pvg >= attempt[a].asked[1]
             /\ \A first \in attempt[a].sent \ {attempt[a].op} :
                  first.pvg < attempt[a].asked[1]

(* A worker reports what happened to its own operation: when two workers   *)
(* of a wallet race for a nonce, the loser never takes the winner's        *)
(* receipt for its own (wait_for_receipt, erc4337/mod.rs:778-849).         *)
ReportsAreOwn ==
    \A a \in Attempts : attempt[a].result \in {"succeeded", "reverted"} =>
        \E r \in receipts, op \in attempt[a].sent :
            /\ r.hash = Submission!OpHash(op)
            /\ r.success = (attempt[a].result = "succeeded")

(* An operation that still has the wallet's nonce when it is about to be   *)
(* sent carries init code exactly if the wallet is not deployed, whatever  *)
(* the wallet's other operation did between the reads                      *)
(* (build_user_op_draft reads the nonce before the code).                  *)
InitCodeFitsTheNonce ==
    \A a \in Attempts :
        attempt[a].at \in {"estimate", "sign", "send"} /\ attempt[a].op.nonce = nonce
            => attempt[a].op.init = ~deployed

(* What an attempt gave up on cannot take effect for ever: no operation is *)
(* executed later than the paymaster's window after its submission         *)
(* (validity_window_secs, paymaster/mod.rs:161-168).                       *)
EffectsEndWithTheWindow ==
    [][\A a \in Attempts :
         (\E r \in receipts' \ receipts : \E op \in attempt[a].sent : r.hash = Submission!OpHash(op))
            => submissionNow <= attempt[a].since + Window]_vars
-----------------------------------------------------------------------------
(* What a cache lacks, unless the index answered with an empty refusal: no *)
(* pool that existed when the discovery began, however the pages were cut  *)
(* and whatever was created between them; and, where Uniswap answers from  *)
(* it, none older than the TTL and the time limit of one request (the      *)
(* other clients have no limit and promise nothing like it)                *)
(* (fetch_registered_pools_from_blockscout, fetch_markets_from_blockscout, *)
(* fetch_pool_keys_from_blockscout).                                       *)
ListingsAreComplete ==
    cache.known /\ ~cache.refused =>
        /\ 1..cache.began \subseteq cache.pools
        /\ service = "uniswap" /\ Discovery!Young(cache) =>
             \A p \in Discovery!Created \ cache.pools : born[p] + TTL + HttpTimeout > discoveryNow

(* A failing index costs a process nothing it knows: a request fails for   *)
(* the index only when there was no listing as it began, and a pool once   *)
(* listed is listed until a discovery that began before it was created, or *)
(* was refused, replaces the entry (the Err arms of the three discover     *)
(* functions).                                                             *)
KnownPoolsAreKept ==
    [][/\ \A p \in cache.pools \ cache'.pools : cache'.refused \/ cache'.began < p
       /\ \A c \in Callers : caller'[c].at = "failed" => ~caller'[c].knew]_vars
-----------------------------------------------------------------------------
(* The platform keys are a register that is written once: instances that   *)
(* boot together, fail and boot again all sign with the key the operator   *)
(* is told to register (main.rs:308-352, db/mod.rs:250-284).               *)
Register == INSTANCE WriteOnce WITH
    Names <- {"paymaster_signer"}, Values <- 1..MaxGenerated, NoValue <- 0,
    chosen <- [n \in {"paymaster_signer"} |-> signer],
    learned <- {<<"paymaster_signer", k>> : k \in trusted}
KeyIsWrittenOnce == Register!Spec

(* In any period of one window a client gets at most twice the limit, the  *)
(* worst of two windows that meet, with slow inserts counted when they     *)
(* were let in.  A client that was refused and comes back after            *)
(* retry_after finds that window over, up to the half second by which      *)
(* Redis rounds: more requests do not prolong it                           *)
(* (enforce_api_key_issuance_limit, routes/mod.rs:1849-1890).              *)
IssuanceKeepsItsWindow ==
    /\ Limit > 0 => \A t \in 0..IssuanceTime :
         Cardinality({k \in issued : t <= k.since /\ k.since < t + Issuance!WindowLength}) <= 2 * Limit
    /\ \A p \in promises : 2 * (issuanceNow - p.back) >= Second =>
         counter.count = 0 \/ counter.since > p.refused

(* No event is dropped before its attempts are used up: it has arrived, is *)
(* on its way, was tried MAX_RETRIES times or went down with the process,  *)
(* and never arrives more often than that.  A receiver that keeps the      *)
(* event with the latest completed_at ends with the last outcome of the    *)
(* request, in whatever order retries deliver them (deliver,               *)
(* webhook/mod.rs:96; fire_webhook, worker/mod.rs:739-777).                *)
EventsAreAccounted ==
    /\ \A e \in Webhook!Event :
         LET copies == {x \in received : x.event = e}
         IN /\ Cardinality(copies) <= MaxRetries
            /\ task[e].at = "delivered" => copies # {}
            /\ task[e].at = "exhausted" => task[e].tries = MaxRetries
    /\ \A x, y \in received : x.event < y.event <=> x.completed < y.completed
=============================================================================
