-------------------------- MODULE TradingProtocols --------------------------
(***************************************************************************)
(* The trading adapters at work for one smart wallet, like the lending     *)
(* ones in LendingProtocols: concurrent requests to one protocol, with     *)
(* everything that can happen between what a handler has read and the      *)
(* execution of what it compiled.                                          *)
(***************************************************************************)
EXTENDS Integers, Sequences, FiniteSets

CONSTANTS Handlers, MaxMoves, MaxRuns,
          UniswapRequests, BalancerRequests, GmxRequests,
          UniswapChains, BalancerChains, GmxChains          \* initial chains

VARIABLES protocol, chain, task, moves

Uniswap == INSTANCE UniswapV4
Balancer == INSTANCE BalancerV3
Gmx == INSTANCE GmxV2

OnUniswap == INSTANCE ProtocolActions WITH
    Protocol <- "uniswap", Requests <- UniswapRequests, Valid <- Uniswap!Valid,
    Reads <- Uniswap!Reads, Read <- Uniswap!Read, Decide <- Uniswap!Decide,
    Call <- Uniswap!Call, Moves <- Uniswap!Moves
OnBalancer == INSTANCE ProtocolActions WITH
    Protocol <- "balancer", Requests <- BalancerRequests, Valid <- Balancer!Valid,
    Reads <- Balancer!Reads, Read <- Balancer!Read, Decide <- Balancer!Decide,
    Call <- Balancer!Call, Moves <- Balancer!Moves
OnGmx == INSTANCE ProtocolActions WITH
    Protocol <- "gmx", Requests <- GmxRequests, Valid <- Gmx!Valid, Reads <- Gmx!Reads,
    Read <- Gmx!Read, Decide <- Gmx!Decide, Call <- Gmx!Call, Moves <- Gmx!Moves

ASSUME UniswapAssumption ==
    /\ \A r \in UniswapRequests : Uniswap!IsRequest(r)
    /\ UniswapChains \subseteq Uniswap!States

\* The tokens of the pools are fixed.
ASSUME BalancerAssumption ==
    /\ \A r \in BalancerRequests : Balancer!IsRequest(r)
    /\ \A c \in BalancerChains :
         c \in Balancer!States([p \in Balancer!PoolNames |-> c.pool[p].tokens])

GmxParties == UNION {DOMAIN c.owned : c \in GmxChains}

\* At first nothing of the wallet's is under way to or with somebody else.
ASSUME GmxAssumption ==
    /\ \A r \in GmxRequests : r.op \in Gmx!Operations
    /\ \A c \in GmxChains :
         /\ c \in Gmx!States(GmxParties, {"wallet"})
         /\ \A v \in Gmx!Vaults : c.sent[v] = Gmx!Nothing
         /\ c.taken = Gmx!Nothing
         /\ \A o \in GmxParties \ {"wallet"} : c.owned[o] = Gmx!Nothing

vars == <<protocol, chain, task, moves>>

Init ==
    /\ \/ protocol = "uniswap" /\ chain \in UniswapChains
       \/ protocol = "balancer" /\ chain \in BalancerChains
       \/ protocol = "gmx" /\ chain \in GmxChains
    /\ task = [h \in Handlers |-> OnUniswap!Idle]
    /\ moves = 0

Next ==
    \/ OnUniswap!Next
    \/ OnBalancer!Next
    \/ OnGmx!Next

Spec == Init /\ [][Next]_vars

-----------------------------------------------------------------------------
(* Vocabulary of the properties. *)

Busy == {h \in Handlers : task[h].stage # "idle"}
Request(h) == task[h].req
Fresh(h) == OnUniswap!Fresh(h)
\* The request leaves the choice of the pool to the adapter.
NamesNoPool(r) == r.pool = ""
Swapping == {"swap", "quote"}
Asked(h, p, ops) == protocol = p /\ OnUniswap!Asked(h, ops)
\* In this step a batch of protocol p succeeds that h compiled for one of ops.
Did(h, p, ops) == Asked(h, p, ops) /\ OnUniswap!Succeeded(h)
DidSwap(h) == Did(h, "uniswap", {"swap"}) \/ Did(h, "balancer", {"swap"})

\* What h, which has read everything for one of ops, is about to do, as a set:
\* empty when it is not there or rejects.
Accepted(h, p, ops) ==
    IF ~Asked(h, p, ops) THEN {}
    ELSE {d \in CASE p = "uniswap" -> {OnUniswap!Decision(g) : g \in {x \in {h} : OnUniswap!HasRead(x)}}
                  [] p = "balancer" -> {OnBalancer!Decision(g) : g \in {x \in {h} : OnBalancer!HasRead(x)}}
                  [] p = "gmx" -> {OnGmx!Decision(g) : g \in {x \in {h} : OnGmx!HasRead(x)}} :
            d.kind # "rejected"}
Runs(c, calls) ==
    CASE protocol = "uniswap" -> OnUniswap!Run(c, calls) # {}
      [] protocol = "balancer" -> OnBalancer!Run(c, calls) # {}
      [] protocol = "gmx" -> OnGmx!Run(c, calls) # {}

\* The call of a batch that swaps.
SwapCall(calls) ==
    CHOOSE k \in {calls[i] : i \in DOMAIN calls} : k.fn \in {"execute", "swap"}

\* The pools a swap may be made in and what each of them quotes, by the chain.
UniswapQuotes(c, r) ==
    {[pool |-> p, amount |-> Uniswap!Quote(c, p, r.token_in, r.kind, Uniswap!Amount(r))] :
        p \in {q \in c.listed.pools : r.include_hooked \/ ~c.pool[q].hooked}}
BalancerQuotes(c, r) ==
    {[pool |-> p, amount |-> Balancer!SwapQuote(c, p, r)] :
        p \in {q \in (IF c.api.ok THEN c.api.pools ELSE {})
                     \cup (IF c.indexed.ok THEN c.indexed.pools ELSE {}) :
                 LET s == c.pool[q] IN s.registered /\ s.initialized /\ ~s.paused /\ ~s.recovery}}

\* Orders of GMX that send the vault a collateral they are not credited with.
Decreasing(r) == r.op = "order" /\ r.type \in Gmx!Decreases
\* What such an order has left in a vault.
Unrecorded(r, vault, token) ==
    IF Decreasing(r) /\ vault = "order" /\ token = r.token /\ token # "ETH" THEN r.amount.whole ELSE 0
Strayed == {Request(h).token : h \in {g \in Busy : Decreasing(Request(g)) /\ task[g].runs > 0}}

(* A swap that takes effect, however late and however the market moved,    *)
(* takes or gives exactly the amount of the request and keeps its limit;   *)
(* and nothing the client gave a deadline takes effect after it: a swap by *)
(* the router's own deadline, adding liquidity by the expiry of its        *)
(* permits (compile_swap, encode_swap_exact_in and _out,                   *)
(* encode_router_execute, compile_add_liquidity).                          *)
ExecutionsKeepTheirTerms ==
    [][\A h \in Handlers :
         LET r == Request(h)
             paid == chain.balance[r.token_in] - chain'.balance[r.token_in]
             got == chain'.balance[r.token_out] - chain.balance[r.token_out]
             limit == r.limit.whole
         IN /\ DidSwap(h) =>
                 IF r.kind = "exact_in"
                 THEN paid = r.amount.whole /\ (r.limit # Uniswap!Absent => got >= limit)
                 ELSE got = r.amount.whole /\ (r.limit # Uniswap!Absent => paid <= limit)
            /\ DidSwap(h) \/ Did(h, "balancer", {"add"}) =>
                 r.deadline = Uniswap!NoDeadline \/ chain.now <= r.deadline]_vars

(* The slippage of a swap without an explicit limit is the tolerance its   *)
(* batch has: on any chain one move away the batch runs when the quote is  *)
(* within it, and a quote beyond it by a whole unit stops the batch        *)
(* (limit_from_quote).                                                     *)
SlippageIsTheTolerance ==
    \A h \in Handlers, p \in {"uniswap", "balancer"} : \A d \in Accepted(h, p, {"swap"}) :
        Fresh(h) /\ Request(h).limit = Uniswap!Absent =>
            LET r == Request(h)
                k == SwapCall(d.calls)
                quote(c) == IF p = "uniswap"
                            THEN Uniswap!Quote(c, k.pool, r.token_in, r.kind, k.amount)
                            ELSE Balancer!SwapQuote(c, k.pool, r)
                near == {c \in {chain} \cup (IF p = "uniswap" THEN Uniswap!Moves(chain)
                                            ELSE Balancer!Moves(chain)) :
                            /\ c.now <= k.deadline
                            /\ c.pool[k.pool].initialized
                            /\ p = "balancer" => ~c.pool[k.pool].paused}
            IN \A before \in {quote(chain)}, c \in near :
               \A after \in {quote(c)} \ {Uniswap!Err}, runs \in {Runs(c, d.calls)} :
                 chain.balance[r.token_in] >= Uniswap!MaxInput(r, k.limit) =>
                    IF r.kind = "exact_in"
                    THEN /\ 10 * after >= before * (10 - r.slippage) => runs
                         /\ runs => 10 * (after + 1) > before * (10 - r.slippage)
                    ELSE /\ 10 * after <= before * (10 + r.slippage) => runs
                         /\ runs => 10 * (after - 1) < before * (10 + r.slippage)

(* The pool chosen for a client is the best one on the chain, whatever     *)
(* order the discovered pools came in: no other gives more for an exact    *)
(* input or takes less for an exact output, and among equals the choice is *)
(* always the same (select_best_pool, quote_is_better).                    *)
BestPoolIsChosen ==
    \A h \in Handlers, p \in {"uniswap", "balancer"} : \A d \in Accepted(h, p, {"quote"}) :
        Fresh(h) /\ NamesNoPool(Request(h)) =>
            LET r == Request(h)
                best == d.answer
                quotes == {q \in (IF p = "uniswap" THEN UniswapQuotes(chain, r)
                                  ELSE BalancerQuotes(chain, r)) : q.amount \notin {0, Uniswap!Err}}
                ties == {q \in quotes : q.amount = best.quoted}
                gas(q) == IF p = "uniswap" THEN chain.pool[q.pool].gas ELSE 0
            IN /\ [pool |-> best.pool, amount |-> best.quoted] \in quotes
               /\ \A q \in quotes : IF r.kind = "exact_in" THEN q.amount <= best.quoted
                                    ELSE q.amount >= best.quoted
               /\ \A q \in ties : q.pool # best.pool =>
                    \/ gas(q) > gas(best)
                    \/ gas(q) = gas(best) /\ Uniswap!Rank(q.pool) > Uniswap!Rank(best.pool)

(* A batch that succeeds closes what it opened: no allowance, no permit    *)
(* with an amount, nothing of the wallet in the router, and in the vaults  *)
(* of GMX nothing that was not there before.  The one exception is the     *)
(* collateral of an order that decreases a position: compile_create_order  *)
(* sends it like that of any order, and GMX does not credit it.            *)
NothingIsLeftBehind ==
    [][\A h \in Handlers :
         /\ DidSwap(h) \/ Did(h, "balancer", {"add"}) =>
              \A k \in {task[h].result[i] : i \in DOMAIN task[h].result} :
                 k.fn = "permit" => chain'.allowance[k.token] = 0 /\ chain'.permit[k.token].amount = 0
         /\ Did(h, "uniswap", {"swap"}) => chain'.router = chain.router
         /\ Did(h, "balancer", {"remove"}) => chain'.allowance[Request(h).pool] = 0
         /\ Did(h, "gmx", {"order", "deposit", "withdrawal"}) =>
              \A v \in Gmx!Vaults, t \in DOMAIN Gmx!Nothing :
                 chain'.sent[v][t] \in {0, chain.sent[v][t] + Unrecorded(Request(h), v, t)}]_vars

(* What an adapter accepts can be executed while nothing moves: its guards *)
(* refuse what the wallet cannot pay, except for the amounts they do not   *)
(* look at (the input of a swap, the liquidity, the fee of GMX) and for a  *)
(* GMX deposit of one token twice.                                         *)
AcceptedBatchesRun ==
    \A h \in Handlers, p \in {"uniswap", "balancer", "gmx"} :
    \A d \in Accepted(h, p, {"swap", "add", "remove", "order", "deposit", "withdrawal"}) :
        LET r == Request(h)
            pays == CASE r.op = "swap" ->
                           LET k == SwapCall(d.calls)
                           IN chain.balance[k.token_in] >= Uniswap!MaxInput(r, k.limit)
                      [] r.op = "add" ->
                           \A i \in DOMAIN r.amounts :
                              chain.balance[r.amounts[i].token] >= r.amounts[i].amount.whole
                      [] r.op = "remove" -> TRUE
                      [] p = "gmx" -> /\ chain.owned.wallet.ETH >= r.fee.whole
                                      /\ r.op = "deposit" => r.token # r.token2
        IN Fresh(h) /\ pays => Runs(chain, d.calls)

(* What the wallet sends to GMX comes back to it, executed or cancelled,   *)
(* unless a request names somebody else (encode_create_order and the other *)
(* encoders, which fill in the receivers that are left out).  Another      *)
(* account's request takes nothing of it but the collateral of orders that *)
(* decrease a position, which is lost this way.                            *)
FundsReachOnlyTheNamed ==
    protocol = "gmx" =>
        LET named == {"wallet"} \cup
                     UNION {{Request(h).receiver, Request(h).cancellation_receiver} : h \in Busy}
        IN /\ \A o \in DOMAIN chain.owned \ named : chain.owned[o] = Gmx!Nothing
           /\ \A t \in DOMAIN Gmx!Nothing \ Strayed : chain.taken[t] = 0
=============================================================================
