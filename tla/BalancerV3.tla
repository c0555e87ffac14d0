------------------------------ MODULE BalancerV3 ------------------------------
(***************************************************************************)
(* The Balancer V3 adapter: swaps and quotes in a pool that is named or in *)
(* the best one of two discovery sources, and adding and removing          *)
(* liquidity.  A pool's BPT is a token named like the pool.  The pools,    *)
(* the router, the explorer and what the sources list (PoolDiscovery) are  *)
(* external.                                                               *)
(***************************************************************************)
EXTENDS Swaps

MaxAddTokens == 3                   \* MAX_ADD_LIQUIDITY_INPUT_TOKENS

\* amounts is amounts_in or min_amounts_out (<<>>: none), bpt is
\* min_bpt_amount_out_raw or bpt_amount_in_raw, order the one in which the
\* discovered pools come out of their map.
Blank == [op |-> "swap", agent_id |-> "agent", chain |-> "ethereum", pool |-> "",
          token_in |-> "A", token_out |-> "B", kind |-> "exact_in",
          amount |-> Number(20, <<>>), limit |-> Absent, slippage |-> 1,
          deadline |-> NoDeadline, order |-> PoolOrder, amounts |-> <<>>, bpt |-> Absent]
Entry(token, n) == [token |-> token, amount |-> Number(n, <<>>)]

Swapping == {"swap", "quote"}
Adding == {"add", "add_quote"}
Removing == {"remove", "remove_quote"}
Operations == Swapping \cup Adding \cup Removing \cup {"pool", "pools", "balances"}
Tokens == {"A", "B"}

\* What can be parsed as a request; every pool of the chain may be discovered.
IsRequest(r) ==
    /\ r.op \in Operations
    /\ {r.token_in, r.token_out} \subseteq Tokens
    /\ r.pool \in PoolNames \cup {""}
    /\ r.kind \in {"exact_in", "exact_out"} /\ r.slippage \in Nat /\ r.deadline \in Int
    /\ r.order \in Seq(PoolNames) /\ Range(r.order) = PoolNames
    /\ r.amounts \in Seq(Range(r.amounts))

ParsePositive(text) == LET n == ParseRaw(text) IN IF n = 0 THEN Err ELSE n
Amount(r) == ParsePositive(r.amount)

ValidSwap(r) ==
    /\ r.token_in # r.token_out
    /\ Amount(r) # Err
    /\ r.kind = "exact_in" => Amount(r) <= MaxPermit
    /\ r.limit # Absent => /\ ParsePositive(r.limit) # Err
                           /\ r.kind = "exact_out" => ParsePositive(r.limit) <= MaxPermit
    /\ ValidDeadline(r.deadline)

ValidAmounts(entries) ==
    /\ \A i, j \in DOMAIN entries : entries[i].token = entries[j].token => i = j
    /\ \A i \in DOMAIN entries : ParsePositive(entries[i].amount) # Err

ValidAdd(r) ==
    /\ Len(r.amounts) \in 1..MaxAddTokens
    /\ ValidAmounts(r.amounts)
    /\ \A i \in DOMAIN r.amounts : ParsePositive(r.amounts[i].amount) <= MaxPermit
    /\ r.bpt # Absent => ParsePositive(r.bpt) # Err
    /\ ValidDeadline(r.deadline)

\* <<>> stands for no min_amounts_out; a given but empty list, which is
\* rejected, is not among the requests.
ValidRemove(r) == ParsePositive(r.bpt) # Err /\ ValidAmounts(r.amounts)

Valid(r) ==
    /\ r.chain = "ethereum"
    /\ r.op \notin {"pool", "pools"} => r.agent_id # ""
    /\ r.op \in Swapping \cup Adding \cup Removing => r.slippage <= Bps
    /\ r.op \notin Swapping \cup {"pools"} => r.pool # ""
    /\ r.op = "pools" => r.token_in # r.token_out
    /\ r.op \in Swapping => ValidSwap(r)
    /\ r.op \in Adding => ValidAdd(r)
    /\ r.op \in Removing => ValidRemove(r)

-----------------------------------------------------------------------------
(* The pools: what load_pool_state reads of one, with the quote of a swap  *)
(* in it, and the choice of the best.                                      *)

Open(s) == s.registered /\ s.initialized /\ ~s.paused /\ ~s.recovery
OpenForSwap(r, s) == Open(s) /\ {r.token_in, r.token_out} \subseteq Range(s.tokens)

\* The union of the two sources; either one suffices.
DiscoverPairPools(r, api, registered, states) ==
    LET listed == (IF api.ok THEN api.pools ELSE {})
                  \cup (IF registered.ok THEN registered.pools ELSE {})
    IN {s.pool : s \in {t \in Range(states) :
                          t.pool \in listed /\ {r.token_in, r.token_out} \subseteq Range(t.tokens)}}

NoPool == [pool |-> "", amount |-> Err]

Replaces(kind, s, best) ==
    \/ best = NoPool
    \/ IF kind = "exact_in" THEN s.amount > best.amount ELSE s.amount < best.amount
    \/ s.amount = best.amount /\ Rank(s.pool) < Rank(best.pool)

SelectBestPool(r, candidates, states) ==
    FoldLeft(LAMBDA best, s :
               IF /\ s.pool \in candidates /\ OpenForSwap(r, s)
                  /\ s.amount \notin {0, Err} /\ Replaces(r.kind, s, best)
               THEN [pool |-> s.pool, amount |-> s.amount] ELSE best,
             NoPool, states)

SelectedPool(r, seen) ==
    IF r.pool # ""
    THEN IF OpenForSwap(r, seen[1]) THEN [pool |-> r.pool, amount |-> seen[1].amount] ELSE NoPool
    ELSE LET states == SubSeq(seen, 3, Len(seen) - 1)
         IN SelectBestPool(r, DiscoverPairPools(r, seen[1], seen[2], states), states)

-----------------------------------------------------------------------------
(* The calls. *)

SwapSingleToken(r, pool, limit, deadline) ==
    [fn |-> "swap", pool |-> pool, token_in |-> r.token_in, token_out |-> r.token_out,
     kind |-> r.kind, amount |-> Amount(r), limit |-> limit, deadline |-> deadline]
AddLiquidityUnbalanced(pool, amounts, min) ==
    [fn |-> "add", pool |-> pool, amounts |-> amounts, min |-> min]
RemoveLiquidityProportional(pool, n, mins) ==
    [fn |-> "remove", pool |-> pool, amount |-> n, mins |-> mins]

MaxInput(r, limit) == IF r.kind = "exact_in" THEN Amount(r) ELSE limit

CompileSwap(r, pool, limit, deadline) ==
    PermitBatch(r.token_in, MaxInput(r, limit), deadline,
                SwapSingleToken(r, pool, limit, deadline))

\* The router's call has no deadline: the permits carry it.
CompileAddLiquidity(r, tokens, amounts, min, deadline) ==
    LET opening == [i \in DOMAIN tokens |->
                      IF amounts[i] = 0 THEN <<>>
                      ELSE <<Approve(tokens[i], 0), Approve(tokens[i], amounts[i]),
                             Permit(tokens[i], amounts[i], deadline)>>]
        closing == [i \in DOMAIN tokens |->
                      IF amounts[i] = 0 THEN <<>>
                      ELSE <<Permit(tokens[i], 0, deadline), Approve(tokens[i], 0)>>]
    IN FlattenSeq(opening) \o <<AddLiquidityUnbalanced(r.pool, amounts, min)>> \o FlattenSeq(closing)

CompileRemoveLiquidity(r, mins) ==
    LET n == ParsePositive(r.bpt)
    IN <<Approve(r.pool, 0), Approve(r.pool, n),
         RemoveLiquidityProportional(r.pool, n, mins), Approve(r.pool, 0)>>

-----------------------------------------------------------------------------
(* The handlers.  Every read of a pool is its state and, for a swap, its   *)
(* quote; the clock is read last.                                          *)

Reads(r) ==
    CASE r.op \in Swapping ->
           (IF r.pool = "" THEN <<"api", "registered">> \o r.order ELSE <<r.pool>>) \o <<"clock">>
      [] r.op \in Adding -> <<r.pool, "add_quote", "clock">>
      [] r.op \in Removing -> <<r.pool, "bpt_balance", "remove_quote">>
      [] r.op = "pools" -> <<"api", "registered">> \o r.order
      [] r.op = "pool" -> <<r.pool>>
      [] r.op = "balances" -> <<r.pool, "balances">>

Rejected == [kind |-> "rejected"]
Answered(answer) == [kind |-> "answer", answer |-> answer]
Calls(calls) == [kind |-> "calls", calls |-> calls]

ResolveSwap(r, seen) ==
    LET best == SelectedPool(r, seen)
        limit == IF r.limit = Absent THEN LimitFromQuote(r.kind, best.amount, r.slippage)
                 ELSE ValidateExplicitLimit(r.kind, best.amount, ParsePositive(r.limit))
        deadline == ResolveDeadline(r.deadline, seen[Len(seen)])
    IN IF best.amount = Err \/ limit = Err \/ deadline = Err \/ MaxInput(r, limit) > MaxPermit
       THEN Rejected
       ELSE IF r.op = "quote"
       THEN Answered([pool |-> best.pool, quoted |-> best.amount, limit |-> limit])
       ELSE Calls(CompileSwap(r, best.pool, limit, deadline))

\* One amount for each token of the pool, or <<>> when an entry is not one.
OrderTokenAmounts(tokens, entries) ==
    IF \E i \in DOMAIN entries : entries[i].token \notin Range(tokens) THEN <<>>
    ELSE [j \in DOMAIN tokens |->
            IF \E i \in DOMAIN entries : entries[i].token = tokens[j]
            THEN ParsePositive((CHOOSE e \in Range(entries) : e.token = tokens[j]).amount)
            ELSE 0]

DownwardSlippageAllowZero(n, slippage) == CheckedDiv(CheckedMul(n, Bps - slippage), Bps)
DownwardSlippage(n, slippage) ==
    LET adjusted == DownwardSlippageAllowZero(n, slippage)
    IN IF adjusted = 0 THEN Err ELSE adjusted

ResolveAddLiquidity(r, seen) ==
    LET tokens == seen[1].tokens
        amounts == OrderTokenAmounts(tokens, r.amounts)
        quoted == seen[2]
        min == IF r.bpt = Absent THEN DownwardSlippage(quoted, r.slippage)
               ELSE IF ParsePositive(r.bpt) > quoted THEN Err ELSE ParsePositive(r.bpt)
        deadline == ResolveDeadline(r.deadline, seen[3])
    IN IF \/ ~Open(seen[1]) \/ amounts = <<>> \/ quoted \in {0, Err}
          \/ min = Err \/ deadline = Err
       THEN Rejected
       ELSE IF r.op = "add_quote" THEN Answered([quoted |-> quoted, min |-> min])
       ELSE Calls(CompileAddLiquidity(r, tokens, amounts, min, deadline))

ResolveRemoveLiquidity(r, seen) ==
    LET tokens == seen[1].tokens
        quoted == seen[3]
        explicit == OrderTokenAmounts(tokens, r.amounts)
        mins == IF r.amounts = <<>>
                THEN [i \in DOMAIN quoted |-> DownwardSlippageAllowZero(quoted[i], r.slippage)]
                ELSE explicit
    IN IF \/ ~Open(seen[1]) \/ ParsePositive(r.bpt) > seen[2] \/ Len(quoted) # Len(tokens)
          \/ mins = <<>> \/ \E i \in DOMAIN mins : mins[i] = Err \/ mins[i] > quoted[i]
       THEN Rejected
       ELSE IF r.op = "remove_quote" THEN Answered([quoted |-> quoted, mins |-> mins])
       ELSE Calls(CompileRemoveLiquidity(r, mins))

PoolsAnswer(r, seen) ==
    LET states == SubSeq(seen, 3, Len(seen))
        found == DiscoverPairPools(r, seen[1], seen[2], states)
    IN IF ~seen[1].ok /\ ~seen[2].ok THEN Rejected
       ELSE Answered({s \in Range(states) : s.pool \in found /\ s.registered})

Decide(r, seen) ==
    CASE r.op \in Swapping -> ResolveSwap(r, seen)
      [] r.op \in Adding -> ResolveAddLiquidity(r, seen)
      [] r.op \in Removing -> ResolveRemoveLiquidity(r, seen)
      [] r.op = "pools" -> PoolsAnswer(r, seen)
      [] r.op \in {"pool", "balances"} ->
           IF seen[1].registered THEN Answered(seen) ELSE Rejected

-----------------------------------------------------------------------------
(* External: the pools and the router. *)

\* The states of the chain with given pools, by the tokens of each.
States(tokens) ==
    [now : Nat,
     pool : {pool \in [PoolNames -> [tokens : Seq(Tokens), registered : BOOLEAN, initialized : BOOLEAN,
                                     paused : BOOLEAN, recovery : BOOLEAN, rate : Nat \ {0},
                                     supply : Int, held : [Tokens -> Int]]] :
               \A p \in PoolNames : pool[p].tokens = tokens[p]},
     api : [ok : BOOLEAN, pools : SUBSET PoolNames],
     indexed : [ok : BOOLEAN, pools : SUBSET PoolNames],
     balance : [Tokens \cup PoolNames -> Int], allowance : [Tokens \cup PoolNames -> Int],
     permit : [Tokens -> Permits]]

SwapQuote(c, pool, r) ==
    LET p == c.pool[pool]
        n == QuoteAt(p.rate, r.token_in = "A", r.kind, Amount(r))
        out == IF r.kind = "exact_in" THEN n ELSE Amount(r)
    IN IF {r.token_in, r.token_out} \subseteq Range(p.tokens) /\ out <= p.held[r.token_out]
       THEN n ELSE Err

Total(s) == FoldLeft(LAMBDA sum, n : sum + n, 0, s)
Share(p, amounts, token) ==
    Total([i \in DOMAIN amounts |-> IF p.tokens[i] = token THEN amounts[i] ELSE 0])
Worth(p, amounts) ==
    Total([i \in DOMAIN amounts |-> amounts[i] * (IF p.tokens[i] = "A" THEN p.rate ELSE 10)])
HeldBy(p) == [i \in DOMAIN p.tokens |-> p.held[p.tokens[i]]]
AddQuote(p, amounts) ==
    IF amounts = <<>> \/ Worth(p, HeldBy(p)) <= 0 THEN Err
    ELSE (Worth(p, amounts) * p.supply) \div Worth(p, HeldBy(p))
RemoveQuote(p, n) ==
    IF n > p.supply THEN <<>> ELSE [i \in DOMAIN p.tokens |-> (p.held[p.tokens[i]] * n) \div p.supply]

Read(c, what, r) ==
    CASE what = "api" -> c.api
      [] what = "registered" -> c.indexed
      [] what = "clock" -> c.now
      [] what = "bpt_balance" -> c.balance[r.pool]
      [] what = "balances" -> c.balance
      [] what = "add_quote" ->
           AddQuote(c.pool[r.pool], OrderTokenAmounts(c.pool[r.pool].tokens, r.amounts))
      [] what = "remove_quote" -> RemoveQuote(c.pool[r.pool], ParsePositive(r.bpt))
      [] OTHER ->
           LET p == c.pool[what]
           IN [pool |-> what, tokens |-> p.tokens, registered |-> p.registered,
               initialized |-> p.initialized, paused |-> p.paused, recovery |-> p.recovery,
               amount |-> IF r.op \in Swapping THEN SwapQuote(c, what, r) ELSE 0]

Usable(p) == p.registered /\ p.initialized /\ ~p.paused

OnSwap(c, k) ==
    LET n == SwapQuote(c, k.pool, [k EXCEPT !.amount = Number(k.amount, <<>>)])
        paid == IF k.kind = "exact_in" THEN k.amount ELSE n
        got == IF k.kind = "exact_in" THEN n ELSE k.amount
    IN IF \/ ~Usable(c.pool[k.pool]) \/ c.now > k.deadline \/ n = Err
          \/ (IF k.kind = "exact_in" THEN got < k.limit ELSE paid > k.limit)
       THEN {}
       ELSE {[d EXCEPT !.balance[k.token_out] = @ + got] : d \in Pull(c, k.token_in, paid)}

\* The tokens that are added are pulled one after the other.
PullOne(c, e) == IF e.amount = 0 THEN {c} ELSE Pull(c, e.token, e.amount)
PullAll(c, entries) ==
    LET after[n \in 0..Len(entries)] ==
            IF n = 0 THEN {c} ELSE UNION {PullOne(d, entries[n]) : d \in after[n - 1]}
    IN after[Len(entries)]

OnAdd(c, k) ==
    LET p == c.pool[k.pool]
        n == AddQuote(p, k.amounts)
        added == [t \in DOMAIN p.held |-> p.held[t] + Share(p, k.amounts, t)]
        entries == [i \in DOMAIN k.amounts |-> [token |-> p.tokens[i], amount |-> k.amounts[i]]]
    IN IF ~Usable(p) \/ n < k.min THEN {}
       ELSE {[d EXCEPT !.balance[k.pool] = @ + n, !.pool[k.pool].supply = @ + n,
                       !.pool[k.pool].held = added] : d \in PullAll(c, entries)}

OnRemove(c, k) ==
    LET p == c.pool[k.pool]
        out == RemoveQuote(p, k.amount)
        got(t) == Share(p, out, t)
    IN IF \/ ~Usable(p) \/ out = <<>> \/ \E i \in DOMAIN out : out[i] < k.mins[i]
          \/ k.amount > Lesser(c.balance[k.pool], c.allowance[k.pool])
       THEN {}
       ELSE {[c EXCEPT !.balance = [t \in DOMAIN @ |-> IF t = k.pool THEN @[t] - k.amount
                                                       ELSE @[t] + got(t)],
                       !.allowance[k.pool] = @ - k.amount,
                       !.pool[k.pool].supply = @ - k.amount,
                       !.pool[k.pool].held = [t \in DOMAIN @ |-> @[t] - got(t)]]}

Call(c, k) ==
    CASE k.fn = "approve" -> OnApprove(c, k)
      [] k.fn = "permit" -> OnPermit(c, k)
      [] k.fn = "swap" -> OnSwap(c, k)
      [] k.fn = "add" -> OnAdd(c, k)
      [] k.fn = "remove" -> OnRemove(c, k)

\* Time passes, a price moves, a pool is paused, a source fails or lists more.
Moves(c) ==
    {[c EXCEPT !.now = @ + 2],
     [c EXCEPT !.pool["p1"].rate = IF @ = 20 THEN 17 ELSE 20],
     [c EXCEPT !.pool["p2"].paused = ~@],
     [c EXCEPT !.api.ok = FALSE],
     [c EXCEPT !.indexed = [ok |-> FALSE, pools |-> {}]],
     [c EXCEPT !.api.pools = @ \cup {"p1"}]}
=============================================================================
