------------------------------ MODULE UniswapV4 ------------------------------
(***************************************************************************)
(* The Uniswap v4 adapter: single-pool swaps and quotes, in a pool that is *)
(* named or in the best one discovered, with the calls compiled for the    *)
(* wallet.  There are one native and one ERC-20 currency; 2^128 - 1 is     *)
(* scaled down.  The pools, the quoter, the router and what the discovery  *)
(* lists (PoolDiscovery) are external.                                     *)
(***************************************************************************)
EXTENDS Swaps

Max128 == 500
Native == "ETH"

\* order is the one in which the discovered pools come out of their map.
\* pool is "" for the automatic selection and "partial" when the fee is given
\* without the tick spacing.
Blank == [op |-> "swap", agent_id |-> "agent", chain |-> "ethereum",
          token_in |-> "ETH", token_out |-> "TOK", pool |-> "", include_hooked |-> FALSE,
          kind |-> "exact_in", amount |-> Number(20, <<>>), limit |-> Absent,
          slippage |-> 1, deadline |-> NoDeadline, order |-> PoolOrder]
Actions == {"swap", "quote"}
Operations == Actions \cup {"pool", "pools", "balances"}
Currencies == {Native, "TOK"}

\* What can be parsed as a request; every pool of the chain may be discovered.
IsRequest(r) ==
    /\ r.op \in Operations
    /\ {r.token_in, r.token_out} \subseteq Currencies
    /\ r.pool \in PoolNames \cup {"", "partial"}
    /\ r.kind \in {"exact_in", "exact_out"} /\ r.slippage \in Nat /\ r.deadline \in Int
    /\ r.order \in Seq(PoolNames) /\ Range(r.order) = PoolNames

ParsePositive(text) ==
    LET n == ParseRaw(text) IN IF n \in 1..Max128 THEN n ELSE Err
Amount(r) == ParsePositive(r.amount)

Valid(r) ==
    /\ r.chain = "ethereum"
    /\ r.op \in Actions \cup {"balances"} => r.agent_id # ""
    /\ r.op = "pool" \/ r.token_in # r.token_out
    /\ r.op \in Actions =>
         /\ r.pool # "partial"
         /\ Amount(r) # Err
         /\ r.limit = Absent \/ ParsePositive(r.limit) # Err
         /\ r.slippage <= Bps
         /\ ValidDeadline(r.deadline)

-----------------------------------------------------------------------------
(* The choice of the pool.  A quote is what was read about one pool; an    *)
(* amount of Err was refused by the quoter.                                *)

NoQuote == [pool |-> "", initialized |-> FALSE, hooked |-> FALSE, amount |-> 0, gas |-> 0]

QuoteIsNoWorse(kind, quote, best) ==                \* mutant of QuoteIsBetter
    \/ best = NoQuote
    \/ IF kind = "exact_in" THEN quote.amount >= best.amount ELSE quote.amount <= best.amount

QuoteIsBetter(kind, quote, best) ==
    \/ best = NoQuote
    \/ IF kind = "exact_in" THEN quote.amount > best.amount ELSE quote.amount < best.amount
    \/ quote.amount = best.amount /\ quote.gas < best.gas
    \/ /\ <<quote.amount, quote.gas>> = <<best.amount, best.gas>>
       /\ Rank(quote.pool) < Rank(best.pool)

Usable(r, listed, quote) ==
    /\ quote.pool \in listed
    /\ r.include_hooked \/ ~quote.hooked
    /\ quote.initialized
    /\ quote.amount \notin {0, Err}

SelectBestPool(r, listed, quotes) ==
    FoldLeft(LAMBDA best, quote :
               IF Usable(r, listed, quote) /\ QuoteIsBetter(r.kind, quote, best)
               THEN quote ELSE best,
             NoQuote, quotes)

\* What was read: the discovered pools and a quote of each, or the quote of
\* the named pool; then the clock.
Reads(r) ==
    CASE r.op \in Actions -> (IF r.pool = "" THEN <<"listed">> \o r.order ELSE <<r.pool>>) \o <<"clock">>
      [] r.op = "pool" -> <<r.pool>>
      [] r.op = "pools" -> <<"listed">> \o r.order
      [] r.op = "balances" -> <<"balances">>

SelectedQuote(r, seen) ==
    IF r.pool # "" THEN (IF seen[1].initialized THEN seen[1] ELSE NoQuote)
    ELSE IF ~seen[1].ok THEN NoQuote
    ELSE SelectBestPool(r, seen[1].pools, SubSeq(seen, 2, Len(seen) - 1))

-----------------------------------------------------------------------------
(* The calls. *)

MaxInput(r, limit) == IF r.kind = "exact_in" THEN Amount(r) ELSE limit

RouterExecute(r, pool, limit, deadline, value, refund) ==
    [fn |-> "execute", pool |-> pool, token_in |-> r.token_in, token_out |-> r.token_out,
     kind |-> r.kind, amount |-> Amount(r), limit |-> limit, deadline |-> deadline,
     value |-> value, refund |-> refund]

\* Mutant of CompileSwap: what a native input leaves in the router stays there.
CompileSwapWithoutSweep(r, pool, limit, deadline) ==
    LET max == MaxInput(r, limit)
        call(value) == RouterExecute(r, pool, limit, deadline, value, FALSE)
    IN IF r.token_in = Native THEN <<call(max)>>
       ELSE PermitBatch(r.token_in, max, deadline, call(0))

CompileSwap(r, pool, limit, deadline) ==
    LET max == MaxInput(r, limit)
        call(value) == RouterExecute(r, pool, limit, deadline, value,
                                     r.token_in = Native /\ r.kind = "exact_out")
    IN IF r.token_in = Native THEN <<call(max)>>
       ELSE PermitBatch(r.token_in, max, deadline, call(0))

-----------------------------------------------------------------------------
(* The handlers. *)

ResolveLimitFromQuote(r, quoted) ==           \* mutant of ResolveLimit
    LimitFromQuote(r.kind, quoted, r.slippage)

ResolveLimit(r, quoted) ==
    IF r.limit = Absent THEN LimitFromQuote(r.kind, quoted, r.slippage)
    ELSE ValidateExplicitLimit(r.kind, quoted, ParsePositive(r.limit))

DecideSwap(r, seen) ==
    LET quote == SelectedQuote(r, seen)
        limit == ResolveLimit(r, quote.amount)
        deadline == ResolveDeadline(r.deadline, seen[Len(seen)])
    IN IF \/ quote.amount \in {0, Err} \/ limit = Err \/ deadline = Err
          \/ limit > Max128 \/ MaxInput(r, limit) > MaxPermit
       THEN [kind |-> "rejected"]
       ELSE IF r.op = "quote"
       THEN [kind |-> "answer",
             answer |-> [pool |-> quote.pool, quoted |-> quote.amount, limit |-> limit]]
       ELSE [kind |-> "calls", calls |-> CompileSwap(r, quote.pool, limit, deadline)]

PoolsAnswer(r, listed, quotes) ==
    {q.pool : q \in {p \in Range(quotes) : p.pool \in listed /\ (r.include_hooked \/ ~p.hooked)}}

Decide(r, seen) ==
    CASE r.op \in Actions -> DecideSwap(r, seen)
      [] r.op = "pools" ->
           IF ~seen[1].ok THEN [kind |-> "rejected"]
           ELSE [kind |-> "answer", answer |-> PoolsAnswer(r, seen[1].pools, Tail(seen))]
      [] OTHER -> [kind |-> "answer", answer |-> seen[1]]

-----------------------------------------------------------------------------
(* External: the pools and the router. *)

States ==
    [now : Nat,
     pool : [PoolNames -> [rate : Nat \ {0}, depth : Int, hooked : BOOLEAN,
                           initialized : BOOLEAN, gas : Int]],
     listed : [ok : BOOLEAN, pools : SUBSET PoolNames],
     balance : [Currencies -> Int], allowance : [{"TOK"} -> Int],
     permit : [{"TOK"} -> Permits], router : Int]

Quote(c, pool, tokenIn, kind, amount) ==
    LET p == c.pool[pool]
        n == QuoteAt(p.rate, tokenIn = Native, kind, amount)
    IN IF ~p.initialized \/ (IF kind = "exact_in" THEN n ELSE amount) > p.depth THEN Err ELSE n

Read(c, what, r) ==
    CASE what = "listed" -> c.listed
      [] what = "clock" -> c.now
      [] what = "balances" -> c.balance
      [] OTHER -> [pool |-> what, initialized |-> c.pool[what].initialized,
                   hooked |-> c.pool[what].hooked, gas |-> c.pool[what].gas,
                   amount |-> IF r.op \in Actions
                              THEN Quote(c, what, r.token_in, r.kind, Amount(r)) ELSE 0]

\* The router is paid with the value of the call, or through Permit2; what
\* it is not asked to sweep back stays in it.
Pay(c, k, n) ==
    IF k.token_in # Native THEN Pull(c, k.token_in, n)
    ELSE IF k.value > c.balance[Native] \/ n > k.value THEN {}
    ELSE LET left == IF k.refund THEN 0 ELSE k.value - n
         IN {[c EXCEPT !.balance[Native] = @ - n - left, !.router = @ + left]}

OnExecute(c, k) ==
    LET n == Quote(c, k.pool, k.token_in, k.kind, k.amount)
        in == IF k.kind = "exact_in" THEN k.amount ELSE n
        out == IF k.kind = "exact_in" THEN n ELSE k.amount
    IN IF \/ c.now > k.deadline \/ n = Err
          \/ (IF k.kind = "exact_in" THEN out < k.limit ELSE in > k.limit)
       THEN {}
       ELSE {[d EXCEPT !.balance[k.token_out] = @ + out] : d \in Pay(c, k, in)}

Call(c, k) ==
    CASE k.fn = "approve" -> OnApprove(c, k)
      [] k.fn = "permit" -> OnPermit(c, k)
      [] k.fn = "execute" -> OnExecute(c, k)

\* Time passes, a price moves, a pool is listed, the discovery fails.
Moves(c) ==
    {[c EXCEPT !.now = @ + 2],
     [c EXCEPT !.pool["p1"].rate = IF @ = 20 THEN 17 ELSE 20],
     [c EXCEPT !.pool["p2"].rate = IF @ = 20 THEN 19 ELSE 20],
     [c EXCEPT !.listed.pools = {"p1", "p2", "p3"}],
     [c EXCEPT !.listed.ok = FALSE]}
=============================================================================
