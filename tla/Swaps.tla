-------------------------------- MODULE Swaps --------------------------------
(***************************************************************************)
(* What the Uniswap and Balancer adapters share, each in its own copy: the *)
(* limit of a swap, its deadline, and the batch that opens an allowance    *)
(* through Permit2, uses it and closes it.  10_000 basis points are scaled *)
(* to 10, twenty minutes to 1, and the widths uint48 and uint160 down.     *)
(* Permit2 and the tokens are external.                                    *)
(***************************************************************************)
EXTENDS Amounts

Bps == 10
DefaultDeadline == 1
MaxDeadline == 31                       \* 2^48 - 1
MaxPermit == 600                        \* 2^160 - 1
NoDeadline == -2                        \* the field is left out

\* Pools in the order of their ids or addresses, which breaks ties.
PoolOrder == <<"p1", "p2", "p3">>
PoolNames == Range(PoolOrder)
Rank(pool) == CHOOSE i \in DOMAIN PoolOrder : PoolOrder[i] = pool

LimitOfExactIn(kind, quote, slippage) ==      \* mutant of LimitFromQuote
    LET limit == CheckedDiv(CheckedMul(quote, Bps - slippage), Bps)
    IN IF limit = 0 THEN Err ELSE limit

\* The minimum output of an exact input, rounded down, or the maximum input
\* of an exact output, rounded up; a limit of zero is refused.
LimitFromQuote(kind, quote, slippage) ==
    LET limit == IF kind = "exact_in"
                 THEN CheckedDiv(CheckedMul(quote, Bps - slippage), Bps)
                 ELSE CheckedDiv(CheckedAdd(CheckedMul(quote, Bps + slippage), Bps - 1), Bps)
    IN IF limit = 0 THEN Err ELSE limit

\* A limit the client gives is refused when the quote is already beyond it.
ValidateExplicitLimit(kind, quote, limit) ==
    IF (kind = "exact_in" /\ limit > quote) \/ (kind = "exact_out" /\ limit < quote)
    THEN Err ELSE limit

ValidDeadline(deadline) == deadline = NoDeadline \/ deadline \in 1..MaxDeadline

ResolveDeadline(requested, now) ==
    LET deadline == IF requested = NoDeadline THEN now + DefaultDeadline ELSE requested
    IN IF deadline <= now \/ deadline > MaxDeadline THEN Err ELSE deadline

Approve(token, amount) == [fn |-> "approve", token |-> token, amount |-> amount]
Permit(token, amount, until) ==
    [fn |-> "permit", token |-> token, amount |-> amount, until |-> until]

PermitBatch(token, max, deadline, call) ==
    <<Approve(token, 0), Approve(token, max), Permit(token, max, deadline), call,
      Permit(token, 0, deadline), Approve(token, 0)>>

-----------------------------------------------------------------------------
(* External: a token that refuses to change one allowance into another     *)
(* (why the batches go through zero), and Permit2, by which a router pulls *)
(* a token: until the permit expires, within both allowances.              *)

Permits == [amount : Int, until : Int]

OnApprove(c, k) ==
    IF 0 \notin {k.amount, c.allowance[k.token]} THEN {}
    ELSE {[c EXCEPT !.allowance[k.token] = k.amount]}

OnPermit(c, k) ==
    {[c EXCEPT !.permit[k.token] = [amount |-> k.amount, until |-> k.until]]}

Pull(c, token, n) ==
    IF \/ n > c.balance[token] \/ n > c.allowance[token]
       \/ n > c.permit[token].amount \/ c.now > c.permit[token].until
    THEN {}
    ELSE {[c EXCEPT !.balance[token] = @ - n, !.allowance[token] = @ - n,
                    !.permit[token].amount = @ - n]}

\* What a swap over a rate (units of the second token for ten of the first)
\* gives or takes for an exact amount.
QuoteAt(rate, firstIn, kind, amount) ==
    CASE kind = "exact_in" /\ firstIn -> (amount * rate) \div 10
      [] kind = "exact_in" /\ ~firstIn -> (amount * 10) \div rate
      [] kind = "exact_out" /\ firstIn -> DivUp(amount * 10, rate)
      [] kind = "exact_out" /\ ~firstIn -> DivUp(amount * rate, 10)
=============================================================================
