----------------------------- MODULE MorphoBlue -----------------------------
(***************************************************************************)
(* The Morpho Blue adapter over one market: the accrual of a market's      *)
(* state, shares and assets with their rounding, the resolution of "max"   *)
(* to shares, the health guard, the compiled batches with their approvals, *)
(* and the position and market answers.  WAD is scaled to 100, the virtual *)
(* shares to 2, the oracle's scale to 1 and both tokens to no decimals.    *)
(***************************************************************************)
EXTENDS Amounts

Wad == 100
WadDecimals == 2
VirtualShares == 2
VirtualAssets == 1

Blank == [op |-> "supply", agent_id |-> "agent", chain |-> "base", market_id |-> "market",
          amount |-> Absent, amount_raw |-> Absent, min_health_factor |-> Absent]
CollateralActions == {"supply_collateral", "withdraw_collateral"}
Actions == {"supply", "withdraw", "borrow", "repay"} \cup CollateralActions
Guarded == {"borrow", "withdraw_collateral"}

HasAgent(r) == r.agent_id # ""

\* Only the shape of the amount is validated before the market is read.
Valid(r) ==
    /\ r.chain = "base"
    /\ r.market_id = "market"
    /\ r.op # "market" => HasAgent(r)
    /\ r.op \in Actions => Cardinality({x \in {"amount", "amount_raw"} : r[x] # Absent}) = 1

\* parse_units cuts the digits beyond the decimals off, where the other
\* adapters refuse them, and reads a sign: -n, down to the least integer of
\* that width, is the word 2^256 - n.  A number too large for it panics in the
\* handler's task, which ends the request as an error does: both are Err.
Negative(whole) == [kind |-> "negative", whole |-> whole, digits |-> <<>>]
IsRequest(r) ==
    /\ DOMAIN r = DOMAIN Blank
    /\ r.op \in Actions \cup {"position", "market"}
    /\ \A text \in {r.amount, r.amount_raw, r.min_health_factor} :
         IsText(text) \/ (text = Negative(text.whole) /\ text.whole \in Nat)

Complement(n) ==
    IF n > MaxUint \div 2 + 1 THEN Err ELSE IF n = 0 THEN 0 ELSE MaxUint + 1 - n
ParseUnits(text, decimals) ==
    IF text.kind = "negative" THEN Complement(text.whole * 10 ^ decimals)
    ELSE IF text.kind = "number" /\ Len(text.digits) > decimals
    THEN ParseDecimal([text EXCEPT !.digits = SubSeq(@, 1, decimals)], decimals)
    ELSE ParseDecimal(text, decimals)

ParseRequestAmount(r) ==
    LET n == IF r.amount_raw # Absent THEN ParseRaw(r.amount_raw) ELSE ParseUnits(r.amount, 0)
    IN IF n = 0 THEN Err ELSE n

ParseMinHealthFactor(r) ==
    LET min == IF r.min_health_factor = Absent THEN 105
               ELSE ParseUnits(r.min_health_factor, WadDecimals)
    IN IF min < Wad THEN Err ELSE min

-----------------------------------------------------------------------------
(* Shares and assets.  Products are taken in 512 bits.                     *)

MulDivDown(x, y, d) == IF Err \in {x, y, d} \/ d = 0 THEN Err ELSE Checked((x * y) \div d)
MulDivUp(x, y, d) == IF Err \in {x, y, d} \/ d = 0 THEN Err ELSE Checked(DivUp(x * y, d))

ToAssetsDown(shares, assets, total) ==
    MulDivDown(shares, CheckedAdd(assets, VirtualAssets), CheckedAdd(total, VirtualShares))
ToAssetsUp(shares, assets, total) ==
    MulDivUp(shares, CheckedAdd(assets, VirtualAssets), CheckedAdd(total, VirtualShares))
ToSharesUp(n, assets, total) ==
    MulDivUp(n, CheckedAdd(total, VirtualShares), CheckedAdd(assets, VirtualAssets))
ToSharesDown(n, assets, total) ==
    MulDivDown(n, CheckedAdd(total, VirtualShares), CheckedAdd(assets, VirtualAssets))

TaylorCompounded(rate, elapsed) ==
    LET first == CheckedMul(rate, elapsed)
        second == MulDivDown(first, first, 2 * Wad)
        third == MulDivDown(second, first, 3 * Wad)
    IN CheckedAdd(CheckedAdd(first, second), third)

\* A market state as of elapsed seconds after its last update.
AccrueMarketStateAt(m, rate, elapsed) ==
    IF rate = 0 \/ elapsed = 0 THEN m
    ELSE LET interest == MulDivDown(m.borrowAssets, TaylorCompounded(rate, elapsed), Wad)
             supplied == CheckedAdd(m.supplyAssets, interest)
             feeAmount == MulDivDown(interest, m.fee, Wad)
             feeShares == ToSharesDown(feeAmount, SaturatingSub(supplied, feeAmount), m.supplyShares)
         IN [m EXCEPT !.borrowAssets = CheckedAdd(@, interest),
                      !.supplyAssets = supplied,
                      !.supplyShares = IF 0 \in {m.fee, interest} THEN @
                                       ELSE CheckedAdd(@, feeShares)]

\* The accrual did not fit in the width of the amounts.
Overflown(m) == Err \in {m.borrowAssets, m.supplyAssets, m.supplyShares}

Liquidity(m) == SaturatingSub(m.supplyAssets, m.borrowAssets)

-----------------------------------------------------------------------------
(* The calls.  A batch opens, uses and closes its own allowance.           *)

Approve(token, amount) == [fn |-> "approve", token |-> token, amount |-> amount]
MorphoCall(fn, assets, shares) == [fn |-> fn, assets |-> assets, shares |-> shares]

ApprovalBatch(token, allowance, call) ==
    <<Approve(token, 0), Approve(token, allowance), call, Approve(token, 0)>>

Assets(n) == [assets |-> n, shares |-> 0]          \* ResolvedAmount
Shares(n) == [assets |-> 0, shares |-> n]

CompileAction(r, n) ==
    LET call == MorphoCall(r.op, n.assets, n.shares)
        approval == IF n.shares = 0 THEN n.assets ELSE MaxUint
    IN CASE r.op \in {"supply", "repay"} -> ApprovalBatch("loan", approval, call)
         [] r.op = "supply_collateral" -> ApprovalBatch("collateral", n.assets, call)
         [] OTHER -> <<call>>

-----------------------------------------------------------------------------
(* prepare_action.  A context is the market's parameters, its state (with  *)
(* analytics: accrued to the block that was read) and the oracle's price.  *)

Context(seen, analytics) ==
    IF analytics THEN [seen EXCEPT !.state = AccrueMarketStateAt(@, seen.rate, seen.elapsed)]
    ELSE [seen EXCEPT !.price = Err]

HasBorrowing(context) == context.configured

\* With a required oracle, a zero price and a price that cannot be read fail.
OracleAnswers(context) == context.price \notin {0, Err}

NeedsAnalytics(r, position) ==
    r.op = "borrow" \/ (r.op = "withdraw_collateral" /\ position.borrowShares # 0)

\* What "max" stands for; Err (no such amount) when it is not supported.
ResolveMax(r, position, balance) ==
    CASE r.op \in {"supply", "supply_collateral"} -> Assets(balance)
      [] r.op = "withdraw" -> Shares(position.supplyShares)
      [] r.op = "repay" -> Shares(position.borrowShares)
      [] r.op = "withdraw_collateral" ->
           IF position.borrowShares # 0 THEN Assets(Err) ELSE Assets(position.collateral)
      [] r.op = "borrow" -> Assets(Err)

ResolveActionAmount(r, position, balance) ==
    IF IsMax(r) THEN ResolveMax(r, position, balance) ELSE Assets(ParseRequestAmount(r))

ProjectedBorrowAlone(m, position, n) ==          \* mutant: only the new loan
    ToAssetsUp(ToSharesUp(n, m.borrowAssets, m.borrowShares), m.borrowAssets, m.borrowShares)
ProjectedBorrow(m, position, n) ==
    LET added == ToSharesUp(n, m.borrowAssets, m.borrowShares)
    IN ToAssetsUp(CheckedAdd(position.borrowShares, added),
                  CheckedAdd(m.borrowAssets, n), CheckedAdd(m.borrowShares, added))

BorrowCapacity(context, collateral) ==
    MulDivDown(MulDivDown(collateral, context.price, 1), context.lltv, Wad)

EnforceHealthGuard(r, context, position, n) ==
    LET m == context.state
        min == ParseMinHealthFactor(r)
        borrowing == r.op = "borrow"
        debt == IF borrowing THEN ProjectedBorrow(m, position, n)
                ELSE ToAssetsUp(position.borrowShares, m.borrowAssets, m.borrowShares)
        collateral == position.collateral - (IF borrowing THEN 0 ELSE n)
        capacity == BorrowCapacity(context, collateral)
    IN /\ min # Err
       /\ IF borrowing THEN n <= Liquidity(m) ELSE n <= position.collateral
       /\ debt # Err
       /\ \/ debt = 0
          \/ /\ OracleAnswers(context)
             /\ capacity # Err
             /\ capacity * Wad >= debt * min

\* Any other action must not carry a minimum.
HealthGuard(r, context, position, n) ==
    IF r.op \in Guarded THEN EnforceHealthGuard(r, context, position, n.assets)
    ELSE r.min_health_factor = Absent

Reads(r) ==
    CASE r.op \in Guarded -> <<"market", "position", "market">>
      [] r.op \in {"supply", "supply_collateral"} /\ IsMax(r) ->
           <<"market", "position", "balance">>
      [] r.op = "market" -> <<"market">>
      [] OTHER -> <<"market", "position">>

DecideAction(r, seen) ==
    LET position == seen[2]
        analytics == NeedsAnalytics(r, position)
        context == IF analytics THEN Context(seen[3], TRUE) ELSE Context(seen[1], FALSE)
        n == ResolveActionAmount(r, position, seen[Len(seen)])
    IN IF \/ r.op \notin {"supply", "withdraw"} /\ ~HasBorrowing(seen[1])
          \/ analytics /\ (Overflown(context.state) \/ ~OracleAnswers(context))
          \/ n.assets = Err \/ n.assets + n.shares = 0
          \/ ~HealthGuard(r, context, position, n)
       THEN [kind |-> "rejected"]
       ELSE [kind |-> "calls", calls |-> CompileAction(r, n)]

\* The answers of handle_position and handle_market; Err where the oracle
\* leaves a value unknown.
PositionAnswer(context, position) ==
    LET m == context.state
        borrowed == ToAssetsUp(position.borrowShares, m.borrowAssets, m.borrowShares)
        capacity == IF OracleAnswers(context) THEN BorrowCapacity(context, position.collateral)
                    ELSE Err
    IN [supplied |-> ToAssetsDown(position.supplyShares, m.supplyAssets, m.supplyShares),
        borrowed |-> borrowed,
        capacity |-> capacity,
        available |-> IF capacity = Err THEN Err
                      ELSE Lesser(SaturatingSub(capacity, borrowed), Liquidity(m))]

MarketAnswer(context) ==
    [supply |-> context.state.supplyAssets, borrow |-> context.state.borrowAssets,
     liquidity |-> Liquidity(context.state),
     oracle |-> CASE ~context.configured -> "not_configured"
                  [] context.price = 0 -> "zero_price"
                  [] context.price = Err -> "stale"
                  [] OTHER -> "available"]

\* A value that does not fit in its type fails the query.
DecidePosition(context, position) ==
    LET answer == PositionAnswer(context, position)
    IN IF \/ Overflown(context.state) \/ Err \in {answer.supplied, answer.borrowed}
          \/ OracleAnswers(context) /\ answer.capacity = Err
       THEN [kind |-> "rejected"]
       ELSE [kind |-> "answer", answer |-> answer]

DecideMarket(context) ==
    IF Overflown(context.state) THEN [kind |-> "rejected"]
    ELSE [kind |-> "answer", answer |-> MarketAnswer(context)]

Decide(r, seen) ==
    CASE r.op \in Actions -> DecideAction(r, seen)
      [] r.op = "position" -> DecidePosition(Context(seen[1], TRUE), seen[2])
      [] r.op = "market" -> DecideMarket(Context(seen[1], TRUE))

-----------------------------------------------------------------------------
(* External: the market on its chain.  It accrues before every call that   *)
(* touches the loan; elapsed is the time since it last did.                *)

Tokens == {"loan", "collateral"}
States ==
    [state : [supplyAssets : Int, supplyShares : Int, borrowAssets : Int, borrowShares : Int, fee : Nat],
     rate : Nat, elapsed : Nat, price : Nat \cup {Err}, lltv : Nat, configured : BOOLEAN,
     position : [supplyShares : 0..MaxUint, borrowShares : 0..MaxUint, collateral : 0..MaxUint],
     balance : [Tokens -> 0..MaxUint], allowance : [Tokens -> 0..MaxUint]]

Read(c, what, r) ==
    CASE what = "market" -> [state |-> c.state, rate |-> c.rate, elapsed |-> c.elapsed,
                             price |-> c.price, lltv |-> c.lltv, configured |-> c.configured]
      [] what = "position" -> c.position
      [] what = "balance" -> c.balance[IF r.op \in CollateralActions THEN "collateral" ELSE "loan"]

Accrued(c) ==
    [c EXCEPT !.state = AccrueMarketStateAt(@, c.rate, c.elapsed), !.elapsed = 0]

DebtOf(c) ==
    ToAssetsUp(c.position.borrowShares, c.state.borrowAssets, c.state.borrowShares)
HealthyAt(c, min) ==
    \/ c.position.borrowShares = 0
    \/ /\ c.price > 0
       /\ DebtOf(c) # Err
       /\ ((c.position.collateral * c.price * c.lltv) \div Wad) * Wad >= min * DebtOf(c)

\* Pull n tokens from the wallet.
Pays(c, token, n) ==
    IF n > Lesser(c.balance[token], c.allowance[token]) THEN {}
    ELSE {[c EXCEPT !.balance[token] = @ - n, !.allowance[token] = @ - n]}

OnSupply(c, n) ==
    LET shares == ToSharesDown(n, c.state.supplyAssets, c.state.supplyShares)
    IN IF shares = Err THEN {}
       ELSE {[d EXCEPT !.state.supplyAssets = @ + n, !.state.supplyShares = @ + shares,
                       !.position.supplyShares = @ + shares] : d \in Pays(c, "loan", n)}

OnWithdraw(c, k) ==
    LET m == c.state
        n == IF k.shares = 0 THEN k.assets
             ELSE ToAssetsDown(k.shares, m.supplyAssets, m.supplyShares)
        shares == IF k.shares # 0 THEN k.shares
                  ELSE ToSharesUp(k.assets, m.supplyAssets, m.supplyShares)
    IN IF Err \in {n, shares} \/ shares > c.position.supplyShares \/ n > Liquidity(m) THEN {}
       ELSE {[c EXCEPT !.state.supplyAssets = @ - n, !.state.supplyShares = @ - shares,
                       !.position.supplyShares = @ - shares, !.balance["loan"] = @ + n]}

OnBorrow(c, n) ==
    LET m == c.state
        shares == ToSharesUp(n, m.borrowAssets, m.borrowShares)
        after == [c EXCEPT !.state.borrowAssets = @ + n, !.state.borrowShares = @ + shares,
                           !.position.borrowShares = @ + shares, !.balance["loan"] = @ + n]
    IN IF shares = Err \/ n > Liquidity(m) \/ ~HealthyAt(after, Wad) THEN {} ELSE {after}

OnRepay(c, k) ==
    LET m == c.state
        n == IF k.shares = 0 THEN k.assets
             ELSE ToAssetsUp(k.shares, m.borrowAssets, m.borrowShares)
        shares == IF k.shares # 0 THEN k.shares
                  ELSE ToSharesDown(k.assets, m.borrowAssets, m.borrowShares)
    IN IF Err \in {n, shares} \/ shares > c.position.borrowShares THEN {}
       ELSE {[d EXCEPT !.state.borrowAssets = SaturatingSub(@, n),
                       !.state.borrowShares = @ - shares,
                       !.position.borrowShares = @ - shares] : d \in Pays(c, "loan", n)}

OnSupplyCollateral(c, n) ==
    {[d EXCEPT !.position.collateral = @ + n] : d \in Pays(c, "collateral", n)}

OnWithdrawCollateral(c, n) ==
    LET after == [c EXCEPT !.position.collateral = @ - n, !.balance["collateral"] = @ + n]
    IN IF n > c.position.collateral \/ ~HealthyAt(after, Wad) THEN {} ELSE {after}

Accruing == {"supply", "withdraw", "borrow", "repay", "withdraw_collateral"}

Outcomes(c, k) ==
    IF k.fn \in Accruing /\ Overflown(Accrued(c).state) THEN {}
    ELSE CASE k.fn = "approve" -> {[c EXCEPT !.allowance[k.token] = k.amount]}
           [] k.fn = "supply" -> OnSupply(Accrued(c), k.assets)
           [] k.fn = "withdraw" -> OnWithdraw(Accrued(c), k)
           [] k.fn = "borrow" -> OnBorrow(Accrued(c), k.assets)
           [] k.fn = "repay" -> OnRepay(Accrued(c), k)
           [] k.fn = "supply_collateral" -> OnSupplyCollateral(c, k.assets)
           [] k.fn = "withdraw_collateral" -> OnWithdrawCollateral(Accrued(c), k.assets)

\* The arithmetic of Morpho and of the tokens is checked.
Fits(c) ==
    /\ \A x \in DOMAIN c.balance : c.balance[x] <= MaxUint
    /\ \A x \in DOMAIN c.position : c.position[x] <= MaxUint

Call(c, k) == {d \in Outcomes(c, k) : Fits(d)}

\* Time passes, the price moves, or the oracle stops answering.
Moves(c) ==
    {[c EXCEPT !.elapsed = @ + 1], [c EXCEPT !.price = IF @ = 2 THEN 1 ELSE 2],
     [c EXCEPT !.price = Err]}
=============================================================================
