----------------------------- MODULE CompoundV3 -----------------------------
(***************************************************************************)
(* The Compound III adapter: the two Comet markets of the registry and     *)
(* their verification, the resolution of "max", the compiled calls, and    *)
(* the borrow capacity it reports.  Decimals are scaled to 0 or 1 and the  *)
(* factor scale 1e18 to 10.  Comet and the tokens are external.            *)
(***************************************************************************)
EXTENDS Amounts

Markets == <<"usdc", "weth">>                       \* CompoundMarket::ALL
BaseToken == [usdc |-> "USDC", weth |-> "WETH"]
TokenDecimals == [USDC |-> 0, WETH |-> 1, CBETH |-> 1]
Scale(token) == 10 ^ TokenDecimals[token]
FactorScale == 10

\* The texts of the asset field, and the token each one names: a symbol, or
\* an address, for which the adapter knows no decimals.
Addresses == [usdc_address |-> "USDC", weth_address |-> "WETH", cbeth_address |-> "CBETH"]
Symbols == {"USDC", "WETH"}

Blank == [op |-> "supply", agent_id |-> "agent", chain |-> "base", market |-> "",
          asset |-> "BASE", amount |-> Absent, amount_raw |-> Absent]
Actions == {"supply", "withdraw", "repay", "borrow"}

HasAgent(r) == r.agent_id # ""
IsRequest(r) ==
    /\ DOMAIN r = DOMAIN Blank
    /\ r.op \in Actions \cup {"markets", "position", "balances", "borrow_capacity"}
    /\ IsText(r.amount) /\ IsText(r.amount_raw)

InferMarket(asset) == IF asset \in {"WETH", "weth_address"} THEN "weth" ELSE "usdc"
Market(r) ==
    IF r.market # "" THEN r.market
    ELSE IF r.op \in Actions THEN InferMarket(r.asset) ELSE "usdc"

\* Err for a text that is neither a symbol nor an address.
ResolveAsset(asset, market) ==
    CASE asset = "BASE" -> [address |-> BaseToken[market],
                            decimals |-> TokenDecimals[BaseToken[market]]]
      [] asset \in Symbols -> [address |-> asset, decimals |-> TokenDecimals[asset]]
      [] asset \in DOMAIN Addresses -> [address |-> Addresses[asset], decimals |-> Err]
      [] OTHER -> [address |-> "none", decimals |-> Err]
Token(r) == ResolveAsset(r.asset, Market(r)).address

IsBaseAsset(r) == Token(r) = BaseToken[Market(r)]

\* Repay and borrow take the decimals of the market's base token.
AmountDecimals(r) ==
    IF r.op \in {"repay", "borrow"} THEN TokenDecimals[BaseToken[Market(r)]]
    ELSE ResolveAsset(r.asset, Market(r)).decimals
Amount(r, allowMax) == ResolveAmount(r, AmountDecimals(r), allowMax)

ValidMarket(r) == Market(r) \in Range(Markets)
Valid(r) ==
    /\ r.chain = "base"
    /\ r.op # "markets" => HasAgent(r) /\ ValidMarket(r)
    /\ r.op = "markets" => r.asset \in {"BASE"} \cup Symbols     \* BASE: no filter
    /\ r.op \in Actions =>
         /\ IF r.op \in {"repay", "borrow"} THEN IsBaseAsset(r) ELSE Token(r) # "none"
         /\ Amount(r, TRUE) \notin {Err, 0}

-----------------------------------------------------------------------------
(* The calls. *)

Approve(token, market, amount) ==
    [fn |-> "approve", token |-> token, market |-> market, amount |-> amount]
CometSupply(market, token, amount) ==
    [fn |-> "supply", market |-> market, token |-> token, amount |-> amount]
CometWithdraw(market, token, amount) ==
    [fn |-> "withdraw", market |-> market, token |-> token, amount |-> amount]

CompileSupply(r) ==
    LET n == Amount(r, FALSE)
    IN <<Approve(Token(r), Market(r), n), CometSupply(Market(r), Token(r), n)>>
CompileWithdraw(r) == <<CometWithdraw(Market(r), Token(r), Amount(r, FALSE))>>
CompileRepay(r) ==
    LET n == Amount(r, FALSE)
        base == BaseToken[Market(r)]
    IN <<Approve(base, Market(r), n), CometSupply(Market(r), base, n)>>
CompileBorrow(r) ==
    <<CometWithdraw(Market(r), BaseToken[Market(r)], Amount(r, FALSE))>>

Compile(r) ==
    CASE r.op = "supply" -> CompileSupply(r)
      [] r.op = "withdraw" -> CompileWithdraw(r)
      [] r.op = "repay" -> CompileRepay(r)
      [] r.op = "borrow" -> CompileBorrow(r)

-----------------------------------------------------------------------------
(* The handlers.  Every one of them first verifies that the Comet of the   *)
(* registry reports the registry's base token.                             *)

Verified(r, reported) == reported = BaseToken[Market(r)]

ResolveSupplyReads(r) == IF IsMax(r) THEN <<"base_token", "wallet_balance">> ELSE <<"base_token">>
ResolveWithdrawReads(r) ==
    IF ~IsMax(r) THEN <<"base_token">>
    ELSE <<"base_token", IF IsBaseAsset(r) THEN "base_supply" ELSE "collateral_balance">>
ResolveRepayReads(r) ==
    IF IsMax(r) THEN <<"base_token", "base_borrow", "wallet_balance">> ELSE <<"base_token">>

Reads(r) ==
    CASE r.op = "supply" -> ResolveSupplyReads(r)
      [] r.op = "withdraw" -> ResolveWithdrawReads(r)
      [] r.op = "repay" -> ResolveRepayReads(r)
      [] r.op = "borrow" -> <<"base_token">>
      [] r.op = "position" -> <<"base_token", "base_supply", "base_borrow", "collaterals">>
      [] r.op = "balances" -> <<"base_token", "wallet_balance", "base_supply", "collaterals">>
      [] r.op = "borrow_capacity" ->
           <<"base_token", "base_price", "base_borrow", "collaterals">>
      [] r.op = "markets" -> <<"markets">>

\* Mutant of MaxAmount: a repayment of all the balance.
MaxAmountOfBalance(r, seen) ==
    IF r.op = "borrow" \/ 0 \in Range(Tail(seen)) THEN Err ELSE seen[Len(seen)]

\* What "max" stands for, from what was read after the verification; Err when
\* it is zero, and for a borrow, which has no "max".
MaxAmount(r, seen) ==
    IF r.op = "borrow" \/ 0 \in Range(Tail(seen)) THEN Err
    ELSE IF r.op = "repay" THEN Lesser(seen[2], seen[3])
    ELSE seen[2]

\* Compiling resolves the amount again, without "max".
Calls(calls) ==
    IF \E i \in DOMAIN calls : calls[i].amount = Err THEN [kind |-> "rejected"]
    ELSE [kind |-> "calls", calls |-> calls]

DecideAction(r, seen) ==
    LET n == MaxAmount(r, seen)
    IN IF ~Verified(r, seen[1]) \/ (IsMax(r) /\ n = Err) THEN [kind |-> "rejected"]
       ELSE Calls(Compile(IF IsMax(r) THEN WithAmountRaw(r, n) ELSE r))

\* Computed in 512 bits, so that only the result can be too large.
CollateralBorrowCapacity(collateral, baseScale, basePrice) ==
    IF 0 \in {collateral.balance, collateral.price, collateral.factor} THEN 0
    ELSE Checked((collateral.balance * collateral.price * collateral.factor * baseScale)
                   \div (collateral.scale * FactorScale * basePrice))

Capacities(r, seen) ==
    [i \in DOMAIN seen[4] |->
       CollateralBorrowCapacity(seen[4][i], Scale(BaseToken[Market(r)]), seen[2])]
TotalCapacity(r, seen) ==
    FoldLeft(LAMBDA acc, n : Lesser(acc + n, MaxUint), 0, Capacities(r, seen))

\* Mutant of BorrowCapacity: what is owed already is not subtracted.
BorrowCapacityGross(r, seen) ==
    [total |-> TotalCapacity(r, seen), available |-> TotalCapacity(r, seen)]

BorrowCapacity(r, seen) ==
    LET total == TotalCapacity(r, seen)
    IN [total |-> total, available |-> SaturatingSub(total, seen[3])]

PositionAnswer(seen) ==
    [supply |-> seen[2], borrow |-> seen[3],
     collateral |-> [i \in DOMAIN seen[4] |-> seen[4][i].balance]]
BalancesAnswer(seen) ==
    [wallet |-> seen[2], supply |-> seen[3],
     collateral |-> [i \in DOMAIN seen[4] |-> <<seen[4][i].wallet, seen[4][i].balance>>]]

\* The markets that pass the filter; one that is not what the registry says
\* fails the whole answer.
MarketsAnswer(r, reported) ==
    LET wanted == {m \in Range(Markets) : r.asset \in {"BASE", BaseToken[m]}}
    IN IF \E m \in wanted : reported[m] # BaseToken[m] THEN [kind |-> "rejected"]
       ELSE [kind |-> "answer", answer |-> wanted]

\* One capacity that does not fit fails the whole answer.
DecideQuery(r, seen) ==
    IF \/ ~Verified(r, seen[1])
       \/ r.op = "borrow_capacity" /\ (seen[2] = 0 \/ Err \in Range(Capacities(r, seen)))
    THEN [kind |-> "rejected"]
    ELSE [kind |-> "answer",
          answer |-> CASE r.op = "position" -> PositionAnswer(seen)
                       [] r.op = "balances" -> BalancesAnswer(seen)
                       [] r.op = "borrow_capacity" -> BorrowCapacity(r, seen)]

Decide(r, seen) ==
    CASE r.op \in Actions -> DecideAction(r, seen)
      [] r.op = "markets" -> MarketsAnswer(r, seen[1])
      [] OTHER -> DecideQuery(r, seen)

-----------------------------------------------------------------------------
(* External: the Comets.  base is the signed principal of the wallet.      *)

CollateralToken == [usdc |-> "WETH", weth |-> "CBETH"]
BorrowFactor == 7

Tokens == DOMAIN TokenDecimals
States ==
    LET markets == Range(Markets)
    IN [reported : [markets -> Tokens \cup {"OTHER"}], price : [Tokens -> Nat],
        balance : [Tokens -> Nat], allowance : [Tokens -> 0..MaxUint],
        base : [markets -> Int], collateral : [markets -> Nat]]

Collaterals(c, m) ==
    LET token == CollateralToken[m]
    IN <<[balance |-> c.collateral[m], wallet |-> c.balance[token], price |-> c.price[token],
          factor |-> BorrowFactor, scale |-> Scale(token)]>>

Read(c, what, r) ==
    LET m == Market(r)
    IN CASE what = "base_token" -> c.reported[m]
         [] what = "wallet_balance" -> c.balance[IF r.op = "supply" THEN Token(r) ELSE BaseToken[m]]
         [] what = "base_supply" -> SaturatingSub(c.base[m], 0)
         [] what = "base_borrow" -> SaturatingSub(-c.base[m], 0)
         [] what = "base_price" -> c.price[BaseToken[m]]
         [] what = "collateral_balance" ->
              IF Token(r) = CollateralToken[m] THEN c.collateral[m] ELSE 0
         [] what = "collaterals" -> Collaterals(c, m)
         [] what = "markets" -> c.reported

\* isBorrowCollateralized: each price and factor is rounded down on its own.
Collateralized(c, m) ==
    \/ c.base[m] >= 0
    \/ LET token == CollateralToken[m]
           value == (c.collateral[m] * c.price[token]) \div Scale(token)
           owed == (-c.base[m] * c.price[BaseToken[m]]) \div Scale(BaseToken[m])
       IN (value * BorrowFactor) \div FactorScale >= owed

OnSupply(c, k) ==
    LET isBase == k.token = BaseToken[k.market]
        n == IF isBase /\ k.amount = MaxUint THEN SaturatingSub(-c.base[k.market], 0)
             ELSE k.amount
        paid == [c EXCEPT !.balance[k.token] = @ - n, !.allowance[k.token] = @ - n]
    IN IF \/ n > Lesser(c.balance[k.token], c.allowance[k.token])
          \/ ~isBase /\ k.token # CollateralToken[k.market]
       THEN {}
       ELSE {IF isBase THEN [paid EXCEPT !.base[k.market] = @ + n]
             ELSE [paid EXCEPT !.collateral[k.market] = @ + n]}

OnWithdraw(c, k) ==
    LET isBase == k.token = BaseToken[k.market]
        n == IF isBase /\ k.amount = MaxUint THEN SaturatingSub(c.base[k.market], 0)
             ELSE k.amount
        received == [c EXCEPT !.balance[k.token] = @ + n]
        after == IF isBase THEN [received EXCEPT !.base[k.market] = @ - n]
                 ELSE [received EXCEPT !.collateral[k.market] = @ - n]
    IN IF \/ ~isBase /\ (k.token # CollateralToken[k.market] \/ n > c.collateral[k.market])
          \/ ~Collateralized(after, k.market)
       THEN {} ELSE {after}

Call(c, k) ==
    CASE k.fn = "approve" -> {[c EXCEPT !.allowance[k.token] = k.amount]}
      [] k.fn = "supply" -> OnSupply(c, k)
      [] k.fn = "withdraw" -> OnWithdraw(c, k)

\* The collateral's price moves; a debt accrues interest.
Moves(c) ==
    {[c EXCEPT !.price["WETH"] = p] : p \in {7, 12} \ {c.price["WETH"]}}
    \cup {[c EXCEPT !.base["usdc"] = @ - 1] : x \in {y \in {1} : c.base["usdc"] < 0}}
=============================================================================
