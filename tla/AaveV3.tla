------------------------------- MODULE AaveV3 -------------------------------
(***************************************************************************)
(* The Aave v3 adapter: validation, the borrow guard, the resolution of    *)
(* "max", and the calls compiled for the wallet.  1e18 is scaled to 100,   *)
(* 10_000 basis points to 10 and token decimals to 0 or 1.  The pool, the  *)
(* oracle and the tokens are external and modelled from how they are used. *)
(***************************************************************************)
EXTENDS Amounts

Assets == {"WETH", "USDC"}
Decimals == [WETH |-> 1, USDC |-> 0]
Unit(asset) == 10 ^ Decimals[asset]
WadDecimals == 2
Wad == 100
Bps == 10

Owners == {"wallet", "friend"}
Modes == {1, 2}                          \* stable, variable
NoMode == 0                              \* the field is left out

\* One record for the four requests and the two queries; a field a request
\* does not have keeps its default.
Blank == [op |-> "supply", agent_id |-> "agent", chain |-> "ethereum",
          asset |-> "USDC", amount |-> Absent, amount_raw |-> Absent,
          to |-> "wallet", interest_rate_mode |-> NoMode,
          on_behalf_of |-> "wallet", min_health_factor |-> Absent]
Actions == {"supply", "withdraw", "repay", "borrow"}

IsRequest(r) ==
    /\ DOMAIN r = DOMAIN Blank
    /\ r.op \in Actions \cup {"position", "balances"}
    /\ IsText(r.amount) /\ IsText(r.amount_raw) /\ IsText(r.min_health_factor)
    /\ r.on_behalf_of \in Owners

Mode(r) == IF r.interest_rate_mode = NoMode THEN 2 ELSE r.interest_rate_mode
MinHealthFactor(r) ==
    IF r.min_health_factor = Absent THEN 105
    ELSE ParseDecimal(r.min_health_factor, WadDecimals)

ValidChainAndAgent(r) == r.chain = "ethereum" /\ r.agent_id # ""
Amount(r, allowMax) == ResolveAmount(r, Decimals[r.asset], allowMax)
ValidAmount(r) == Amount(r, r.op # "supply") \notin {Err, 0}
Valid(r) ==
    /\ ValidChainAndAgent(r)
    /\ r.op \in Actions =>
         /\ r.asset \in Assets
         /\ ValidAmount(r)
         /\ r.op \in {"repay", "borrow"} => Mode(r) \in Modes
         /\ r.op = "borrow" => MinHealthFactor(r) >= Wad

-----------------------------------------------------------------------------
(* The calls. *)

Approve(token, amount) == [to |-> "token", fn |-> "approve", token |-> token, amount |-> amount]
PoolSupply(asset, amount, owner) ==
    [to |-> "pool", fn |-> "supply", asset |-> asset, amount |-> amount, owner |-> owner]
PoolWithdraw(asset, amount, to) ==
    [to |-> "pool", fn |-> "withdraw", asset |-> asset, amount |-> amount, recipient |-> to]
PoolRepay(asset, amount, mode, owner) ==
    [to |-> "pool", fn |-> "repay", asset |-> asset, amount |-> amount,
     mode |-> mode, owner |-> owner]
PoolBorrow(asset, amount, mode, owner) ==
    [to |-> "pool", fn |-> "borrow", asset |-> asset, amount |-> amount,
     mode |-> mode, owner |-> owner]

CompileSupply(r) ==
    LET n == Amount(r, FALSE)
    IN <<Approve(r.asset, n), PoolSupply(r.asset, n, "wallet")>>
CompileWithdraw(r) == <<PoolWithdraw(r.asset, Amount(r, TRUE), r.to)>>
CompileRepay(r) ==
    LET n == Amount(r, FALSE)
    IN <<Approve(r.asset, n), PoolRepay(r.asset, n, Mode(r), r.on_behalf_of)>>
CompileBorrow(r) == <<PoolBorrow(r.asset, Amount(r, FALSE), Mode(r), r.on_behalf_of)>>

-----------------------------------------------------------------------------
(* The borrow guard, over the account and the price that were read. *)

\* getUserAccountData returns six words.
AccountData(words) ==
    [collateral |-> words[1], debt |-> words[2], available |-> words[3],
     threshold |-> words[4], ltv |-> words[5], health |-> words[6]]

TokenToBase(n, price, asset) == CheckedDiv(CheckedMul(n, price), Unit(asset))
BaseToTokenFloor(n, price, asset) == CheckedDiv(CheckedMul(n, Unit(asset)), price)

CollateralAtThreshold(account) == CheckedMulDiv(account.collateral, account.threshold, Bps)

MaxBorrowBaseForHealth(account, min) ==
    LET most == CheckedMulDiv(CollateralAtThreshold(account), Wad, min)
    IN IF most = Err THEN Err ELSE SaturatingSub(most, account.debt)

MaxBorrow(account, price, r) ==
    LET limited == MaxBorrowBaseForHealth(account, MinHealthFactor(r))
    IN IF limited = Err THEN Err
       ELSE BaseToTokenFloor(Lesser(account.available, limited), price, r.asset)

ResolveBorrow(account, price, r) ==
    IF IsMax(r) THEN MaxBorrow(account, price, r) ELSE Amount(r, TRUE)

GuardBorrowHealth(account, price, n, r) ==
    LET requested == TokenToBase(n, price, r.asset)
        projected == CheckedAdd(account.debt, requested)
        health == CheckedMulDiv(CollateralAtThreshold(account), Wad, projected)
    IN /\ requested \notin {Err, 0}
       /\ requested <= account.available
       /\ projected # Err
       /\ health # Err
       /\ health >= MinHealthFactor(r)

\* Mutant of ResolveRepay: all of the balance, whatever is owed.
ResolveRepayWithBalance(debt, balance) == IF 0 \in {debt, balance} THEN Err ELSE balance

\* The smaller of the debt and the balance; Err when either is zero.
ResolveRepay(debt, balance) == IF 0 \in {debt, balance} THEN Err ELSE Lesser(debt, balance)

-----------------------------------------------------------------------------
(* The handlers. *)

Reads(r) ==
    CASE r.op = "borrow" -> <<"account", "price">>
      [] r.op = "repay" /\ IsMax(r) -> <<"debt", "balance">>
      [] r.op = "position" -> <<"account">>
      [] r.op = "balances" -> <<"WETH", "USDC">>
      [] OTHER -> <<>>

\* Compiling resolves the amount again, without "max", and refuses zero.
Reject == [kind |-> "rejected"]
Calls(calls) ==
    IF \E i \in DOMAIN calls : calls[i].amount \in {Err, 0} THEN Reject
    ELSE [kind |-> "calls", calls |-> calls]

DecideBorrow(r, account, price) ==
    LET n == ResolveBorrow(account, price, r)
    IN IF \/ 0 \in {account.collateral, account.available, price}
          \/ n \in {Err, 0}
          \/ ~GuardBorrowHealth(account, price, n, r)
       THEN Reject
       ELSE Calls(CompileBorrow(WithAmountRaw(r, n)))

DecideRepay(r, seen) ==
    IF ~IsMax(r) THEN Calls(CompileRepay(r))
    ELSE LET n == ResolveRepay(seen[1], seen[2])
         IN IF n = Err THEN Reject ELSE Calls(CompileRepay(WithAmountRaw(r, n)))

Decide(r, seen) ==
    CASE r.op = "supply" -> Calls(CompileSupply(r))
      [] r.op = "withdraw" -> Calls(CompileWithdraw(r))
      [] r.op = "repay" -> DecideRepay(r, seen)
      [] r.op = "borrow" -> DecideBorrow(r, AccountData(seen[1]), seen[2])
      [] r.op = "position" -> [kind |-> "answer", answer |-> AccountData(seen[1])]
      [] r.op = "balances" ->
           [kind |-> "answer", answer |-> [WETH |-> seen[1], USDC |-> seen[2]]]

-----------------------------------------------------------------------------
(* External: the pool on its chain.  The wallet holds balance, has         *)
(* approved allowance to the pool; an owner has supplied and owes.         *)

Threshold == 8
Ltv == 7

States ==
    [price : [Assets -> Nat], balance : [Assets -> Nat], allowance : [Assets -> 0..MaxUint],
     supplied : [Owners -> [Assets -> Nat]], debt : [Owners -> [Modes -> [Assets -> Nat]]]]

InBase(c, amounts) ==
    FoldLeft(LAMBDA acc, a : acc + (amounts[a] * c.price[a]) \div Unit(a), 0, <<"WETH", "USDC">>)
CollateralBase(c, owner) == InBase(c, c.supplied[owner])
DebtBase(c, owner) ==
    InBase(c, [a \in Assets |-> c.debt[owner][1][a] + c.debt[owner][2][a]])
AvailableBase(c, owner) ==
    SaturatingSub((CollateralBase(c, owner) * Ltv) \div Bps, DebtBase(c, owner))

\* Health of an owner at least min (in Wad).
HealthyAt(c, owner, min) ==
    CollateralBase(c, owner) * Threshold * Wad >= min * DebtBase(c, owner) * Bps

UserAccountData(c, owner) ==
    LET debt == DebtBase(c, owner)
        atThreshold == (CollateralBase(c, owner) * Threshold) \div Bps
    IN <<CollateralBase(c, owner), debt, AvailableBase(c, owner), Threshold, Ltv,
         IF debt = 0 THEN MaxUint ELSE (atThreshold * Wad) \div debt>>

AssetBalances(c, asset) ==
    [wallet |-> c.balance[asset], supplied |-> c.supplied["wallet"][asset],
     stable |-> c.debt["wallet"][1][asset], variable |-> c.debt["wallet"][2][asset]]

Read(c, what, r) ==
    CASE what = "account" -> UserAccountData(c, "wallet")
      [] what = "price" -> c.price[r.asset]
      [] what = "debt" -> c.debt[r.on_behalf_of][Mode(r)][r.asset]
      [] what = "balance" -> c.balance[r.asset]
      [] what \in Assets -> AssetBalances(c, what)

OnSupply(c, k) ==
    IF k.amount > Lesser(c.balance[k.asset], c.allowance[k.asset]) THEN {}
    ELSE {[c EXCEPT !.balance[k.asset] = @ - k.amount,
                    !.allowance[k.asset] = @ - k.amount,
                    !.supplied[k.owner][k.asset] = @ + k.amount]}

OnWithdraw(c, k) ==
    LET supplied == c.supplied["wallet"][k.asset]
        n == IF k.amount = MaxUint THEN supplied ELSE k.amount
        after == [c EXCEPT !.supplied["wallet"][k.asset] = @ - n,
                           !.balance[k.asset] = @ + (IF k.recipient = "wallet" THEN n ELSE 0)]
    IN IF n = 0 \/ n > supplied \/ ~HealthyAt(after, "wallet", Wad) THEN {} ELSE {after}

OnRepay(c, k) ==
    LET debt == c.debt[k.owner][k.mode][k.asset]
        n == Lesser(k.amount, debt)
    IN IF \/ n = 0 \/ n > Lesser(c.balance[k.asset], c.allowance[k.asset])
          \/ k.amount = MaxUint /\ k.owner # "wallet"
       THEN {}
       ELSE {[c EXCEPT !.balance[k.asset] = @ - n, !.allowance[k.asset] = @ - n,
                       !.debt[k.owner][k.mode][k.asset] = @ - n]}

\* An owner other than the sender has delegated credit to it.
OnBorrow(c, k) ==
    IF (k.amount * c.price[k.asset]) \div Unit(k.asset) > AvailableBase(c, k.owner) THEN {}
    ELSE {[c EXCEPT !.debt[k.owner][k.mode][k.asset] = @ + k.amount,
                    !.balance[k.asset] = @ + k.amount]}

Call(c, k) ==
    CASE k.fn = "approve" -> {[c EXCEPT !.allowance[k.token] = k.amount]}
      [] k.fn = "supply" -> OnSupply(c, k)
      [] k.fn = "withdraw" -> OnWithdraw(c, k)
      [] k.fn = "repay" -> OnRepay(c, k)
      [] k.fn = "borrow" -> OnBorrow(c, k)

\* The collateral loses value; a debt accrues interest.
Moves(c) ==
    {[c EXCEPT !.price["WETH"] = p] : p \in {8, 12} \ {c.price["WETH"]}}
    \cup {[c EXCEPT !.debt["wallet"][2]["USDC"] = @ + 1] :
            x \in {y \in {"interest"} : c.debt["wallet"][2]["USDC"] > 0}}
=============================================================================
