---------------------------- MODULE MCLending ----------------------------
(***************************************************************************)
(* The instance of LendingProtocols that TLC checks.  The requests of each *)
(* adapter cover its operations, "max" and explicit amounts, a human       *)
(* amount with decimals, and the ways a request is refused.                *)
(***************************************************************************)
EXTENDS LendingProtocols, TLC

A == Aave!Blank
Max == Aave!MaxText
Raw(n) == Aave!Number(n, <<>>)
Dec(whole, digit) == Aave!Number(whole, <<digit>>)

CONSTANTS h1, h2
MCHandlers == {h1, h2}
SwapHandlers == Permutations(MCHandlers)

MCAaveRequests ==
    { [A EXCEPT !.op = "supply", !.asset = "WETH", !.amount = Dec(0, 5)],
      [A EXCEPT !.op = "supply", !.amount = Max],
      [A EXCEPT !.op = "withdraw", !.asset = "WETH", !.amount = Raw(1)],
      [A EXCEPT !.op = "withdraw", !.asset = "WETH", !.amount = Max],
      [A EXCEPT !.op = "withdraw", !.asset = "WETH", !.amount_raw = Raw(2), !.to = "friend"],
      [A EXCEPT !.op = "repay", !.amount_raw = Max],
      [A EXCEPT !.op = "repay", !.amount_raw = Raw(9)],
      [A EXCEPT !.op = "repay", !.amount_raw = Raw(40000)],
      [A EXCEPT !.op = "repay", !.amount_raw = Raw(1), !.amount = Dec(1, 0)],
      [A EXCEPT !.op = "borrow", !.amount = Max],
      [A EXCEPT !.op = "borrow", !.amount = Raw(3),
                !.min_health_factor = Aave!Number(1, <<5>>)],
      [A EXCEPT !.op = "borrow", !.amount_raw = Raw(2), !.on_behalf_of = "friend"],
      [A EXCEPT !.op = "borrow", !.asset = "WETH", !.amount = Dec(0, 1)],
      [A EXCEPT !.op = "borrow", !.amount_raw = Raw(Aave!MaxUint), !.interest_rate_mode = 1],
      [A EXCEPT !.op = "position"],
      [A EXCEPT !.op = "balances"] }

AaveChain(debt, stable) ==
    [price |-> [WETH |-> 12, USDC |-> 1],
     balance |-> [WETH |-> 8, USDC |-> 2],
     allowance |-> [WETH |-> 0, USDC |-> 0],
     supplied |-> [wallet |-> [WETH |-> 10, USDC |-> 0], friend |-> [WETH |-> 10, USDC |-> 0]],
     debt |-> [wallet |-> <<[WETH |-> 0, USDC |-> stable], [WETH |-> 0, USDC |-> debt]>>,
               friend |-> <<[WETH |-> 0, USDC |-> 0], [WETH |-> 0, USDC |-> 3]>>]]
MCAaveChains == {AaveChain(0, 0), AaveChain(3, 1), AaveChain(1, 0)}

C == Compound!Blank
MCCompoundRequests ==
    { [C EXCEPT !.op = "supply", !.amount = Max],
      [C EXCEPT !.op = "supply", !.asset = "WETH", !.market = "usdc", !.amount = Dec(0, 5)],
      [C EXCEPT !.op = "supply", !.asset = "cbeth_address", !.market = "weth", !.amount_raw = Max],
      [C EXCEPT !.op = "supply", !.asset = "cbeth_address", !.market = "weth", !.amount = Raw(1)],
      [C EXCEPT !.op = "withdraw", !.amount = Max],
      [C EXCEPT !.op = "withdraw", !.amount_raw = Raw(4)],
      [C EXCEPT !.op = "withdraw", !.asset = "weth_address", !.market = "usdc", !.amount_raw = Max],
      [C EXCEPT !.op = "repay", !.amount = Max],
      [C EXCEPT !.op = "repay", !.asset = "usdc_address", !.amount_raw = Raw(3)],
      [C EXCEPT !.op = "repay", !.amount_raw = Raw(Aave!MaxUint)],
      [C EXCEPT !.op = "repay", !.asset = "WETH", !.market = "usdc", !.amount_raw = Raw(3)],
      [C EXCEPT !.op = "borrow", !.amount = Raw(2)],
      [C EXCEPT !.op = "borrow", !.amount = Max],
      [C EXCEPT !.op = "borrow", !.asset = "WETH", !.amount = Dec(0, 2)],
      [C EXCEPT !.op = "markets"],
      [C EXCEPT !.op = "position"],
      [C EXCEPT !.op = "balances", !.market = "weth"],
      [C EXCEPT !.op = "borrow_capacity"] }

CompoundChain(base, reported) ==
    [reported |-> [usdc |-> reported, weth |-> "WETH"],
     price |-> [USDC |-> 1, WETH |-> 12, CBETH |-> 13],
     balance |-> [USDC |-> 3, WETH |-> 5, CBETH |-> 5],
     allowance |-> [USDC |-> 0, WETH |-> 0, CBETH |-> 0],
     base |-> [usdc |-> base, weth |-> 0],
     collateral |-> [usdc |-> 10, weth |-> 5]]
MCCompoundChains == {CompoundChain(4, "USDC"), CompoundChain(-2, "USDC"),
                     CompoundChain(-4, "USDC"), CompoundChain(4, "OTHER")}

M == Morpho!Blank
MCMorphoRequests ==
    { [M EXCEPT !.op = "supply", !.amount = Max],
      [M EXCEPT !.op = "supply", !.amount = Dec(2, 7), !.min_health_factor = Raw(2)],
      [M EXCEPT !.op = "supply", !.amount = Dec(2, 7)],
      [M EXCEPT !.op = "withdraw", !.amount = Max],
      [M EXCEPT !.op = "withdraw", !.amount_raw = Raw(1)],
      [M EXCEPT !.op = "supply_collateral", !.amount_raw = Raw(2)],
      [M EXCEPT !.op = "withdraw_collateral", !.amount = Max],
      [M EXCEPT !.op = "withdraw_collateral", !.amount = Raw(2)],
      [M EXCEPT !.op = "borrow", !.amount = Raw(3)],
      [M EXCEPT !.op = "borrow", !.amount = Raw(2), !.min_health_factor = Dec(1, 5)],
      [M EXCEPT !.op = "borrow", !.amount = Morpho!Negative(1)],
      [M EXCEPT !.op = "repay", !.amount = Max],
      [M EXCEPT !.op = "repay", !.amount_raw = Raw(2)],
      [M EXCEPT !.op = "position"],
      [M EXCEPT !.op = "market"] }

MorphoChain(borrowShares, configured, fee) ==
    [state |-> [supplyAssets |-> 40, supplyShares |-> 70, borrowAssets |-> 20,
                borrowShares |-> 36, fee |-> fee],
     rate |-> 10, elapsed |-> 1, price |-> 2, lltv |-> 80, configured |-> configured,
     position |-> [supplyShares |-> IF configured THEN 9 ELSE 7, borrowShares |-> borrowShares,
                   collateral |-> IF configured THEN 6 ELSE 0],
     balance |-> [loan |-> 7, collateral |-> 3],
     allowance |-> [loan |-> 1, collateral |-> 0]]
MCMorphoChains == {MorphoChain(0, TRUE, 0), MorphoChain(5, TRUE, 50), MorphoChain(0, FALSE, 0)}
=============================================================================
