----------------------------- MODULE MCTrading -----------------------------
(***************************************************************************)
(* The instance of TradingProtocols that TLC checks.                       *)
(***************************************************************************)
EXTENDS TradingProtocols, TLC

CONSTANTS h1, h2
MCHandlers == {h1, h2}
SwapHandlers == Permutations(MCHandlers)

Raw(n) == Uniswap!Number(n, <<>>)

U == Uniswap!Blank
MCUniswapRequests ==
    { U,
      [U EXCEPT !.pool = "p2", !.limit = Raw(39), !.deadline = 1],
      [U EXCEPT !.kind = "exact_out", !.amount = Raw(15), !.order = <<"p3", "p2", "p1">>],
      [U EXCEPT !.token_in = "TOK", !.token_out = "ETH", !.deadline = 4],
      [U EXCEPT !.token_in = "TOK", !.token_out = "ETH", !.kind = "exact_out",
                !.pool = "p2", !.amount = Raw(3), !.limit = Raw(6)],
      [U EXCEPT !.pool = "p3", !.slippage = 10],
      [U EXCEPT !.pool = "partial"],
      [U EXCEPT !.op = "quote", !.order = <<"p3", "p2", "p1">>, !.include_hooked = TRUE],
      [U EXCEPT !.op = "quote", !.order = <<"p2", "p1", "p3">>, !.kind = "exact_out"],
      [U EXCEPT !.op = "pool", !.pool = "p1"],
      [U EXCEPT !.op = "pools"],
      [U EXCEPT !.op = "balances"] }

UniswapPool(rate, depth, hooked, initialized, gas) ==
    [rate |-> rate, depth |-> depth, hooked |-> hooked, initialized |-> initialized, gas |-> gas]
UniswapChain(allowance, p3) ==
    [now |-> 0,
     pool |-> [p1 |-> UniswapPool(20, 90, FALSE, TRUE, 2),
               p2 |-> UniswapPool(20, 60, FALSE, TRUE, 1), p3 |-> p3],
     listed |-> [ok |-> TRUE, pools |-> {"p1", "p2"}],
     balance |-> [ETH |-> 35, TOK |-> 30],
     allowance |-> [TOK |-> allowance],
     permit |-> [TOK |-> [amount |-> 0, until |-> 0]],
     router |-> 0]
MCUniswapChains ==
    { UniswapChain(0, UniswapPool(25, 90, TRUE, TRUE, 1)),
      [UniswapChain(5, UniswapPool(20, 90, FALSE, FALSE, 1)) EXCEPT !.listed.pools = {"p1", "p2", "p3"}] }

B == Balancer!Blank
BalancerSwap == [B EXCEPT !.order = <<"p2", "p1", "p3">>]
MCBalancerRequests ==
    { B,
      [BalancerSwap EXCEPT !.pool = "p1", !.limit = Raw(35), !.deadline = 1],
      [BalancerSwap EXCEPT !.kind = "exact_out", !.amount = Raw(15), !.deadline = 4],
      [BalancerSwap EXCEPT !.token_in = "B", !.token_out = "A", !.amount = Raw(700)],
      [BalancerSwap EXCEPT !.op = "quote"],
      [B EXCEPT !.op = "quote", !.order = <<"p3", "p2", "p1">>, !.kind = "exact_out"],
      [B EXCEPT !.op = "add", !.pool = "p1",
                !.amounts = <<Balancer!Entry("B", 6), Balancer!Entry("A", 4)>>],
      [B EXCEPT !.op = "add", !.pool = "p1", !.amounts = <<Balancer!Entry("A", 4)>>,
                !.bpt = Raw(2), !.deadline = 1],
      [B EXCEPT !.op = "add", !.pool = "p3",
                !.amounts = <<Balancer!Entry("A", 4), Balancer!Entry("A", 4)>>],
      [B EXCEPT !.op = "add_quote", !.pool = "p1", !.amounts = <<Balancer!Entry("C", 4)>>],
      [B EXCEPT !.op = "remove", !.pool = "p1", !.bpt = Raw(5)],
      [B EXCEPT !.op = "remove", !.pool = "p1", !.bpt = Raw(4), !.amounts = <<Balancer!Entry("A", 3)>>],
      [B EXCEPT !.op = "remove_quote", !.pool = "p1", !.bpt = Raw(9)],
      [B EXCEPT !.op = "pool", !.pool = "p3"],
      [B EXCEPT !.op = "pools"],
      [B EXCEPT !.op = "balances", !.pool = "p1"] }

BalancerPool(rate, tokens) ==
    [tokens |-> tokens, registered |-> TRUE, initialized |-> TRUE, paused |-> FALSE,
     recovery |-> FALSE, rate |-> rate, supply |-> 60, held |-> [A |-> 60, B |-> 90]]
BalancerChain(allowance, api) ==
    [now |-> 0,
     pool |-> [p1 |-> BalancerPool(20, <<"A", "B">>), p2 |-> BalancerPool(20, <<"A", "B">>),
               p3 |-> [BalancerPool(25, <<"A", "B">>) EXCEPT !.registered = FALSE]],
     api |-> api,
     indexed |-> [ok |-> TRUE, pools |-> {"p2", "p3"}],
     balance |-> [A |-> 30, B |-> 30, p1 |-> 6, p2 |-> 0, p3 |-> 0],
     allowance |-> [A |-> allowance, B |-> 0, p1 |-> allowance, p2 |-> 0, p3 |-> 0],
     permit |-> [A |-> [amount |-> 0, until |-> 0], B |-> [amount |-> 0, until |-> 0]]]
MCBalancerChains ==
    { BalancerChain(0, [ok |-> TRUE, pools |-> {"p1", "p3"}]),
      BalancerChain(5, [ok |-> FALSE, pools |-> {}]) }

G == Gmx!Blank
MCGmxRequests ==
    { G,
      [G EXCEPT !.receiver = "friend"],
      [G EXCEPT !.cancellation_receiver = "friend", !.type = "limit_decrease"],
      [G EXCEPT !.type = "market_swap", !.min_output = Raw(1), !.token = "S", !.amount = Raw(2)],
      [G EXCEPT !.type = "market_swap", !.min_output = Raw(1), !.swap_path = <<"GM">>],
      [G EXCEPT !.size = Raw(0)],
      [G EXCEPT !.type = "market_swap", !.min_output = Raw(1), !.price = Gmx!Malformed],
      [G EXCEPT !.op = "deposit", !.amount2 = Raw(2)],
      [G EXCEPT !.op = "deposit", !.amount2 = Raw(5)],
      [G EXCEPT !.op = "deposit", !.amount2 = Raw(2), !.token2 = "L"],
      [G EXCEPT !.op = "deposit", !.amount = Gmx!Absent, !.amount2 = Raw(2)],
      [G EXCEPT !.op = "withdrawal", !.amount = Raw(2)],
      [G EXCEPT !.op = "withdrawal", !.amount = Gmx!Malformed],
      [G EXCEPT !.op = "cancel_order", !.key = 2],
      [G EXCEPT !.op = "cancel", !.type = "deposit", !.key = 3],
      [G EXCEPT !.op = "update", !.min_output = Raw(0)],
      [G EXCEPT !.op = "claim", !.type = "funding_fees", !.tokens = <<"L">>, !.markets = <<"GM">>],
      [G EXCEPT !.op = "claim", !.type = "collateral", !.tokens = <<"S">>, !.markets = <<"GM">>,
                !.time_keys = <<1, 2>>],
      [G EXCEPT !.op = "orders", !.start = 1],
      [G EXCEPT !.op = "orders", !.start = 1, !.end = 6],
      [G EXCEPT !.op = "markets"],
      [G EXCEPT !.op = "balances"] }

GmxChain(requests) ==
    [owned |-> [wallet |-> [ETH |-> 3, L |-> 4, S |-> 3, GM |-> 2],
                friend |-> Gmx!Nothing, zero |-> Gmx!Nothing],
     allowance |-> [L |-> 0, S |-> 0, GM |-> 0],
     taken |-> Gmx!Nothing,
     sent |-> [order |-> Gmx!Nothing, deposit |-> Gmx!Nothing, withdrawal |-> Gmx!Nothing],
     requests |-> requests,
     keys |-> 1,
     claimable |-> [funding_fees |-> [Gmx!Nothing EXCEPT !.L = 1],
                    collateral |-> [Gmx!Nothing EXCEPT !.S = 1],
                    affiliate_rewards |-> Gmx!Nothing, ui_fees |-> Gmx!Nothing]]
MCGmxChains ==
    { GmxChain(<<>>),
      GmxChain(<<[vault |-> "order", key |-> 1, funds |-> [Gmx!Nothing EXCEPT !.ETH = 1, !.L = 2],
                  receiver |-> "wallet", refund |-> "wallet", size |-> 4]>>) }
=============================================================================
