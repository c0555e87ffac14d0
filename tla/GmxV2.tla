-------------------------------- MODULE GmxV2 --------------------------------
(***************************************************************************)
(* The GMX V2 adapter: orders, deposits and withdrawals, which only create *)
(* a request that GMX's keepers execute or cancel later; their             *)
(* cancellation and update; claims; and the range queries.  Options that   *)
(* are passed through (callbacks, referral, trigger price, is_long, the    *)
(* decrease swap type) are left out, and so is what a position pays out.   *)
(* A page of 50 is scaled to 2, its limit of 100 to 4.  The vaults, the    *)
(* keepers and the tokens are external.                                    *)
(***************************************************************************)
EXTENDS Amounts

PageSize == 2
MaxPage == 4
Zero == "zero"                          \* the zero address
MaxIndex == 9                           \* u64::MAX

Increases == {"market_increase", "limit_increase", "stop_increase"}
Decreases == {"market_decrease", "limit_decrease", "stop_loss_decrease"}
SwapOrders == {"market_swap", "limit_swap"}

\* receiver and cancellation_receiver are "" when left out; token and amount
\* are the collateral of an order, or what is deposited or withdrawn first.
Blank == [op |-> "order", agent_id |-> "agent", chain |-> "arbitrum",
          type |-> "market_increase", market |-> "GM", swap_path |-> <<>>,
          token |-> "L", amount |-> Number(3, <<>>), token2 |-> "S", amount2 |-> Absent,
          size |-> Number(9, <<>>), price |-> Number(7, <<>>), min_output |-> Absent,
          fee |-> Number(1, <<>>), receiver |-> "", cancellation_receiver |-> "",
          key |-> 1, tokens |-> <<>>, markets |-> <<>>, time_keys |-> <<>>,
          start |-> 0, end |-> Err]
Queries == {"markets", "positions", "orders", "balances"}
Operations == {"order", "deposit", "withdrawal", "cancel_order", "cancel", "update", "claim"} \cup Queries
Claims == {"funding_fees", "collateral", "affiliate_rewards", "ui_fees"}

ParseU256(text) == ParseRaw(text)
Positive(text) == ParseU256(text) \notin {0, Err}
OrZero(text) == IF text = Absent THEN 0 ELSE ParseU256(text)

ValidCreateOrder(r) ==
    /\ Positive(r.amount) /\ Positive(r.fee)
    /\ r.type \in Increases \cup Decreases => Positive(r.size) /\ Positive(r.price)
    /\ r.type \in SwapOrders => /\ (r.market # Zero) # (r.swap_path # <<>>)
                                /\ Positive(r.min_output)
    /\ r.type \in Increases \cup Decreases \cup SwapOrders

ValidCreateDeposit(r) ==
    /\ Err \notin {OrZero(r.amount), OrZero(r.amount2)}
    /\ OrZero(r.amount) > 0 \/ OrZero(r.amount2) > 0
    /\ Positive(r.fee)

ValidCreateWithdrawal(r) == Positive(r.amount) /\ Positive(r.fee)

ValidCancel(r) == r.type \in {"order", "deposit", "withdrawal", "shift"}

ValidUpdate(r) == Err \notin {ParseU256(r.size), ParseU256(r.price), ParseU256(r.min_output)}

ValidClaim(r) ==
    /\ r.markets # <<>> /\ Len(r.markets) = Len(r.tokens)
    /\ r.type \in Claims
    /\ r.type = "collateral" => r.time_keys # <<>>

End(r) == IF r.end = Err THEN Lesser(r.start + PageSize, MaxIndex) ELSE r.end
ValidRange(r) == End(r) > r.start /\ End(r) - r.start <= MaxPage

Valid(r) ==
    /\ r.chain = "arbitrum"
    /\ r.op # "markets" => r.agent_id # ""
    /\ CASE r.op = "order" -> ValidCreateOrder(r)
         [] r.op = "deposit" -> ValidCreateDeposit(r)
         [] r.op = "withdrawal" -> ValidCreateWithdrawal(r)
         [] r.op = "cancel_order" -> TRUE
         [] r.op = "cancel" -> ValidCancel(r)
         [] r.op = "update" -> ValidUpdate(r)
         [] r.op = "claim" -> ValidClaim(r)
         [] r.op \in Queries -> ValidRange(r)

-----------------------------------------------------------------------------
(* The calls.  A multicall of the exchange router is its calls, one after  *)
(* the other; its value is the fee that sendWnt passes on.                 *)

Receiver(r) == IF r.receiver = "" THEN "wallet" ELSE r.receiver

RefundToNobody(r) ==                     \* mutant of CancellationReceiver
    IF r.cancellation_receiver = "" THEN Zero ELSE r.cancellation_receiver

CancellationReceiver(r) ==
    IF r.cancellation_receiver = "" THEN Receiver(r) ELSE r.cancellation_receiver

Approve(token, n) == [fn |-> "approve", token |-> token, amount |-> n]
SendWnt(vault, fee) == [fn |-> "send_wnt", vault |-> vault, amount |-> fee, value |-> fee]
SendTokens(token, vault, n) == [fn |-> "send_tokens", token |-> token, vault |-> vault, amount |-> n]

\* The market of a swap order is the zero address, its path the request's
\* or its market.
NormalizedMarket(r) == IF r.type \in SwapOrders THEN Zero ELSE r.market
NormalizedSwapPath(r) ==
    IF r.type \in SwapOrders /\ r.swap_path = <<>> THEN <<r.market>> ELSE r.swap_path

\* type is what the request is, tokens the ones it names as its funds.  The
\* collateral is what a decrease asks of its position.
CreateOrder(r) ==
    [fn |-> "create", vault |-> "order", type |-> r.type, tokens |-> {r.token},
     collateral |-> ParseU256(r.amount), fee |-> ParseU256(r.fee),
     receiver |-> Receiver(r), refund |-> CancellationReceiver(r),
     market |-> NormalizedMarket(r), path |-> NormalizedSwapPath(r), size |-> OrZero(r.size)]
CreateDeposit(r) ==
    [fn |-> "create", vault |-> "deposit", type |-> "deposit", tokens |-> {r.token, r.token2},
     collateral |-> 0, fee |-> ParseU256(r.fee),
     receiver |-> Receiver(r), refund |-> "wallet", market |-> r.market, path |-> r.swap_path,
     size |-> 0]
CreateWithdrawal(r) ==
    [fn |-> "create", vault |-> "withdrawal", type |-> "withdrawal", tokens |-> {r.market},
     collateral |-> 0, fee |-> ParseU256(r.fee),
     receiver |-> Receiver(r), refund |-> "wallet", market |-> r.market, path |-> r.swap_path,
     size |-> 0]

\* The collateral is sent for every type of order, a decrease included.
CompileCreateOrder(r) ==
    LET n == ParseU256(r.amount)
    IN <<Approve(r.token, n), SendWnt("order", ParseU256(r.fee)),
         SendTokens(r.token, "order", n), CreateOrder(r)>>

CompileCreateDeposit(r) ==
    LET long == OrZero(r.amount)
        short == OrZero(r.amount2)
        only(n, call) == IF n = 0 THEN <<>> ELSE <<call>>
    IN only(long, Approve(r.token, long)) \o only(short, Approve(r.token2, short))
       \o <<SendWnt("deposit", ParseU256(r.fee))>>
       \o only(long, SendTokens(r.token, "deposit", long))
       \o only(short, SendTokens(r.token2, "deposit", short))
       \o <<CreateDeposit(r)>>

CompileCreateWithdrawal(r) ==
    LET n == ParseU256(r.amount)
    IN <<Approve(r.market, n), SendWnt("withdrawal", ParseU256(r.fee)),
         SendTokens(r.market, "withdrawal", n), CreateWithdrawal(r)>>

CompileCancelOrder(r) == <<[fn |-> "cancel", vault |-> "order", key |-> r.key]>>
CompileCancel(r) == <<[fn |-> "cancel", vault |-> r.type, key |-> r.key]>>
CompileUpdateOrder(r) == <<[fn |-> "update", key |-> r.key, size |-> ParseU256(r.size)]>>
CompileClaim(r) ==
    <<[fn |-> "claim", type |-> r.type, tokens |-> r.tokens, receiver |-> Receiver(r),
       times |-> IF r.type = "collateral" THEN Len(r.time_keys) ELSE Len(r.tokens)]>>

-----------------------------------------------------------------------------
(* The handlers. *)

\* The balances the guards read, of the tokens whose amount is not zero.
Reads(r) ==
    CASE r.op = "order" -> <<"amount">>
      [] r.op = "deposit" -> (IF OrZero(r.amount) = 0 THEN <<>> ELSE <<"amount">>)
                             \o (IF OrZero(r.amount2) = 0 THEN <<>> ELSE <<"amount2">>)
      [] r.op = "withdrawal" -> <<"market">>
      [] r.op \in Queries -> <<r.op>>
      [] OTHER -> <<>>

GuardFirstBalance(r, seen) ==            \* mutant of GuardBalances
    seen = <<>> \/ seen[1] >= (IF OrZero(r.amount) > 0 THEN OrZero(r.amount) ELSE OrZero(r.amount2))

\* Each token on its own: two amounts of one token are not added up; the fee
\* is not looked at.
GuardBalances(r, seen) ==
    CASE r.op = "order" -> seen[1] >= ParseU256(r.amount)
      [] r.op = "withdrawal" -> seen[1] >= ParseU256(r.amount)
      [] r.op = "deposit" -> /\ OrZero(r.amount) > 0 => seen[1] >= OrZero(r.amount)
                             /\ OrZero(r.amount2) > 0 => seen[Len(seen)] >= OrZero(r.amount2)
      [] OTHER -> TRUE

\* The encoder reads every number of an order, those of other types included.
Encodes(r) ==
    r.op = "order" => Err \notin {OrZero(r.size), OrZero(r.price), OrZero(r.min_output)}

Compile(r) ==
    CASE r.op = "order" -> CompileCreateOrder(r)
      [] r.op = "deposit" -> CompileCreateDeposit(r)
      [] r.op = "withdrawal" -> CompileCreateWithdrawal(r)
      [] r.op = "cancel_order" -> CompileCancelOrder(r)
      [] r.op = "cancel" -> CompileCancel(r)
      [] r.op = "update" -> CompileUpdateOrder(r)
      [] r.op = "claim" -> CompileClaim(r)

Decide(r, seen) ==
    IF r.op \in Queries THEN [kind |-> "answer", answer |-> seen[1]]
    ELSE IF ~GuardBalances(r, seen) \/ ~Encodes(r) THEN [kind |-> "rejected"]
    ELSE [kind |-> "calls", calls |-> Compile(r)]

-----------------------------------------------------------------------------
(* External: GMX.  A request is credited with what its vault holds of the  *)
(* tokens it names as its funds, and of the fee; a decrease, which is paid *)
(* from its position, with the fee only.  What is not credited stays in    *)
(* the vault, where the next request that names the token is credited with *)
(* it, whoever creates it.  A keeper executes or cancels a request.        *)

Nothing == [ETH |-> 0, L |-> 0, S |-> 0, GM |-> 0]
Holdings == [DOMAIN Nothing -> Int]
Vaults == {"order", "deposit", "withdrawal"}

\* keys counts the requests that were ever created; taken is what requests of
\* other accounts were credited with; names are those a request may name.
States(parties, names) ==
    [owned : [parties -> Holdings], allowance : [{"L", "S", "GM"} -> Int],
     sent : [Vaults -> Holdings], taken : Holdings, keys : Nat, claimable : [Claims -> Holdings],
     requests : Seq([vault : Vaults, key : Nat, funds : Holdings,
                     receiver : names, refund : names, size : Int])]
Plus(a, b) == [t \in DOMAIN a |-> a[t] + b[t]]
Page(r, items) == SubSeq(items, r.start + 1, Lesser(End(r), Len(items)))

Read(c, what, r) ==
    CASE what = "amount" -> c.owned.wallet[r.token]
      [] what = "amount2" -> c.owned.wallet[r.token2]
      [] what = "market" -> c.owned.wallet[r.market]
      [] what = "orders" -> Page(r, SelectSeq(c.requests, LAMBDA q : q.vault = "order"))
      [] what = "balances" -> Page(r, <<c.owned.wallet>>)
      [] OTHER -> Page(r, <<"GM">>)

Send(c, token, vault, n) ==
    IF n > c.owned.wallet[token] THEN {}
    ELSE {[c EXCEPT !.owned.wallet[token] = @ - n, !.sent[vault][token] = @ + n]}

OnSendTokens(c, k) ==
    IF k.amount > c.allowance[k.token] THEN {}
    ELSE Send([c EXCEPT !.allowance[k.token] = @ - k.amount], k.token, k.vault, k.amount)

Recorded(k) == {"ETH"} \cup (IF k.type \in Decreases THEN {} ELSE k.tokens)
Credited(c, k) ==
    [t \in DOMAIN Nothing |-> IF t \in Recorded(k) THEN c.sent[k.vault][t] ELSE 0]

\* What an increase brings goes to the wallet's position.
OnCreate(c, k) ==
    LET got == Credited(c, k)
    IN IF \/ got.ETH < k.fee
          \/ k.type \notin Decreases /\ \A t \in DOMAIN Nothing \ {"ETH"} : got[t] = 0
       THEN {}
       ELSE {[c EXCEPT !.sent[k.vault] = [t \in DOMAIN Nothing |-> @[t] - got[t]],
                       !.requests = Append(@, [vault |-> k.vault, key |-> c.keys + 1, funds |-> got,
                                               receiver |-> IF k.type \in Increases THEN "wallet"
                                                            ELSE k.receiver,
                                               refund |-> k.refund, size |-> k.size]),
                       !.keys = @ + 1]}

Settle(c, i, to) ==
    [c EXCEPT !.requests = RemoveAt(@, i),
              !.owned[to] = Plus(@, c.requests[i].funds)]

OnCancel(c, k) ==
    {Settle(c, i, c.requests[i].refund) :
        i \in {j \in DOMAIN c.requests : c.requests[j].vault = k.vault /\ c.requests[j].key = k.key}}

OnUpdate(c, k) ==
    {[c EXCEPT !.requests[i].size = k.size] :
        i \in {j \in DOMAIN c.requests : c.requests[j].vault = "order" /\ c.requests[j].key = k.key}}

OnClaim(c, k) ==
    IF k.times # Len(k.tokens) THEN {}
    ELSE LET got == [t \in DOMAIN Nothing |-> IF t \in Range(k.tokens) THEN c.claimable[k.type][t] ELSE 0]
         IN {[c EXCEPT !.owned[k.receiver] = Plus(@, got),
                       !.claimable[k.type] = [t \in DOMAIN @ |-> @[t] - got[t]]]}

Call(c, k) ==
    CASE k.fn = "approve" -> {[c EXCEPT !.allowance[k.token] = k.amount]}
      [] k.fn = "send_wnt" -> IF k.value # k.amount THEN {} ELSE Send(c, "ETH", k.vault, k.amount)
      [] k.fn = "send_tokens" -> OnSendTokens(c, k)
      [] k.fn = "create" -> OnCreate(c, k)
      [] k.fn = "cancel" -> OnCancel(c, k)
      [] k.fn = "update" -> OnUpdate(c, k)
      [] k.fn = "claim" -> OnClaim(c, k)

\* Another account's request takes what is not credited.
Taken(c, v, t) == [c EXCEPT !.sent[v][t] = 0, !.taken[t] = @ + c.sent[v][t]]

\* A keeper executes or cancels the oldest request, or tokens arrive.
Moves(c) ==
    {[c EXCEPT !.owned.wallet.L = @ + 2]}
    \cup (IF c.requests = <<>> THEN {}
          ELSE {Settle(c, 1, to) : to \in {Head(c.requests).receiver, Head(c.requests).refund}})
    \cup {Taken(c, vt[1], vt[2]) :
             vt \in {p \in Vaults \X DOMAIN Nothing : c.sent[p[1]][p[2]] # 0}}
=============================================================================
