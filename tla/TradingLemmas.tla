---------------------------- MODULE TradingLemmas ----------------------------
(***************************************************************************)
(* What TradingProofs rests on.  Each adapter is an instance of            *)
(* ProtocolProofs: what a handler compiled it compiled from values read    *)
(* from chains of this behaviour, and a batch is executed call by call.    *)
(* An adapter adds what its chains are, that its calls and the market stay *)
(* in them, and what its batches do, whichever chain they are executed on; *)
(* Balancer's longer batches are in TradingProofs.                         *)
(***************************************************************************)
EXTENDS TradingProtocols, SequenceTheorems, TLAPS

\* The actions of TradingProtocols are those the general lemmas are about.
UniswapRuns == INSTANCE ProtocolProofs WITH
    Protocol <- "uniswap", Requests <- UniswapRequests, Valid <- Uniswap!Valid, Reads <- Uniswap!Reads,
    Read <- Uniswap!Read, Decide <- Uniswap!Decide, Call <- Uniswap!Call, Moves <- Uniswap!Moves

LEMMA UniswapSame ==
    /\ OnUniswap!Next => UniswapRuns!Next
    /\ \A h \in Handlers : OnUniswap!Succeeded(h) => UniswapRuns!Succeeded(h)
    /\ \A h \in Handlers : OnUniswap!Executed(h) => UniswapRuns!Executed(h)
    /\ \A c, calls : OnUniswap!Run(c, calls) = UniswapRuns!Run(c, calls)
    /\ OnUniswap!Idle = UniswapRuns!Idle
<1>1. \A c, calls : OnUniswap!Run(c, calls) = UniswapRuns!Run(c, calls)
  BY DEF OnUniswap!Run, UniswapRuns!Run
<1>2. \A t, by : OnUniswap!Overtaken(t, by) = UniswapRuns!Overtaken(t, by)
  BY DEF OnUniswap!Overtaken, UniswapRuns!Overtaken
<1>3. OnUniswap!Here => UniswapRuns!Here
  BY DEF OnUniswap!Here, UniswapRuns!Here
<1>4. ASSUME NEW h \in Handlers
      PROVE  /\ OnUniswap!Begin(h) => UniswapRuns!Begin(h)
             /\ OnUniswap!ReadNext(h) => UniswapRuns!ReadNext(h)
             /\ OnUniswap!Answer(h) => UniswapRuns!Answer(h)
             /\ OnUniswap!Simulate(h) => UniswapRuns!Simulate(h)
             /\ OnUniswap!Submit(h) => UniswapRuns!Submit(h)
  <2> USE <1>1, <1>3 DEF OnUniswap!HasRead, UniswapRuns!HasRead, OnUniswap!Decision, UniswapRuns!Decision, OnUniswap!Left, UniswapRuns!Left
  <2>1. OnUniswap!Begin(h) => UniswapRuns!Begin(h)
    BY DEF OnUniswap!Begin, UniswapRuns!Begin
  <2>2. OnUniswap!ReadNext(h) => UniswapRuns!ReadNext(h)
    BY DEF OnUniswap!ReadNext, UniswapRuns!ReadNext
  <2>3. OnUniswap!Answer(h) => UniswapRuns!Answer(h)
    BY DEF OnUniswap!Answer, UniswapRuns!Answer
  <2>4. OnUniswap!Simulate(h) => UniswapRuns!Simulate(h)
    BY DEF OnUniswap!Simulate, UniswapRuns!Simulate
  <2>5. OnUniswap!Submit(h) => UniswapRuns!Submit(h)
    BY DEF OnUniswap!Submit, UniswapRuns!Submit
  <2>6. QED
    BY <2>1, <2>2, <2>3, <2>4, <2>5
<1>5. ASSUME NEW h \in Handlers, OnUniswap!Mine(h)
      PROVE  UniswapRuns!Mine(h)
  <2> USE DEF OnUniswap!Mine, UniswapRuns!Mine
  <2>1. OnUniswap!Run(chain, task[h].result) = UniswapRuns!Run(chain, task[h].result)
    BY <1>1
  <2>2. PICK done : done = [task EXCEPT ![h].runs = @ + 1,
                                        ![h].stage = IF OnUniswap!Run(chain, task[h].result) = {}
                                                     THEN "reverted" ELSE "mined"]
    OBVIOUS
  <2>3. OnUniswap!Overtaken(done, "wallet") = UniswapRuns!Overtaken(done, "wallet")
    BY <1>2
  <2>4. QED
    BY <1>3, <1>5, <2>1, <2>2, <2>3
<1>6. OnUniswap!Move => UniswapRuns!Move
  BY <1>2, <1>3 DEF OnUniswap!Move, UniswapRuns!Move
<1>7. OnUniswap!Next => UniswapRuns!Next
  BY <1>4, <1>5, <1>6 DEF OnUniswap!Next, UniswapRuns!Next
<1>8. QED
  BY <1>1, <1>7 DEF OnUniswap!Succeeded, UniswapRuns!Succeeded, OnUniswap!Executed, UniswapRuns!Executed,
                    OnUniswap!Idle, UniswapRuns!Idle

BalancerRuns == INSTANCE ProtocolProofs WITH
    Protocol <- "balancer", Requests <- BalancerRequests, Valid <- Balancer!Valid, Reads <- Balancer!Reads,
    Read <- Balancer!Read, Decide <- Balancer!Decide, Call <- Balancer!Call, Moves <- Balancer!Moves

LEMMA BalancerSame ==
    /\ OnBalancer!Next => BalancerRuns!Next
    /\ \A h \in Handlers : OnBalancer!Succeeded(h) => BalancerRuns!Succeeded(h)
    /\ \A h \in Handlers : OnBalancer!Executed(h) => BalancerRuns!Executed(h)
    /\ \A c, calls : OnBalancer!Run(c, calls) = BalancerRuns!Run(c, calls)
    /\ OnBalancer!Idle = BalancerRuns!Idle
<1>1. \A c, calls : OnBalancer!Run(c, calls) = BalancerRuns!Run(c, calls)
  BY DEF OnBalancer!Run, BalancerRuns!Run
<1>2. \A t, by : OnBalancer!Overtaken(t, by) = BalancerRuns!Overtaken(t, by)
  BY DEF OnBalancer!Overtaken, BalancerRuns!Overtaken
<1>3. OnBalancer!Here => BalancerRuns!Here
  BY DEF OnBalancer!Here, BalancerRuns!Here
<1>4. ASSUME NEW h \in Handlers
      PROVE  /\ OnBalancer!Begin(h) => BalancerRuns!Begin(h)
             /\ OnBalancer!ReadNext(h) => BalancerRuns!ReadNext(h)
             /\ OnBalancer!Answer(h) => BalancerRuns!Answer(h)
             /\ OnBalancer!Simulate(h) => BalancerRuns!Simulate(h)
             /\ OnBalancer!Submit(h) => BalancerRuns!Submit(h)
  <2> USE <1>1, <1>3 DEF OnBalancer!HasRead, BalancerRuns!HasRead, OnBalancer!Decision, BalancerRuns!Decision, OnBalancer!Left, BalancerRuns!Left
  <2>1. OnBalancer!Begin(h) => BalancerRuns!Begin(h)
    BY DEF OnBalancer!Begin, BalancerRuns!Begin
  <2>2. OnBalancer!ReadNext(h) => BalancerRuns!ReadNext(h)
    BY DEF OnBalancer!ReadNext, BalancerRuns!ReadNext
  <2>3. OnBalancer!Answer(h) => BalancerRuns!Answer(h)
    BY DEF OnBalancer!Answer, BalancerRuns!Answer
  <2>4. OnBalancer!Simulate(h) => BalancerRuns!Simulate(h)
    BY DEF OnBalancer!Simulate, BalancerRuns!Simulate
  <2>5. OnBalancer!Submit(h) => BalancerRuns!Submit(h)
    BY DEF OnBalancer!Submit, BalancerRuns!Submit
  <2>6. QED
    BY <2>1, <2>2, <2>3, <2>4, <2>5
<1>5. ASSUME NEW h \in Handlers, OnBalancer!Mine(h)
      PROVE  BalancerRuns!Mine(h)
  <2> USE DEF OnBalancer!Mine, BalancerRuns!Mine
  <2>1. OnBalancer!Run(chain, task[h].result) = BalancerRuns!Run(chain, task[h].result)
    BY <1>1
  <2>2. PICK done : done = [task EXCEPT ![h].runs = @ + 1,
                                        ![h].stage = IF OnBalancer!Run(chain, task[h].result) = {}
                                                     THEN "reverted" ELSE "mined"]
    OBVIOUS
  <2>3. OnBalancer!Overtaken(done, "wallet") = BalancerRuns!Overtaken(done, "wallet")
    BY <1>2
  <2>4. QED
    BY <1>3, <1>5, <2>1, <2>2, <2>3
<1>6. OnBalancer!Move => BalancerRuns!Move
  BY <1>2, <1>3 DEF OnBalancer!Move, BalancerRuns!Move
<1>7. OnBalancer!Next => BalancerRuns!Next
  BY <1>4, <1>5, <1>6 DEF OnBalancer!Next, BalancerRuns!Next
<1>8. QED
  BY <1>1, <1>7 DEF OnBalancer!Succeeded, BalancerRuns!Succeeded, OnBalancer!Executed, BalancerRuns!Executed,
                    OnBalancer!Idle, BalancerRuns!Idle

GmxRuns == INSTANCE ProtocolProofs WITH
    Protocol <- "gmx", Requests <- GmxRequests, Valid <- Gmx!Valid, Reads <- Gmx!Reads,
    Read <- Gmx!Read, Decide <- Gmx!Decide, Call <- Gmx!Call, Moves <- Gmx!Moves

LEMMA GmxSame ==
    /\ OnGmx!Next => GmxRuns!Next
    /\ \A h \in Handlers : OnGmx!Succeeded(h) => GmxRuns!Succeeded(h)
    /\ \A h \in Handlers : OnGmx!Executed(h) => GmxRuns!Executed(h)
    /\ \A c, calls : OnGmx!Run(c, calls) = GmxRuns!Run(c, calls)
    /\ OnGmx!Idle = GmxRuns!Idle
<1>1. \A c, calls : OnGmx!Run(c, calls) = GmxRuns!Run(c, calls)
  BY DEF OnGmx!Run, GmxRuns!Run
<1>2. \A t, by : OnGmx!Overtaken(t, by) = GmxRuns!Overtaken(t, by)
  BY DEF OnGmx!Overtaken, GmxRuns!Overtaken
<1>3. OnGmx!Here => GmxRuns!Here
  BY DEF OnGmx!Here, GmxRuns!Here
<1>4. ASSUME NEW h \in Handlers
      PROVE  /\ OnGmx!Begin(h) => GmxRuns!Begin(h)
             /\ OnGmx!ReadNext(h) => GmxRuns!ReadNext(h)
             /\ OnGmx!Answer(h) => GmxRuns!Answer(h)
             /\ OnGmx!Simulate(h) => GmxRuns!Simulate(h)
             /\ OnGmx!Submit(h) => GmxRuns!Submit(h)
  <2> USE <1>1, <1>3 DEF OnGmx!HasRead, GmxRuns!HasRead, OnGmx!Decision, GmxRuns!Decision, OnGmx!Left, GmxRuns!Left
  <2>1. OnGmx!Begin(h) => GmxRuns!Begin(h)
    BY DEF OnGmx!Begin, GmxRuns!Begin
  <2>2. OnGmx!ReadNext(h) => GmxRuns!ReadNext(h)
    BY DEF OnGmx!ReadNext, GmxRuns!ReadNext
  <2>3. OnGmx!Answer(h) => GmxRuns!Answer(h)
    BY DEF OnGmx!Answer, GmxRuns!Answer
  <2>4. OnGmx!Simulate(h) => GmxRuns!Simulate(h)
    BY DEF OnGmx!Simulate, GmxRuns!Simulate
  <2>5. OnGmx!Submit(h) => GmxRuns!Submit(h)
    BY DEF OnGmx!Submit, GmxRuns!Submit
  <2>6. QED
    BY <2>1, <2>2, <2>3, <2>4, <2>5
<1>5. ASSUME NEW h \in Handlers, OnGmx!Mine(h)
      PROVE  GmxRuns!Mine(h)
  <2> USE DEF OnGmx!Mine, GmxRuns!Mine
  <2>1. OnGmx!Run(chain, task[h].result) = GmxRuns!Run(chain, task[h].result)
    BY <1>1
  <2>2. PICK done : done = [task EXCEPT ![h].runs = @ + 1,
                                        ![h].stage = IF OnGmx!Run(chain, task[h].result) = {}
                                                     THEN "reverted" ELSE "mined"]
    OBVIOUS
  <2>3. OnGmx!Overtaken(done, "wallet") = GmxRuns!Overtaken(done, "wallet")
    BY <1>2
  <2>4. QED
    BY <1>3, <1>5, <2>1, <2>2, <2>3
<1>6. OnGmx!Move => GmxRuns!Move
  BY <1>2, <1>3 DEF OnGmx!Move, GmxRuns!Move
<1>7. OnGmx!Next => GmxRuns!Next
  BY <1>4, <1>5, <1>6 DEF OnGmx!Next, GmxRuns!Next
<1>8. QED
  BY <1>1, <1>7 DEF OnGmx!Succeeded, GmxRuns!Succeeded, OnGmx!Executed, GmxRuns!Executed,
                    OnGmx!Idle, GmxRuns!Idle

\* A function into the integers stays one when a value is changed by an integer.
LEMMA Changed ==
    ASSUME NEW T, NEW h \in [T -> Int], NEW x, NEW m \in Int
    PROVE  /\ [h EXCEPT ![x] = @ + m] \in [T -> Int]
           /\ [h EXCEPT ![x] = @ - m] \in [T -> Int]
<1>1. CASE x \in T
  <2>1. h[x] + m \in Int /\ h[x] - m \in Int
    BY <1>1
  <2>2. PICK up, down : up = h[x] + m /\ down = h[x] - m
    OBVIOUS
  <2>3. [h EXCEPT ![x] = up] \in [T -> Int] /\ [h EXCEPT ![x] = down] \in [T -> Int]
    BY <2>1, <2>2
  <2>4. QED
    BY <2>2, <2>3
<1>2. CASE x \notin T
  <2>1. \A e : [h EXCEPT ![x] = e] = h
    BY <1>2
  <2>2. [h EXCEPT ![x] = h[x] + m] = h /\ [h EXCEPT ![x] = h[x] - m] = h
    BY <2>1
  <2>3. QED
    BY <2>2
<1>3. QED
  BY <1>1, <1>2

-----------------------------------------------------------------------------
(* GMX: whom anything is owed to.                                           *)

LEMMA Removed ==
    ASSUME NEW T, NEW s \in Seq(T), NEW i \in DOMAIN s
    PROVE  Gmx!RemoveAt(s, i) \in Seq(T)
<1>1. i \in 1..Len(s) /\ Len(s) \in Nat
  OBVIOUS
<1>2. SubSeq(s, 1, i - 1) \in Seq(T) /\ SubSeq(s, i + 1, Len(s)) \in Seq(T)
  BY <1>1, SubSeqProperties
<1>3. QED
  BY <1>2, ConcatProperties DEF Gmx!RemoveAt

\* The tokens, and the states of GMX in which nobody but those named has
\* anything of the wallet.
GmxTokens == DOMAIN Gmx!Nothing
GmxOwned(names) ==
    {c \in Gmx!States(GmxParties, names) :
        \A o \in GmxParties \ names : c.owned[o] = Gmx!Nothing}

GmxCallOK(k, names) ==
    \/ k.fn = "approve" /\ k.amount \in Int
    \/ k.fn \in {"send_wnt", "send_tokens"} /\ k.amount \in Int /\ k.vault \in Gmx!Vaults
    \/ k.fn = "create" /\ k.vault \in Gmx!Vaults /\ {k.receiver, k.refund} \subseteq names /\ k.size \in Int
    \/ k.fn = "cancel"
    \/ k.fn = "update" /\ k.size \in Int
    \/ k.fn = "claim" /\ k.type \in Gmx!Claims /\ k.receiver \in names

\* What a call adds to, and takes from, what vault v holds of token t.
GmxAdds(k, v, t) ==
    \/ k.fn = "send_wnt" /\ k.vault = v /\ t = "ETH"
    \/ k.fn = "send_tokens" /\ k.vault = v /\ k.token = t
GmxCredits(k, v, t) == k.fn = "create" /\ k.vault = v /\ t \in Gmx!Recorded(k)
GmxAfter(s, k, v, t) ==
    IF GmxAdds(k, v, t) THEN s + k.amount ELSE IF GmxCredits(k, v, t) THEN 0 ELSE s

LEMMA GmxPlus ==
    ASSUME NEW a \in Gmx!Holdings, NEW b \in Gmx!Holdings
    PROVE  Gmx!Plus(a, b) \in Gmx!Holdings
BY DEF Gmx!Plus, Gmx!Holdings

GmxRecord(owned, allowance, sent, taken, keys, claimable, requests) ==
    [owned |-> owned, allowance |-> allowance, sent |-> sent, taken |-> taken, keys |-> keys,
     claimable |-> claimable, requests |-> requests]
GmxTyped(owned, allowance, sent, taken, keys, claimable) ==
    /\ owned \in [GmxParties -> Gmx!Holdings] /\ allowance \in [{"L", "S", "GM"} -> Int]
    /\ sent \in [Gmx!Vaults -> Gmx!Holdings] /\ taken \in Gmx!Holdings /\ keys \in Nat
    /\ claimable \in [Gmx!Claims -> Gmx!Holdings]
GmxRequestsOf(names) ==
    Seq([vault : Gmx!Vaults, key : Nat, funds : Gmx!Holdings,
         receiver : names, refund : names, size : Int])
GmxFormed(c, names) ==
    /\ c = GmxRecord(c.owned, c.allowance, c.sent, c.taken, c.keys, c.claimable, c.requests)
    /\ GmxTyped(c.owned, c.allowance, c.sent, c.taken, c.keys, c.claimable)
    /\ c.requests \in GmxRequestsOf(names)
    /\ \A o \in GmxParties \ names : c.owned[o] = Gmx!Nothing

LEMMA GmxShape ==
    ASSUME NEW names, NEW c \in GmxOwned(names)
    PROVE  GmxFormed(c, names)
BY DEF GmxFormed, GmxOwned, Gmx!States, GmxRecord, GmxTyped, GmxRequestsOf

LEMMA GmxBuilt ==
    ASSUME NEW names, NEW owned, NEW allowance, NEW sent, NEW taken, NEW keys, NEW claimable, NEW requests,
           GmxTyped(owned, allowance, sent, taken, keys, claimable), requests \in GmxRequestsOf(names),
           \A o \in GmxParties \ names : owned[o] = Gmx!Nothing
    PROVE  GmxRecord(owned, allowance, sent, taken, keys, claimable, requests) \in GmxOwned(names)
BY DEF GmxOwned, Gmx!States, GmxRecord, GmxTyped, GmxRequestsOf

LEMMA GmxSettleKeeps ==
    ASSUME NEW names, NEW c \in GmxOwned(names), NEW i \in DOMAIN c.requests,
           NEW to \in {c.requests[i].receiver, c.requests[i].refund}
    PROVE  LET d == Gmx!Settle(c, i, to)
           IN d \in GmxOwned(names) /\ d.sent = c.sent /\ d.taken = c.taken
<1>1. PICK d : d = Gmx!Settle(c, i, to)
  OBVIOUS
<1>2. PICK Q : Q = [vault : Gmx!Vaults, key : Nat, funds : Gmx!Holdings,
                    receiver : names, refund : names, size : Int]
  OBVIOUS
<1>s. GmxFormed(c, names)
  BY GmxShape
<1>3. c.requests \in Seq(Q)
  BY <1>2, <1>s DEF GmxFormed, GmxRequestsOf
<1>4. PICK q \in Q : q = c.requests[i]
  BY <1>3
<1>5. q.funds \in Gmx!Holdings /\ to \in names
  BY <1>2, <1>4
<1>6. Gmx!RemoveAt(c.requests, i) \in Seq(Q)
  BY <1>3, Removed
<1>7. PICK rest : rest = Gmx!RemoveAt(c.requests, i)
  OBVIOUS
<1>8. PICK owned : owned = [c.owned EXCEPT ![to] = Gmx!Plus(@, q.funds)]
  OBVIOUS
<1>9. owned \in [GmxParties -> Gmx!Holdings]
  BY <1>5, <1>8, <1>s, GmxPlus DEF GmxFormed, GmxTyped
<1>10. \A o \in GmxParties \ names : owned[o] = Gmx!Nothing
  BY <1>5, <1>8, <1>s DEF GmxFormed, GmxTyped
<1>11. d = [c EXCEPT !.requests = rest, !.owned = owned]
  BY <1>1, <1>4, <1>7, <1>8, <1>s DEF Gmx!Settle, GmxFormed, GmxRecord
<1>12. d = GmxRecord(owned, c.allowance, c.sent, c.taken, c.keys, c.claimable, rest)
  BY <1>11, <1>s DEF GmxRecord, GmxFormed
<1>13. rest \in GmxRequestsOf(names)
  BY <1>2, <1>6, <1>7 DEF GmxRequestsOf
<1>14. d \in GmxOwned(names)
  BY <1>9, <1>10, <1>12, <1>13, <1>s, GmxBuilt DEF GmxFormed, GmxTyped
<1>15. d.sent = c.sent /\ d.taken = c.taken
  BY <1>12 DEF GmxRecord
<1>16. QED
  BY <1>1, <1>14, <1>15

\* Sending n of a token to a vault.
LEMMA GmxSendKeeps ==
    ASSUME NEW names, "wallet" \in names, NEW c \in GmxOwned(names),
           NEW token, NEW vault \in Gmx!Vaults, NEW n \in Int, NEW d \in Gmx!Send(c, token, vault, n)
    PROVE  /\ d \in GmxOwned(names) /\ d.taken = c.taken
           /\ \A v \in Gmx!Vaults, t \in GmxTokens :
                d.sent[v][t] = IF v = vault /\ t = token THEN c.sent[v][t] + n ELSE c.sent[v][t]
<1>s. GmxFormed(c, names)
  BY GmxShape
<1>2. PICK owned : owned = [c.owned EXCEPT !["wallet"][token] = @ - n]
  OBVIOUS
<1>3. PICK sent : sent = [c.sent EXCEPT ![vault][token] = @ + n]
  OBVIOUS
<1>4. d = [c EXCEPT !.owned = owned, !.sent = sent]
  BY <1>2, <1>3 DEF Gmx!Send
<1>5. d = GmxRecord(owned, c.allowance, sent, c.taken, c.keys, c.claimable, c.requests)
  BY <1>4, <1>s DEF GmxRecord, GmxFormed
<1>6. ASSUME NEW h \in Gmx!Holdings
      PROVE  [h EXCEPT ![token] = @ + n] \in Gmx!Holdings /\ [h EXCEPT ![token] = @ - n] \in Gmx!Holdings
  BY Changed DEF Gmx!Holdings
<1>7. owned \in [GmxParties -> Gmx!Holdings] /\ sent \in [Gmx!Vaults -> Gmx!Holdings]
  <2>1. PICK O, V : /\ O = [w \in GmxParties |-> [c.owned[w] EXCEPT ![token] = @ - n]]
                    /\ V = [v \in Gmx!Vaults |-> [c.sent[v] EXCEPT ![token] = @ + n]]
    OBVIOUS
  <2>2. O \in [GmxParties -> Gmx!Holdings] /\ V \in [Gmx!Vaults -> Gmx!Holdings]
    BY <1>6, <2>1, <1>s DEF GmxTyped, GmxFormed
  <2>3. /\ owned = [w \in GmxParties |-> IF w = "wallet" THEN O[w] ELSE c.owned[w]]
        /\ sent = [v \in Gmx!Vaults |-> IF v = vault THEN V[v] ELSE c.sent[v]]
    BY <1>2, <1>3, <2>1, <1>s DEF GmxTyped, GmxFormed
  <2>4. QED
    BY <2>2, <2>3, <1>s DEF GmxTyped, GmxFormed
<1>8. \A o \in GmxParties \ names : owned[o] = Gmx!Nothing
  BY <1>2, <1>s DEF GmxTyped, GmxFormed
<1>9. d \in GmxOwned(names)
  BY <1>5, <1>7, <1>8, <1>s, GmxBuilt DEF GmxTyped, GmxFormed
<1>10. \A v \in Gmx!Vaults, t \in GmxTokens :
         sent[v][t] = IF v = vault /\ t = token THEN c.sent[v][t] + n ELSE c.sent[v][t]
  <2>1. PICK h : h = c.sent[vault] /\ h \in [GmxTokens -> Int]
    BY <1>s DEF GmxTyped, GmxFormed, Gmx!Holdings, GmxTokens
  <2>2. PICK m : m = h[token] + n
    OBVIOUS
  <2>3. sent = [c.sent EXCEPT ![vault] = [h EXCEPT ![token] = m]]
    BY <1>3, <2>1, <2>2
  <2>4. sent[vault] = [h EXCEPT ![token] = m] /\ \A v \in Gmx!Vaults \ {vault} : sent[v] = c.sent[v]
    BY <2>3, <1>s DEF GmxTyped, GmxFormed
  <2>5. \A t \in GmxTokens : sent[vault][t] = IF t = token THEN m ELSE h[t]
    BY <2>1, <2>4
  <2>6. QED
    BY <2>1, <2>2, <2>4, <2>5
<1>11. d.sent = sent /\ d.taken = c.taken
  BY <1>5 DEF GmxRecord
<1>12. QED
  BY <1>9, <1>10, <1>11

\* Every call keeps GmxOwned, takes nothing for another account, and changes
\* what is in the vaults as GmxAfter says.
GmxKept(c, d, k, names) ==
    /\ d \in GmxOwned(names) /\ d.taken = c.taken
    /\ \A v \in Gmx!Vaults, t \in GmxTokens : d.sent[v][t] = GmxAfter(c.sent[v][t], k, v, t)

LEMMA GmxCallKeeps ==
    ASSUME NEW names, "wallet" \in names, NEW c \in GmxOwned(names), NEW k, GmxCallOK(k, names),
           NEW d \in Gmx!Call(c, k)
    PROVE  GmxKept(c, d, k, names)
<1>s. GmxFormed(c, names)
  BY GmxShape
<1>q. ASSUME k.fn \in {"approve", "cancel", "update", "claim"},
             d \in GmxOwned(names), d.sent = c.sent, d.taken = c.taken
      PROVE  GmxKept(c, d, k, names)
  BY <1>q DEF GmxKept, GmxAfter, GmxAdds, GmxCredits
<1>1. CASE k.fn = "approve"
  <2>1. PICK allowance : allowance = [c.allowance EXCEPT ![k.token] = k.amount]
    OBVIOUS
  <2>2. d = [c EXCEPT !.allowance = allowance]
    BY <1>1, <2>1 DEF Gmx!Call
  <2>3. d = GmxRecord(c.owned, allowance, c.sent, c.taken, c.keys, c.claimable, c.requests)
    BY <2>2, <1>s DEF GmxRecord, GmxFormed
  <2>4. allowance \in [{"L", "S", "GM"} -> Int]
    BY <1>1, <2>1, <1>s DEF GmxTyped, GmxCallOK, GmxFormed
  <2>5. d \in GmxOwned(names)
    BY <2>3, <2>4, <1>s, GmxBuilt DEF GmxTyped, GmxFormed
  <2>6. d.sent = c.sent /\ d.taken = c.taken
    BY <2>3 DEF GmxRecord
  <2>7. QED
    BY <1>1, <1>q, <2>5, <2>6
<1>2. CASE k.fn = "send_wnt"
  <2>1. PICK vault, token, n : vault = k.vault /\ token = "ETH" /\ n = k.amount
    OBVIOUS
  <2>e. d \in Gmx!Send(c, token, vault, n) /\ vault \in Gmx!Vaults /\ n \in Int
    BY <1>2, <2>1 DEF Gmx!Call, GmxCallOK
  <2>2. /\ d \in GmxOwned(names) /\ d.taken = c.taken
        /\ \A v \in Gmx!Vaults, t \in GmxTokens :
             d.sent[v][t] = IF v = vault /\ t = token THEN c.sent[v][t] + n ELSE c.sent[v][t]
    BY <2>e, GmxSendKeeps
  <2>3. QED
    BY <1>2, <2>1, <2>2 DEF GmxKept, GmxAfter, GmxAdds, GmxCredits
<1>3. CASE k.fn = "send_tokens"
  <2>1. PICK allowance : allowance = [c.allowance EXCEPT ![k.token] = @ - k.amount]
    OBVIOUS
  <2>2. PICK b : b = [c EXCEPT !.allowance = allowance]
    OBVIOUS
  <2>3. b = GmxRecord(c.owned, allowance, c.sent, c.taken, c.keys, c.claimable, c.requests)
    BY <2>2, <1>s DEF GmxRecord, GmxFormed
  <2>4. k.amount \in Int /\ k.vault \in Gmx!Vaults
    BY <1>3 DEF GmxCallOK
  <2>5. allowance \in [{"L", "S", "GM"} -> Int]
    BY <2>1, <2>4, <1>s, Changed DEF GmxTyped, GmxFormed
  <2>6. b \in GmxOwned(names) /\ b.sent = c.sent /\ b.taken = c.taken
    <3>1. b \in GmxOwned(names)
      BY <2>3, <2>5, <1>s, GmxBuilt DEF GmxTyped, GmxFormed
    <3>2. QED
      BY <2>3, <3>1 DEF GmxRecord
  <2>7. d \in Gmx!Send(b, k.token, k.vault, k.amount)
    BY <1>3, <2>1, <2>2 DEF Gmx!Call, Gmx!OnSendTokens
  <2>8. /\ d \in GmxOwned(names) /\ d.taken = b.taken
        /\ \A v \in Gmx!Vaults, t \in GmxTokens :
             d.sent[v][t] = IF v = k.vault /\ t = k.token THEN b.sent[v][t] + k.amount ELSE b.sent[v][t]
    BY <2>4, <2>6, <2>7, GmxSendKeeps
  <2>9. QED
    BY <1>3, <2>6, <2>8 DEF GmxKept, GmxAfter, GmxAdds, GmxCredits
<1>4. CASE k.fn = "create"
  <2>1. PICK got : got = Gmx!Credited(c, k)
    OBVIOUS
  <2>2. PICK left : left = [t \in GmxTokens |-> c.sent[k.vault][t] - got[t]]
    OBVIOUS
  <2>3. PICK sent : sent = [c.sent EXCEPT ![k.vault] = left]
    OBVIOUS
  <2>4. PICK q : q = [vault |-> k.vault, key |-> c.keys + 1, funds |-> got,
                      receiver |-> IF k.type \in Gmx!Increases THEN "wallet" ELSE k.receiver,
                      refund |-> k.refund, size |-> k.size]
    OBVIOUS
  <2>5. PICK requests : requests = Append(c.requests, q)
    OBVIOUS
  <2>6. d = [c EXCEPT !.sent = sent, !.requests = requests, !.keys = c.keys + 1]
    BY <1>4, <2>1, <2>2, <2>3, <2>4, <2>5 DEF Gmx!Call, Gmx!OnCreate, GmxTokens
  <2>7. d = GmxRecord(c.owned, c.allowance, sent, c.taken, c.keys + 1, c.claimable, requests)
    BY <2>6, <1>s DEF GmxRecord, GmxFormed
  <2>8. k.vault \in Gmx!Vaults /\ k.receiver \in names /\ k.refund \in names /\ k.size \in Int
    BY <1>4 DEF GmxCallOK
  <2>9. PICK held : held = c.sent[k.vault] /\ held \in [GmxTokens -> Int]
    BY <2>8, <1>s DEF GmxTyped, GmxFormed, Gmx!Holdings, GmxTokens
  <2>10. got = [t \in GmxTokens |-> IF t \in Gmx!Recorded(k) THEN held[t] ELSE 0]
    BY <2>1, <2>9 DEF Gmx!Credited, GmxTokens
  <2>11. \A t \in GmxTokens : got[t] \in Int /\ left[t] = IF t \in Gmx!Recorded(k) THEN 0 ELSE held[t]
    BY <2>2, <2>9, <2>10
  <2>12. got \in Gmx!Holdings /\ left \in Gmx!Holdings
    <3>1. got \in [GmxTokens -> Int]
      BY <2>10, <2>11
    <3>2. \A t \in GmxTokens : left[t] \in Int
      BY <2>9, <2>11
    <3>3. left \in [GmxTokens -> Int]
      BY <2>2, <3>2
    <3>4. QED
      BY <3>1, <3>3 DEF Gmx!Holdings, GmxTokens
  <2>13. sent \in [Gmx!Vaults -> Gmx!Holdings] /\ c.keys + 1 \in Nat
    <3>1. c.sent \in [Gmx!Vaults -> Gmx!Holdings] /\ c.keys \in Nat
      BY <1>s DEF GmxTyped, GmxFormed
    <3>2. PICK old, v, V, H : /\ old = c.sent /\ v = k.vault /\ V = Gmx!Vaults /\ H = Gmx!Holdings
                              /\ old \in [V -> H] /\ left \in H
      BY <2>12, <3>1
    <3>3. sent = [old EXCEPT ![v] = left]
      BY <2>3, <3>2
    <3>4. sent \in [V -> H]
      BY <3>2, <3>3
    <3>5. QED
      BY <3>1, <3>2, <3>4
  <2>14. requests \in GmxRequestsOf(names)
    <3>1. q \in [vault : Gmx!Vaults, key : Nat, funds : Gmx!Holdings,
                 receiver : names, refund : names, size : Int]
      BY <2>4, <2>8, <2>12, <2>13
    <3>2. QED
      BY <2>5, <3>1, <1>s DEF GmxRequestsOf, GmxFormed
  <2>15. d \in GmxOwned(names)
    BY <2>7, <2>13, <2>14, <1>s, GmxBuilt DEF GmxTyped, GmxFormed
  <2>16. d.sent = sent /\ d.taken = c.taken
    BY <2>7 DEF GmxRecord
  <2>17. sent[k.vault] = left /\ \A v \in Gmx!Vaults \ {k.vault} : sent[v] = c.sent[v]
    BY <2>3, <2>8, <1>s DEF GmxTyped, GmxFormed
  <2>18. \A v \in Gmx!Vaults, t \in GmxTokens :
           d.sent[v][t] = IF v = k.vault /\ t \in Gmx!Recorded(k) THEN 0 ELSE c.sent[v][t]
    BY <2>9, <2>11, <2>16, <2>17
  <2>19. QED
    BY <1>4, <2>15, <2>16, <2>18 DEF GmxKept, GmxAfter, GmxAdds, GmxCredits
<1>5. CASE k.fn = "cancel"
  <2>1. PICK i \in DOMAIN c.requests : d = Gmx!Settle(c, i, c.requests[i].refund)
    BY <1>5 DEF Gmx!Call, Gmx!OnCancel
  <2>2. d \in GmxOwned(names) /\ d.sent = c.sent /\ d.taken = c.taken
    BY <2>1, GmxSettleKeeps
  <2>3. QED
    BY <1>5, <1>q, <2>2
<1>6. CASE k.fn = "update"
  <2>1. PICK i \in DOMAIN c.requests :
          d = [c EXCEPT !.requests[i].size = k.size]
    BY <1>6 DEF Gmx!Call, Gmx!OnUpdate
  <2>2. PICK Q : Q = [vault : Gmx!Vaults, key : Nat, funds : Gmx!Holdings,
                      receiver : names, refund : names, size : Int]
    OBVIOUS
  <2>3. c.requests \in Seq(Q)
    BY <2>2, <1>s DEF GmxRequestsOf, GmxFormed
  <2>4. PICK q : q = [c.requests[i] EXCEPT !.size = k.size]
    OBVIOUS
  <2>5. q \in Q
    <3>1. PICK old \in Q : old = c.requests[i]
      BY <2>3
    <3>2. old = [vault |-> old.vault, key |-> old.key, funds |-> old.funds,
                 receiver |-> old.receiver, refund |-> old.refund, size |-> old.size]
      BY <2>2, <3>1
    <3>3. q = [vault |-> old.vault, key |-> old.key, funds |-> old.funds,
               receiver |-> old.receiver, refund |-> old.refund, size |-> k.size]
      BY <2>4, <3>1, <3>2
    <3>4. k.size \in Int
      BY <1>6 DEF GmxCallOK
    <3>5. QED
      BY <2>2, <3>1, <3>3, <3>4
  <2>6. PICK requests : requests = [c.requests EXCEPT ![i] = q]
    OBVIOUS
  <2>7. requests \in Seq(Q)
    BY <2>3, <2>5, <2>6
  <2>8. d = GmxRecord(c.owned, c.allowance, c.sent, c.taken, c.keys, c.claimable, requests)
    BY <2>1, <2>4, <2>6, <1>s DEF GmxRecord, GmxFormed
  <2>9. d \in GmxOwned(names)
    BY <2>2, <2>7, <2>8, <1>s, GmxBuilt DEF GmxRequestsOf, GmxFormed
  <2>10. d.sent = c.sent /\ d.taken = c.taken
    BY <2>8 DEF GmxRecord
  <2>11. QED
    BY <1>6, <1>q, <2>9, <2>10
<1>7. CASE k.fn = "claim"
  <2>1. PICK got : got = [t \in DOMAIN Gmx!Nothing |->
                            IF t \in Gmx!Range(k.tokens) THEN c.claimable[k.type][t] ELSE 0]
    OBVIOUS
  <2>2. PICK owned : owned = [c.owned EXCEPT ![k.receiver] = Gmx!Plus(@, got)]
    OBVIOUS
  <2>3. PICK claimable : claimable = [c.claimable EXCEPT ![k.type] = [t \in DOMAIN @ |-> @[t] - got[t]]]
    OBVIOUS
  <2>4. d = [c EXCEPT !.owned = owned, !.claimable = claimable]
    BY <1>7, <2>1, <2>2, <2>3 DEF Gmx!Call, Gmx!OnClaim
  <2>5. d = GmxRecord(owned, c.allowance, c.sent, c.taken, c.keys, claimable, c.requests)
    BY <2>4, <1>s DEF GmxRecord, GmxFormed
  <2>6. c.claimable[k.type] \in Gmx!Holdings /\ k.receiver \in names
    BY <1>7, <1>s DEF GmxTyped, GmxCallOK, GmxFormed
  <2>7. got \in Gmx!Holdings
    BY <2>1, <2>6 DEF Gmx!Holdings
  <2>8. owned \in [GmxParties -> Gmx!Holdings]
    BY <2>2, <2>7, GmxPlus, <1>s DEF GmxTyped, GmxFormed
  <2>9. \A o \in GmxParties \ names : owned[o] = Gmx!Nothing
    BY <2>2, <2>6, <1>s DEF GmxTyped, GmxFormed
  <2>10. claimable \in [Gmx!Claims -> Gmx!Holdings]
    <3>1. [t \in DOMAIN c.claimable[k.type] |-> c.claimable[k.type][t] - got[t]] \in Gmx!Holdings
      BY <2>6, <2>7 DEF Gmx!Holdings
    <3>2. QED
      BY <2>3, <3>1, <1>s DEF GmxTyped, GmxFormed
  <2>11. d \in GmxOwned(names)
    BY <2>5, <2>8, <2>9, <2>10, <1>s, GmxBuilt DEF GmxTyped, GmxFormed
  <2>12. d.sent = c.sent /\ d.taken = c.taken
    BY <2>5 DEF GmxRecord
  <2>13. QED
    BY <1>7, <1>q, <2>11, <2>12
<1>8. QED
  BY <1>1, <1>2, <1>3, <1>4, <1>5, <1>6, <1>7 DEF GmxCallOK

\* What the batch of a request may do to what a vault holds of a token: leave
\* it alone, have it credited at the end, or add what is not credited.
GmxTouches(k, v, t) == GmxAdds(k, v, t) \/ GmxCredits(k, v, t)
GmxLeaves(calls, v, t) == \A i \in 1..Len(calls) : ~GmxTouches(calls[i], v, t)
GmxEmpties(calls, v, t) == Len(calls) > 0 /\ GmxCredits(calls[Len(calls)], v, t)
GmxStrays(calls, v, t, n) ==
    \E i \in 1..Len(calls) :
       /\ GmxAdds(calls[i], v, t) /\ calls[i].amount = n
       /\ \A j \in 1..Len(calls) \ {i} : ~GmxTouches(calls[j], v, t)

GmxBatchOK(calls, r, names) ==
    /\ Len(calls) \in Nat
    /\ \A i \in 1..Len(calls) : GmxCallOK(calls[i], names)
    /\ \A v \in Gmx!Vaults, t \in GmxTokens :
         \/ GmxLeaves(calls, v, t) /\ Unrecorded(r, v, t) = 0
         \/ GmxEmpties(calls, v, t)
         \/ GmxStrays(calls, v, t, Unrecorded(r, v, t))

LEMMA GmxNumbers ==
    ASSUME NEW text
    PROVE  /\ Gmx!ParseU256(text) \in Int /\ Gmx!OrZero(text) \in Int
           /\ Gmx!ParseU256(text) # Gmx!Err => Gmx!ParseU256(text) = text.whole
<1>1. \A n : Gmx!Checked(n) \in Int /\ (Gmx!Checked(n) # Gmx!Err => Gmx!Checked(n) = n)
  BY DEF Gmx!Checked, Gmx!Err
<1>2. QED
  BY <1>1 DEF Gmx!ParseU256, Gmx!OrZero, Gmx!ParseRaw, Gmx!Err

\* A batch whose last call credits everything it sends.
LEMMA GmxAllCredited ==
    ASSUME NEW calls, NEW r, NEW names, NEW v, Len(calls) \in Nat, Len(calls) > 0,
           \A i \in 1..Len(calls) : GmxCallOK(calls[i], names),
           calls[Len(calls)].fn = "create", calls[Len(calls)].vault = v,
           \A i \in 1..Len(calls) : \A w, t :
              GmxTouches(calls[i], w, t) => w = v /\ t \in Gmx!Recorded(calls[Len(calls)]),
           \A w, t : Unrecorded(r, w, t) = 0
    PROVE  GmxBatchOK(calls, r, names)
<1>1. ASSUME NEW w \in Gmx!Vaults, NEW t \in GmxTokens
      PROVE  GmxLeaves(calls, w, t) \/ GmxEmpties(calls, w, t)
  <2>1. CASE w = v /\ t \in Gmx!Recorded(calls[Len(calls)])
    BY <2>1 DEF GmxEmpties, GmxCredits
  <2>2. CASE ~(w = v /\ t \in Gmx!Recorded(calls[Len(calls)]))
    BY <2>2 DEF GmxLeaves
  <2>3. QED
    BY <2>1, <2>2
<1>2. QED
  BY <1>1 DEF GmxBatchOK

LEMMA GmxOrderOK ==
    ASSUME NEW r, r.op = "order", Gmx!ValidCreateOrder(r),
           NEW names, "wallet" \in names, Gmx!Receiver(r) \in names, Gmx!CancellationReceiver(r) \in names
    PROVE  GmxBatchOK(Gmx!CompileCreateOrder(r), r, names)
<1>1. PICK n, fee : n = Gmx!ParseU256(r.amount) /\ fee = Gmx!ParseU256(r.fee)
  OBVIOUS
<1>2. n \in Int /\ fee \in Int /\ n = r.amount.whole /\ Gmx!OrZero(r.size) \in Int
  BY <1>1, GmxNumbers DEF Gmx!ValidCreateOrder, Gmx!Positive
<1>3. PICK a, w, s, k : /\ a = Gmx!Approve(r.token, n) /\ w = Gmx!SendWnt("order", fee)
                        /\ s = Gmx!SendTokens(r.token, "order", n) /\ k = Gmx!CreateOrder(r)
  OBVIOUS
<1>4. PICK calls : calls = <<a, w, s, k>> /\ calls = Gmx!CompileCreateOrder(r)
  BY <1>1, <1>3 DEF Gmx!CompileCreateOrder
<1>5. /\ k.fn = "create" /\ k.vault = "order" /\ k.receiver = Gmx!Receiver(r)
      /\ k.refund = Gmx!CancellationReceiver(r) /\ k.size = Gmx!OrZero(r.size)
      /\ k.type = r.type /\ k.tokens = {r.token}
  BY <1>3 DEF Gmx!CreateOrder
<1>6. /\ a.fn = "approve" /\ a.amount = n
      /\ w.fn = "send_wnt" /\ w.vault = "order" /\ w.amount = fee
      /\ s.fn = "send_tokens" /\ s.vault = "order" /\ s.token = r.token /\ s.amount = n
  BY <1>3 DEF Gmx!Approve, Gmx!SendWnt, Gmx!SendTokens
<1>7. /\ Len(calls) = 4 /\ calls[1] = a /\ calls[2] = w /\ calls[3] = s /\ calls[4] = k
      /\ 1..4 = {1, 2, 3, 4}
  BY <1>4
<1>8. \A i \in 1..Len(calls) : GmxCallOK(calls[i], names)
  <2>1. GmxCallOK(a, names) /\ GmxCallOK(w, names) /\ GmxCallOK(s, names) /\ GmxCallOK(k, names)
    BY <1>2, <1>5, <1>6 DEF GmxCallOK, Gmx!Vaults
  <2>2. QED
    BY <1>7, <2>1
<1>9. \A v, t : /\ ~GmxTouches(a, v, t)
                /\ GmxTouches(w, v, t) <=> v = "order" /\ t = "ETH"
                /\ GmxTouches(s, v, t) <=> v = "order" /\ t = r.token
                /\ GmxTouches(k, v, t) <=> v = "order" /\ t \in Gmx!Recorded(k)
  BY <1>5, <1>6 DEF GmxTouches, GmxAdds, GmxCredits
<1>10. CASE r.type \in Gmx!Decreases
  <2>1. Gmx!Recorded(k) = {"ETH"}
    BY <1>5, <1>10 DEF Gmx!Recorded
  <2>2. ASSUME NEW v \in Gmx!Vaults, NEW t \in GmxTokens
        PROVE  \/ GmxLeaves(calls, v, t) /\ Unrecorded(r, v, t) = 0
               \/ GmxEmpties(calls, v, t)
               \/ GmxStrays(calls, v, t, Unrecorded(r, v, t))
    <3>1. CASE v = "order" /\ t = "ETH"
      BY <1>5, <1>7, <2>1, <3>1 DEF GmxEmpties, GmxCredits
    <3>2. CASE v = "order" /\ t # "ETH" /\ t = r.token
      <4>1. Unrecorded(r, v, t) = n
        BY <1>2, <1>10, <3>2 DEF Unrecorded, Decreasing
      <4>2. GmxAdds(calls[3], v, t) /\ calls[3].amount = n
        BY <1>6, <1>7, <3>2 DEF GmxAdds
      <4>3. \A j \in 1..Len(calls) \ {3} : ~GmxTouches(calls[j], v, t)
        BY <1>7, <1>9, <2>1, <3>2
      <4>4. QED
        BY <1>7, <4>1, <4>2, <4>3 DEF GmxStrays
    <3>3. CASE ~(v = "order" /\ t \in {"ETH", r.token})
      <4>1. Unrecorded(r, v, t) = 0
        BY <3>3 DEF Unrecorded
      <4>2. \A j \in 1..Len(calls) : ~GmxTouches(calls[j], v, t)
        BY <1>7, <1>9, <2>1, <3>3
      <4>3. QED
        BY <4>1, <4>2 DEF GmxLeaves
    <3>4. QED
      BY <3>1, <3>2, <3>3
  <2>3. QED
    BY <1>4, <1>7, <1>8, <2>2 DEF GmxBatchOK
<1>11. CASE r.type \notin Gmx!Decreases
  <2>1. Gmx!Recorded(k) = {"ETH", r.token}
    BY <1>5, <1>11 DEF Gmx!Recorded
  <2>2. \A v, t : Unrecorded(r, v, t) = 0
    BY <1>11 DEF Unrecorded, Decreasing
  <2>3. \A i \in 1..Len(calls) : \A v, t :
          GmxTouches(calls[i], v, t) => v = "order" /\ t \in Gmx!Recorded(calls[Len(calls)])
    BY <1>7, <1>9, <2>1
  <2>4. Len(calls) \in Nat /\ Len(calls) > 0
    BY <1>7
  <2>5. calls[Len(calls)].fn = "create" /\ calls[Len(calls)].vault = "order"
    BY <1>5, <1>7
  <2>6. GmxBatchOK(calls, r, names)
    BY <1>8, <2>2, <2>3, <2>4, <2>5, GmxAllCredited
  <2>7. QED
    BY <1>4, <2>6
<1>12. QED
  BY <1>10, <1>11

LEMMA GmxWithdrawalOK ==
    ASSUME NEW r, r.op = "withdrawal",
           NEW names, "wallet" \in names, Gmx!Receiver(r) \in names
    PROVE  GmxBatchOK(Gmx!CompileCreateWithdrawal(r), r, names)
<1>1. PICK n, fee : n = Gmx!ParseU256(r.amount) /\ fee = Gmx!ParseU256(r.fee)
  OBVIOUS
<1>2. n \in Int /\ fee \in Int
  BY <1>1, GmxNumbers
<1>3. PICK a, w, s, k : /\ a = Gmx!Approve(r.market, n) /\ w = Gmx!SendWnt("withdrawal", fee)
                        /\ s = Gmx!SendTokens(r.market, "withdrawal", n) /\ k = Gmx!CreateWithdrawal(r)
  OBVIOUS
<1>4. PICK calls : calls = <<a, w, s, k>> /\ calls = Gmx!CompileCreateWithdrawal(r)
  BY <1>1, <1>3 DEF Gmx!CompileCreateWithdrawal
<1>5. /\ k.fn = "create" /\ k.vault = "withdrawal" /\ k.receiver = Gmx!Receiver(r)
      /\ k.refund = "wallet" /\ k.size = 0 /\ k.type = "withdrawal" /\ k.tokens = {r.market}
  BY <1>3 DEF Gmx!CreateWithdrawal
<1>6. /\ a.fn = "approve" /\ a.amount = n
      /\ w.fn = "send_wnt" /\ w.vault = "withdrawal" /\ w.amount = fee
      /\ s.fn = "send_tokens" /\ s.vault = "withdrawal" /\ s.token = r.market /\ s.amount = n
  BY <1>3 DEF Gmx!Approve, Gmx!SendWnt, Gmx!SendTokens
<1>7. /\ Len(calls) = 4 /\ calls[1] = a /\ calls[2] = w /\ calls[3] = s /\ calls[4] = k
      /\ 1..4 = {1, 2, 3, 4}
  BY <1>4
<1>8. \A i \in 1..Len(calls) : GmxCallOK(calls[i], names)
  <2>1. GmxCallOK(a, names) /\ GmxCallOK(w, names) /\ GmxCallOK(s, names) /\ GmxCallOK(k, names)
    BY <1>2, <1>5, <1>6 DEF GmxCallOK, Gmx!Vaults
  <2>2. QED
    BY <1>7, <2>1
<1>9. Gmx!Recorded(k) = {"ETH", r.market}
  BY <1>5 DEF Gmx!Recorded, Gmx!Decreases
<1>10. \A i \in 1..Len(calls) : \A v, t :
         GmxTouches(calls[i], v, t) => v = "withdrawal" /\ t \in Gmx!Recorded(calls[Len(calls)])
  <2>1. \A x \in {a, w, s, k} : \A v, t :
          GmxTouches(x, v, t) => v = "withdrawal" /\ t \in Gmx!Recorded(k)
    BY <1>5, <1>6, <1>9 DEF GmxTouches, GmxAdds, GmxCredits
  <2>2. QED
    BY <1>7, <2>1
<1>11. \A v, t : Unrecorded(r, v, t) = 0
  BY DEF Unrecorded, Decreasing
<1>12. /\ Len(calls) \in Nat /\ Len(calls) > 0
       /\ calls[Len(calls)].fn = "create" /\ calls[Len(calls)].vault = "withdrawal"
  BY <1>5, <1>7
<1>13. GmxBatchOK(calls, r, names)
  BY <1>8, <1>10, <1>11, <1>12, GmxAllCredited
<1>14. QED
  BY <1>4, <1>13

LEMMA GmxDepositOK ==
    ASSUME NEW r, r.op = "deposit",
           NEW names, "wallet" \in names, Gmx!Receiver(r) \in names
    PROVE  GmxBatchOK(Gmx!CompileCreateDeposit(r), r, names)
<1>1. PICK long, short, fee : /\ long = Gmx!OrZero(r.amount) /\ short = Gmx!OrZero(r.amount2)
                              /\ fee = Gmx!ParseU256(r.fee)
  OBVIOUS
<1>2. long \in Int /\ short \in Int /\ fee \in Int
  BY <1>1, GmxNumbers
<1>3. PICK create : create = Gmx!CreateDeposit(r)
  OBVIOUS
<1>4. /\ create.fn = "create" /\ create.vault = "deposit" /\ create.receiver = Gmx!Receiver(r)
      /\ create.refund = "wallet" /\ create.size = 0 /\ create.type = "deposit"
      /\ create.tokens = {r.token, r.token2}
  BY <1>3 DEF Gmx!CreateDeposit
<1>5. PICK a, b, w, s, t : /\ a = Gmx!Approve(r.token, long) /\ b = Gmx!Approve(r.token2, short)
                           /\ w = Gmx!SendWnt("deposit", fee)
                           /\ s = Gmx!SendTokens(r.token, "deposit", long)
                           /\ t = Gmx!SendTokens(r.token2, "deposit", short)
  OBVIOUS
<1>6. Gmx!Recorded(create) = {"ETH", r.token, r.token2}
  BY <1>4 DEF Gmx!Recorded, Gmx!Decreases
<1>7. \A k \in {a, b, w, s, t, create} :
         /\ GmxCallOK(k, names)
         /\ \A v, x : GmxTouches(k, v, x) => v = "deposit" /\ x \in Gmx!Recorded(create)
  <2>1. /\ a.fn = "approve" /\ a.amount = long /\ b.fn = "approve" /\ b.amount = short
        /\ w.fn = "send_wnt" /\ w.vault = "deposit" /\ w.amount = fee
        /\ s.fn = "send_tokens" /\ s.vault = "deposit" /\ s.token = r.token /\ s.amount = long
        /\ t.fn = "send_tokens" /\ t.vault = "deposit" /\ t.token = r.token2 /\ t.amount = short
    BY <1>5 DEF Gmx!Approve, Gmx!SendWnt, Gmx!SendTokens
  <2>2. \A k \in {a, b, w, s, t, create} : GmxCallOK(k, names)
    BY <1>2, <1>4, <2>1 DEF GmxCallOK, Gmx!Vaults
  <2>3. \A k \in {a, b, w, s, t, create} : \A v, x :
          GmxTouches(k, v, x) => v = "deposit" /\ x \in Gmx!Recorded(create)
    BY <1>4, <1>6, <2>1 DEF GmxTouches, GmxAdds, GmxCredits
  <2>4. QED
    BY <2>2, <2>3
<1>8. PICK calls : calls = Gmx!CompileCreateDeposit(r)
  OBVIOUS
<1>9. PICK front : /\ front \in Seq({a, b, w, s, t})
                   /\ calls = front \o <<create>>
  <2>1. PICK p, q, u, v : /\ p = IF long = 0 THEN <<>> ELSE <<a>>
                          /\ q = IF short = 0 THEN <<>> ELSE <<b>>
                          /\ u = IF long = 0 THEN <<>> ELSE <<s>>
                          /\ v = IF short = 0 THEN <<>> ELSE <<t>>
    OBVIOUS
  <2>2. calls = p \o q \o <<w>> \o u \o v \o <<create>>
    BY <1>1, <1>3, <1>5, <1>8, <2>1 DEF Gmx!CompileCreateDeposit
  <2>3. {p, q, <<w>>, u, v} \subseteq Seq({a, b, w, s, t})
    <3>1. PICK K : K = {a, b, w, s, t}
      OBVIOUS
    <3>2. \A k \in K : <<k>> \in Seq(K)
      OBVIOUS
    <3>3. <<>> \in Seq(K)
      OBVIOUS
    <3>4. p \in Seq(K) /\ q \in Seq(K) /\ <<w>> \in Seq(K) /\ u \in Seq(K) /\ v \in Seq(K)
      BY <2>1, <3>1, <3>2, <3>3
    <3>5. QED
      BY <3>1, <3>4
  <2>4. p \o q \o <<w>> \o u \o v \in Seq({a, b, w, s, t})
    BY <2>3
  <2>5. QED
    BY <2>2, <2>4
<1>10. /\ Len(calls) = Len(front) + 1 /\ Len(front) \in Nat
       /\ \A i \in 1..Len(front) : calls[i] \in {a, b, w, s, t}
       /\ calls[Len(calls)] = create
  <2>1. <<create>> \in Seq({create}) /\ Len(<<create>>) = 1 /\ <<create>>[1] = create
    OBVIOUS
  <2>2. QED
    BY <1>9, <2>1, ConcatProperties
<1>11. \A i \in 1..Len(calls) : calls[i] \in {a, b, w, s, t, create}
  BY <1>10
<1>12. \A v, x : Unrecorded(r, v, x) = 0
  BY DEF Unrecorded, Decreasing
<1>13. Len(calls) \in Nat /\ Len(calls) > 0
  BY <1>10
<1>14. /\ \A i \in 1..Len(calls) : GmxCallOK(calls[i], names)
       /\ \A i \in 1..Len(calls) : \A v, x :
            GmxTouches(calls[i], v, x) => v = "deposit" /\ x \in Gmx!Recorded(calls[Len(calls)])
  BY <1>7, <1>10, <1>11
<1>15. calls[Len(calls)].fn = "create" /\ calls[Len(calls)].vault = "deposit"
  BY <1>4, <1>10
<1>16. GmxBatchOK(calls, r, names)
  BY <1>12, <1>13, <1>14, <1>15, GmxAllCredited
<1>17. QED
  BY <1>8, <1>16

LEMMA GmxCompileOK ==
    ASSUME NEW r, r.op \in Gmx!Operations \ Gmx!Queries, Gmx!Valid(r),
           NEW names, {"wallet", r.receiver, r.cancellation_receiver} \subseteq names
    PROVE  GmxBatchOK(Gmx!Compile(r), r, names)
<1> DEFINE calls == Gmx!Compile(r)
<1>1. Gmx!Receiver(r) \in names /\ Gmx!CancellationReceiver(r) \in names
  BY DEF Gmx!Receiver, Gmx!CancellationReceiver
<1>2. CASE r.op = "order"
  <2>1. Gmx!ValidCreateOrder(r)
    BY <1>2 DEF Gmx!Valid
  <2>2. calls = Gmx!CompileCreateOrder(r)
    BY <1>2 DEF Gmx!Compile
  <2>3. QED
    BY <1>1, <1>2, <2>1, <2>2, GmxOrderOK
<1>3. CASE r.op = "withdrawal"
  <2>1. calls = Gmx!CompileCreateWithdrawal(r)
    BY <1>3 DEF Gmx!Compile
  <2>2. QED
    BY <1>1, <1>3, <2>1, GmxWithdrawalOK
<1>4. CASE r.op = "deposit"
  <2>1. calls = Gmx!CompileCreateDeposit(r)
    BY <1>4 DEF Gmx!Compile
  <2>2. QED
    BY <1>1, <1>4, <2>1, GmxDepositOK
<1>o. ASSUME NEW k, calls = <<k>>, k.fn \in {"cancel", "update", "claim"}, GmxCallOK(k, names), r.op # "order"
      PROVE  GmxBatchOK(calls, r, names)
  <2>1. Len(calls) = 1 /\ calls[1] = k /\ 1..1 = {1}
    BY <1>o
  <2>2. \A v, t : ~GmxTouches(k, v, t) /\ Unrecorded(r, v, t) = 0
    BY <1>o DEF GmxTouches, GmxAdds, GmxCredits, Unrecorded, Decreasing
  <2> HIDE DEF calls
  <2>3. QED
    BY <1>o, <2>1, <2>2 DEF GmxBatchOK, GmxLeaves
<1>5. CASE r.op \in {"cancel_order", "cancel", "update"}
  <2>1. PICK size : size = Gmx!ParseU256(r.size) /\ size \in Int
    BY GmxNumbers
  <2>2. PICK a, b, c : /\ a = [fn |-> "cancel", vault |-> "order", key |-> r.key]
                       /\ b = [fn |-> "cancel", vault |-> r.type, key |-> r.key]
                       /\ c = [fn |-> "update", key |-> r.key, size |-> size]
    OBVIOUS
  <2>3. calls \in {<<a>>, <<b>>, <<c>>}
    BY <1>5, <2>1, <2>2 DEF Gmx!Compile, Gmx!CompileCancelOrder, Gmx!CompileCancel, Gmx!CompileUpdateOrder
  <2>4. \A k \in {a, b, c} : k.fn \in {"cancel", "update", "claim"} /\ GmxCallOK(k, names)
    BY <2>1, <2>2 DEF GmxCallOK
  <2> HIDE DEF calls
  <2>5. GmxBatchOK(calls, r, names)
    BY <1>5, <1>o, <2>3, <2>4
  <2>6. QED
    BY <2>5 DEF calls
<1>6. CASE r.op = "claim"
  <2>1. PICK k : /\ calls = <<k>>
                 /\ k.fn = "claim" /\ k.type = r.type /\ k.receiver = Gmx!Receiver(r)
    BY <1>6 DEF Gmx!Compile, Gmx!CompileClaim
  <2>2. r.type \in Gmx!Claims
    BY <1>6 DEF Gmx!Valid, Gmx!ValidClaim
  <2>3. GmxCallOK(k, names)
    BY <1>1, <2>1, <2>2 DEF GmxCallOK
  <2> HIDE DEF calls
  <2>4. GmxBatchOK(calls, r, names)
    BY <1>6, <1>o, <2>1, <2>3
  <2>5. QED
    BY <2>4 DEF calls
<1>7. QED
  BY <1>2, <1>3, <1>4, <1>5, <1>6 DEF Gmx!Operations

LEMMA GmxCompiled ==
    ASSUME NEW calls, NEW r \in GmxRequests, NEW known, Gmx!Valid(r),
           GmxRuns!Compiled(calls, r, known),
           NEW names, {"wallet", r.receiver, r.cancellation_receiver} \subseteq names
    PROVE  GmxBatchOK(calls, r, names)
<1>1. PICK seen : Gmx!Decide(r, seen).kind = "calls" /\ calls = Gmx!Decide(r, seen).calls
  BY DEF GmxRuns!Compiled, GmxRuns!Decides
<1>2. r.op \notin Gmx!Queries /\ calls = Gmx!Compile(r)
  BY <1>1 DEF Gmx!Decide
<1>3. r.op \in Gmx!Operations
  BY GmxAssumption
<1>4. QED
  BY <1>2, <1>3, GmxCompileOK

\* Everybody a request may name.
GmxNames == {"wallet"} \cup UNION {{r.receiver, r.cancellation_receiver} : r \in GmxRequests}

\* Nothing a request reads is relied upon later: the market may change it all.
GmxView == [c \in GmxOwned(GmxNames) |-> 0]

\* None of a token is in a vault, or was taken by another account.
GmxNoneOf(c, t) == c.taken[t] = 0 /\ \A v \in Gmx!Vaults : c.sent[v][t] = 0

LEMMA GmxTakenKeeps ==
    ASSUME NEW names, NEW c \in GmxOwned(names), NEW v \in Gmx!Vaults, NEW t \in GmxTokens
    PROVE  LET d == Gmx!Taken(c, v, t)
           IN /\ d \in GmxOwned(names)
              /\ \A u \in GmxTokens \ {t} : GmxNoneOf(c, u) => GmxNoneOf(d, u)
<1>s. GmxFormed(c, names)
  BY GmxShape
<1>1. PICK d : d = Gmx!Taken(c, v, t)
  OBVIOUS
<1>2. PICK h : h = c.sent[v] /\ h \in [GmxTokens -> Int]
  BY <1>s DEF GmxFormed, GmxTyped, Gmx!Holdings, GmxTokens
<1>3. PICK less : less = [h EXCEPT ![t] = 0]
  OBVIOUS
<1>4. less \in [GmxTokens -> Int] /\ \A u \in GmxTokens \ {t} : less[u] = h[u]
  BY <1>2, <1>3
<1>5. PICK sent : sent = [c.sent EXCEPT ![v] = less]
  OBVIOUS
<1>6. /\ sent \in [Gmx!Vaults -> Gmx!Holdings]
      /\ sent[v] = less /\ \A w \in Gmx!Vaults \ {v} : sent[w] = c.sent[w]
  BY <1>4, <1>5, <1>s DEF GmxFormed, GmxTyped, Gmx!Holdings, GmxTokens
<1>7. PICK taken : taken = [c.taken EXCEPT ![t] = @ + h[t]]
  OBVIOUS
<1>8. taken \in Gmx!Holdings /\ \A u \in GmxTokens \ {t} : taken[u] = c.taken[u]
  BY <1>2, <1>7, <1>s DEF GmxFormed, GmxTyped, Gmx!Holdings, GmxTokens
<1>9. d = [c EXCEPT !.sent = sent, !.taken = taken]
  BY <1>1, <1>2, <1>3, <1>5, <1>7, <1>s DEF Gmx!Taken, GmxFormed, GmxRecord
<1>10. d = GmxRecord(c.owned, c.allowance, sent, taken, c.keys, c.claimable, c.requests)
  BY <1>9, <1>s DEF GmxFormed, GmxRecord
<1>11. d \in GmxOwned(names)
  BY <1>6, <1>8, <1>10, <1>s, GmxBuilt DEF GmxFormed, GmxTyped
<1>12. d.sent = sent /\ d.taken = taken
  BY <1>10 DEF GmxRecord
<1>13. \A u \in GmxTokens \ {t} : GmxNoneOf(c, u) => GmxNoneOf(d, u)
  BY <1>2, <1>4, <1>6, <1>8, <1>12 DEF GmxNoneOf
<1>14. QED
  BY <1>1, <1>11, <1>13

LEMMA GmxMoves ==
    ASSUME NEW names, "wallet" \in names, NEW c \in GmxOwned(names), NEW d \in Gmx!Moves(c)
    PROVE  d \in GmxOwned(names) /\ \A t \in GmxTokens : GmxNoneOf(c, t) => GmxNoneOf(d, t)
<1>s. GmxFormed(c, names)
  BY GmxShape
<1>1. CASE d = [c EXCEPT !.owned.wallet.L = @ + 2]
  <2>1. PICK owned : owned = [c.owned EXCEPT !["wallet"]["L"] = @ + 2]
    OBVIOUS
  <2>2. d = GmxRecord(owned, c.allowance, c.sent, c.taken, c.keys, c.claimable, c.requests)
    BY <1>1, <2>1, <1>s DEF GmxRecord, GmxFormed
  <2>3. PICK O : O = [w \in GmxParties |-> [c.owned[w] EXCEPT !["L"] = @ + 2]]
    OBVIOUS
  <2>4. O \in [GmxParties -> Gmx!Holdings]
    <3>1. ASSUME NEW w \in GmxParties
          PROVE  [c.owned[w] EXCEPT !["L"] = @ + 2] \in Gmx!Holdings
      <4>1. PICK h, T : h = c.owned[w] /\ T = DOMAIN Gmx!Nothing /\ h \in [T -> Int]
        BY <1>s DEF GmxFormed, GmxTyped, Gmx!Holdings
      <4>2. 2 \in Int
        OBVIOUS
      <4>3. [h EXCEPT !["L"] = @ + 2] \in [T -> Int]
        BY <4>1, <4>2, Changed
      <4>4. QED
        BY <4>1, <4>3 DEF Gmx!Holdings
    <3>2. QED
      BY <2>3, <3>1
  <2>5. owned = [w \in GmxParties |-> IF w = "wallet" THEN O[w] ELSE c.owned[w]]
    BY <2>1, <2>3, <1>s DEF GmxFormed, GmxTyped
  <2>6. owned \in [GmxParties -> Gmx!Holdings] /\ \A o \in GmxParties \ names : owned[o] = Gmx!Nothing
    BY <2>4, <2>5, <1>s DEF GmxFormed, GmxTyped
  <2>7. d \in GmxOwned(names)
    BY <2>2, <2>6, <1>s, GmxBuilt DEF GmxFormed, GmxTyped
  <2>8. d.sent = c.sent /\ d.taken = c.taken
    BY <2>2 DEF GmxRecord
  <2>9. QED
    BY <2>7, <2>8 DEF GmxNoneOf
<1>2. ASSUME c.requests # <<>>,
             NEW to \in {Head(c.requests).receiver, Head(c.requests).refund}, d = Gmx!Settle(c, 1, to)
      PROVE  d \in GmxOwned(names) /\ \A t \in GmxTokens : GmxNoneOf(c, t) => GmxNoneOf(d, t)
  <2>1. 1 \in DOMAIN c.requests /\ Head(c.requests) = c.requests[1]
    BY <1>2, <1>s DEF GmxFormed, GmxRequestsOf
  <2>2. to \in {c.requests[1].receiver, c.requests[1].refund}
    BY <1>2, <2>1
  <2>3. d \in GmxOwned(names) /\ d.sent = c.sent /\ d.taken = c.taken
    BY <1>2, <2>1, <2>2, GmxSettleKeeps
  <2>4. QED
    BY <2>3 DEF GmxNoneOf
<1>3. ASSUME NEW v \in Gmx!Vaults, NEW t \in GmxTokens, c.sent[v][t] # 0, d = Gmx!Taken(c, v, t)
      PROVE  d \in GmxOwned(names) /\ \A u \in GmxTokens : GmxNoneOf(c, u) => GmxNoneOf(d, u)
  <2>1. ~GmxNoneOf(c, t)
    BY <1>3 DEF GmxNoneOf
  <2>2. d \in GmxOwned(names) /\ \A u \in GmxTokens \ {t} : GmxNoneOf(c, u) => GmxNoneOf(d, u)
    BY <1>3, GmxTakenKeeps
  <2>3. QED
    BY <2>1, <2>2
<1>4. \/ d = [c EXCEPT !.owned.wallet.L = @ + 2]
      \/ c.requests # <<>> /\ \E to \in {Head(c.requests).receiver, Head(c.requests).refund} : d = Gmx!Settle(c, 1, to)
      \/ \E v \in Gmx!Vaults, t \in GmxTokens : c.sent[v][t] # 0 /\ d = Gmx!Taken(c, v, t)
  BY DEF Gmx!Moves, GmxTokens
<1>5. QED
  BY <1>1, <1>2, <1>3, <1>4

LEMMA GmxClosed == GmxRuns!Closed(GmxOwned(GmxNames), GmxView)
<1>1. ASSUME NEW r \in GmxRequests
      PROVE  Len(Gmx!Reads(r)) \in Nat
  <2>1. r.op \in Gmx!Operations
    BY GmxAssumption
  <2>2. PICK V : V = {"amount", "amount2", "market"} \cup Gmx!Queries
    OBVIOUS
  <2>3. PICK a, b : /\ a = IF Gmx!OrZero(r.amount) = 0 THEN <<>> ELSE <<"amount">>
                    /\ b = IF Gmx!OrZero(r.amount2) = 0 THEN <<>> ELSE <<"amount2">>
    OBVIOUS
  <2>4. <<>> \in Seq(V) /\ \A s \in V : <<s>> \in Seq(V)
    OBVIOUS
  <2>5. "amount" \in V /\ "amount2" \in V /\ "market" \in V /\ Gmx!Queries \subseteq V
    BY <2>2
  <2>6. a \in Seq(V) /\ b \in Seq(V)
    BY <2>3, <2>4, <2>5
  <2>7. a \o b \in Seq(V)
    BY <2>6
  <2>8. Gmx!Reads(r) \in {a \o b, <<"amount">>, <<"market">>, <<>>} \/ \E s \in Gmx!Queries : Gmx!Reads(r) = <<s>>
    BY <2>1, <2>3 DEF Gmx!Reads, Gmx!Operations, Gmx!Queries
  <2>9. Gmx!Reads(r) \in Seq(V)
    BY <2>4, <2>5, <2>7, <2>8
  <2>10. QED
    BY <2>9
<1>w. "wallet" \in GmxNames
  BY DEF GmxNames
<1>2. ASSUME NEW c \in GmxOwned(GmxNames), NEW d \in Gmx!Moves(c)
      PROVE  d \in GmxOwned(GmxNames) /\ GmxView[d] = GmxView[c]
  <2>1. d \in GmxOwned(GmxNames)
    BY <1>w, GmxMoves
  <2>2. QED
    BY <2>1 DEF GmxView
<1>3. ASSUME NEW r \in GmxRequests, NEW calls, Gmx!Valid(r),
             GmxRuns!Compiled(calls, r, GmxOwned(GmxNames))
      PROVE  /\ Len(calls) \in Nat
             /\ \A i \in 1..Len(calls), c \in GmxOwned(GmxNames) :
                  Gmx!Call(c, calls[i]) \subseteq GmxOwned(GmxNames)
  <2>1. {"wallet", r.receiver, r.cancellation_receiver} \subseteq GmxNames
    BY DEF GmxNames
  <2>2. GmxBatchOK(calls, r, GmxNames)
    BY <1>3, <2>1, GmxCompiled
  <2>3. ASSUME NEW i \in 1..Len(calls), NEW c \in GmxOwned(GmxNames), NEW d \in Gmx!Call(c, calls[i])
        PROVE  d \in GmxOwned(GmxNames)
    <3>1. PICK k : k = calls[i] /\ GmxCallOK(k, GmxNames)
      BY <2>2 DEF GmxBatchOK
    <3>2. GmxKept(c, d, k, GmxNames)
      BY <2>1, <2>3, <3>1, GmxCallKeeps
    <3>3. QED
      BY <3>2 DEF GmxKept
  <2>4. QED
    BY <2>2, <2>3 DEF GmxBatchOK
<1>4. QED
  BY <1>1, <1>2, <1>3 DEF GmxRuns!Closed

\* What a batch leaves of a token in a vault: nothing, or what was there and
\* what is not credited; and another account takes nothing in it.
GmxEffect(c, d, r) ==
    /\ d.taken = c.taken
    /\ \A v \in Gmx!Vaults, t \in GmxTokens : d.sent[v][t] \in {0, c.sent[v][t] + Unrecorded(r, v, t)}

LEMMA GmxBatchKeeps ==
    ASSUME NEW names, "wallet" \in names, NEW c \in GmxOwned(names),
           NEW calls, NEW r, GmxBatchOK(calls, r, names), NEW d \in GmxRuns!Run(c, calls)
    PROVE  d \in GmxOwned(names) /\ GmxEffect(c, d, r)
<1>1. PICK N, S : N = Len(calls) /\ N \in Nat /\ S = GmxOwned(names)
  BY DEF GmxBatchOK
<1>2. ASSUME NEW i \in 1..N, NEW b \in S, NEW e \in Gmx!Call(b, calls[i])
      PROVE  GmxKept(b, e, calls[i], names)
  <2>1. PICK k : k = calls[i] /\ GmxCallOK(k, names)
    BY <1>1 DEF GmxBatchOK
  <2>2. QED
    BY <1>1, <1>2, <2>1, GmxCallKeeps
<1>3. \A i \in 1..N, b \in S : Gmx!Call(b, calls[i]) \subseteq S
  BY <1>1, <1>2 DEF GmxKept
<1>4. PICK g : GmxRuns!Path(g, c, calls, S) /\ g[N] = d
  BY <1>1, <1>3, GmxRuns!RunPath
<1>5. /\ g \in [0..N -> S] /\ g[0] = c
      /\ \A i \in 1..N : g[i] \in Gmx!Call(g[i - 1], calls[i])
  BY <1>1, <1>4 DEF GmxRuns!Path
<1>6. ASSUME NEW i \in 1..N
      PROVE  GmxKept(g[i - 1], g[i], calls[i], names)
  <2>1. i - 1 \in 0..N /\ g[i - 1] \in S
    BY <1>1, <1>5
  <2>2. QED
    BY <1>2, <1>5, <2>1
<1>7. g[N].taken = c.taken
  <2> DEFINE T == {n \in 0..N : g[n].taken = c.taken}
  <2>1. 0 \in T
    BY <1>1, <1>5
  <2>2. ASSUME NEW n \in 1..N, n - 1 \in T
        PROVE  n \in T
    BY <1>1, <1>6, <2>2 DEF GmxKept
  <2>3. 0..N \subseteq T
    <3> HIDE DEF T
    <3>1. QED
      BY <1>1, <2>1, <2>2, GmxRuns!Upwards
  <2>4. QED
    BY <1>1, <2>3
<1>8. ASSUME NEW v \in Gmx!Vaults, NEW t \in GmxTokens
      PROVE  d.sent[v][t] \in {0, c.sent[v][t] + Unrecorded(r, v, t)}
  <2>1. PICK x : x = [n \in 0..N |-> g[n].sent[v][t]]
    OBVIOUS
  <2>2. \A i \in 1..N : x[i] = GmxAfter(x[i - 1], calls[i], v, t)
    BY <1>1, <1>6, <2>1 DEF GmxKept
  <2>3. x[0] = c.sent[v][t] /\ x[N] = d.sent[v][t]
    BY <1>1, <1>4, <1>5, <2>1
  <2>4. c.sent[v][t] \in Int
    <3>1. GmxFormed(c, names)
      BY GmxShape
    <3>2. QED
      BY <3>1 DEF GmxFormed, GmxTyped, Gmx!Holdings, GmxTokens
  <2>5. \A i \in 1..N : ~GmxTouches(calls[i], v, t) => x[i] = x[i - 1]
    BY <2>2 DEF GmxAfter, GmxTouches
  <2>6. ASSUME NEW p \in 0..N, NEW q \in 0..N, p <= q, \A i \in p + 1..q : ~GmxTouches(calls[i], v, t)
        PROVE  x[q] = x[p]
    <3> DEFINE T == {n \in 0..q : n >= p => x[n] = x[p]}
    <3>1. 0 \in T
      BY <1>1
    <3>2. ASSUME NEW n \in 1..q, n - 1 \in T
          PROVE  n \in T
      <4>1. CASE n <= p
        BY <1>1, <4>1
      <4>2. CASE n > p
        <5>1. n \in p + 1..q /\ n \in 1..N /\ n - 1 >= p /\ n \in 0..q
          BY <1>1, <4>2
        <5>2. x[n] = x[n - 1] /\ x[n - 1] = x[p]
          BY <2>5, <2>6, <3>2, <5>1
        <5>3. QED
          BY <5>1, <5>2
      <4>3. QED
        BY <1>1, <4>1, <4>2
    <3>3. 0..q \subseteq T
      <4> HIDE DEF T
      <4>1. q \in Nat
        BY <1>1
      <4>2. QED
        BY <3>1, <3>2, <4>1, GmxRuns!Upwards
    <3>4. QED
      BY <1>1, <2>6, <3>3
  <2>7. CASE GmxLeaves(calls, v, t) /\ Unrecorded(r, v, t) = 0
    <3>1. x[N] = x[0]
      BY <1>1, <2>6, <2>7 DEF GmxLeaves
    <3>2. QED
      BY <2>3, <2>4, <2>7, <3>1
  <2>8. CASE GmxEmpties(calls, v, t)
    <3>1. N \in 1..N /\ GmxCredits(calls[N], v, t) /\ ~GmxAdds(calls[N], v, t)
      BY <1>1, <2>8 DEF GmxEmpties, GmxCredits, GmxAdds
    <3>2. QED
      BY <2>2, <2>3, <3>1 DEF GmxAfter
  <2>9. CASE GmxStrays(calls, v, t, Unrecorded(r, v, t))
    <3>1. PICK i \in 1..N : /\ GmxAdds(calls[i], v, t) /\ calls[i].amount = Unrecorded(r, v, t)
                            /\ \A j \in 1..N \ {i} : ~GmxTouches(calls[j], v, t)
      BY <1>1, <2>9 DEF GmxStrays
    <3>2. i - 1 \in 0..N /\ i \in 0..N /\ 0 \in 0..N /\ N \in 0..N /\ 0 <= i - 1 /\ i <= N
      BY <1>1
    <3>3. (\A j \in 0 + 1..i - 1 : j \in 1..N \ {i}) /\ (\A j \in i + 1..N : j \in 1..N \ {i})
      BY <1>1
    <3>4. x[i - 1] = x[0]
      BY <2>6, <3>1, <3>2, <3>3
    <3>5. x[N] = x[i]
      BY <2>6, <3>1, <3>2, <3>3
    <3>6. x[i] = x[i - 1] + Unrecorded(r, v, t)
      BY <2>2, <3>1 DEF GmxAfter
    <3>7. QED
      BY <2>3, <3>4, <3>5, <3>6
  <2>10. QED
    BY <2>7, <2>8, <2>9 DEF GmxBatchOK
<1>9. d \in GmxOwned(names)
  BY <1>1, <1>4, <1>5
<1>10. QED
  BY <1>4, <1>7, <1>8, <1>9 DEF GmxEffect

\* Who is named so far: the wallet, and whom the requests name.
GmxNamed ==
    {"wallet"} \cup UNION {{task[h].req.receiver, task[h].req.cancellation_receiver} :
                             h \in {g \in Handlers : task[g] # GmxRuns!Idle}}

GmxInv ==
    /\ GmxRuns!HandlerInv(GmxOwned(GmxNames), GmxView)
    /\ chain \in GmxOwned(GmxNamed)
    /\ \A t \in GmxTokens \ Strayed : GmxNoneOf(chain, t)

LEMMA GmxMore ==
    ASSUME NEW names, NEW more, names \subseteq more
    PROVE  GmxOwned(names) \subseteq GmxOwned(more)
<1>1. ASSUME NEW c \in GmxOwned(names)
      PROVE  c \in GmxOwned(more)
  <2>1. GmxFormed(c, names)
    BY GmxShape
  <2>2. PICK Q, R : /\ Q = [vault : Gmx!Vaults, key : Nat, funds : Gmx!Holdings,
                            receiver : names, refund : names, size : Int]
                    /\ R = [vault : Gmx!Vaults, key : Nat, funds : Gmx!Holdings,
                            receiver : more, refund : more, size : Int]
    OBVIOUS
  <2>3. Q \subseteq R
    BY <2>2
  <2>s. PICK q : q = c.requests /\ q \in Seq(Q)
    BY <2>1, <2>2 DEF GmxFormed, GmxRequestsOf
  <2>4. c.requests \in Seq(R)
    BY <2>s, <2>3
  <2>5. c.requests \in GmxRequestsOf(more)
    BY <2>2, <2>4 DEF GmxRequestsOf
  <2>6. \A o \in GmxParties \ more : c.owned[o] = Gmx!Nothing
    BY <2>1 DEF GmxFormed
  <2>7. GmxRecord(c.owned, c.allowance, c.sent, c.taken, c.keys, c.claimable, c.requests) \in GmxOwned(more)
    BY <2>1, <2>5, <2>6, GmxBuilt DEF GmxFormed
  <2>8. QED
    BY <2>1, <2>7 DEF GmxFormed
<1>2. QED
  BY <1>1

LEMMA GmxStart ==
    ASSUME Init, protocol = "gmx"
    PROVE  GmxInv
<1>1. /\ chain \in GmxChains /\ task = [h \in Handlers |-> GmxRuns!Idle]
  BY DEF Init, OnUniswap!Idle, GmxRuns!Idle
<1>2. PICK names : names = {"wallet"}
  OBVIOUS
<1>3. /\ chain \in Gmx!States(GmxParties, names)
      /\ \A v \in Gmx!Vaults : chain.sent[v] = Gmx!Nothing
      /\ chain.taken = Gmx!Nothing
      /\ \A o \in GmxParties \ names : chain.owned[o] = Gmx!Nothing
  BY <1>1, <1>2, GmxAssumption
<1>4. chain \in GmxOwned(names)
  BY <1>3 DEF GmxOwned
<1>5. names \subseteq GmxNames /\ names \subseteq GmxNamed
  BY <1>2 DEF GmxNames, GmxNamed
<1>6. chain \in GmxOwned(GmxNames) /\ chain \in GmxOwned(GmxNamed)
  BY <1>4, <1>5, GmxMore
<1>7. \A t \in GmxTokens : Gmx!Nothing[t] = 0
  BY DEF Gmx!Nothing, GmxTokens
<1>8. \A t \in GmxTokens : GmxNoneOf(chain, t)
  BY <1>3, <1>7 DEF GmxNoneOf
<1>9. QED
  BY <1>1, <1>6, <1>8, GmxRuns!HandlerStart DEF GmxInv

\* A handler that has begun keeps its request and has run what it ran.
LEMMA GmxGrows ==
    ASSUME GmxInv, OnGmx!Next
    PROVE  /\ GmxNamed \subseteq GmxNamed' /\ Strayed \subseteq Strayed'
           /\ \A h \in Handlers : task[h] # GmxRuns!Idle /\ task'[h].runs > 0 /\ Decreasing(task[h].req) =>
                task[h].req.token \in Strayed'
<1>1. \A h \in Handlers : task[h] # GmxRuns!Idle =>
        /\ task'[h] # GmxRuns!Idle /\ task'[h].req = task[h].req
        /\ task[h].runs > 0 => task'[h].runs > 0
  <2>1. GmxRuns!Next /\ GmxRuns!HandlerInv(GmxOwned(GmxNames), GmxView)
    BY GmxSame DEF GmxInv
  <2>2. QED
    BY <2>1, GmxRuns!RequestStays
<1>2. GmxRuns!HandlerInv(GmxOwned(GmxNames), GmxView)'
  <2>1. GmxRuns!Next /\ GmxRuns!HandlerInv(GmxOwned(GmxNames), GmxView)
    BY GmxSame DEF GmxInv
  <2>2. QED
    BY <2>1, GmxClosed, GmxRuns!HandlerStep
<1>3. \A h \in Handlers : h \in Busy => task[h] # GmxRuns!Idle
  BY DEF Busy, GmxRuns!Idle
<1>4. \A h \in Handlers : task'[h] # GmxRuns!Idle => h \in Busy'
  <2>1. \A h \in Handlers : GmxRuns!TaskOK(task[h], GmxOwned(GmxNames), GmxView)'
    BY <1>2 DEF GmxRuns!HandlerInv
  <2>2. QED
    BY <2>1 DEF GmxRuns!TaskOK, GmxRuns!Stages, Busy
<1>5. GmxNamed \subseteq GmxNamed'
  BY <1>1 DEF GmxNamed, GmxRuns!Idle
<1>6. ASSUME NEW h \in Handlers, task[h] # GmxRuns!Idle, task'[h].runs > 0, Decreasing(task[h].req)
      PROVE  task[h].req.token \in Strayed'
  <2>1. PICK r : r = task[h].req /\ r = task'[h].req /\ Decreasing(r)
    BY <1>1, <1>6
  <2>2. h \in Busy'
    BY <1>1, <1>4, <1>6
  <2>3. Request(h)' = r
    BY <2>1 DEF Request
  <2>4. QED
    BY <1>6, <2>1, <2>2, <2>3 DEF Strayed, Decreasing
<1>7. Strayed \subseteq Strayed'
  <2>1. ASSUME NEW t \in Strayed
        PROVE  t \in Strayed'
    <3>1. PICK h \in Busy : t = task[h].req.token /\ Decreasing(task[h].req) /\ task[h].runs > 0
      BY DEF Strayed, Request
    <3>2. h \in Handlers /\ task[h] # GmxRuns!Idle
      BY <1>3 DEF Busy
    <3>3. QED
      BY <1>1, <1>6, <3>1, <3>2
  <2>2. QED
    BY <2>1
<1>8. QED
  BY <1>5, <1>6, <1>7

LEMMA GmxStep ==
    ASSUME GmxInv, OnGmx!Next
    PROVE  GmxInv'
<1>1. GmxRuns!Next /\ GmxRuns!HandlerInv(GmxOwned(GmxNames), GmxView)
  BY GmxSame DEF GmxInv
<1>2. GmxRuns!HandlerInv(GmxOwned(GmxNames), GmxView)'
  BY <1>1, GmxClosed, GmxRuns!HandlerStep
<1>3. PICK c, d, names, more, strayed, after :
        /\ c = chain /\ d = chain' /\ names = GmxNamed /\ more = GmxNamed'
        /\ strayed = Strayed /\ after = Strayed'
  OBVIOUS
<1>4. names \subseteq more /\ strayed \subseteq after
  BY <1>3, GmxGrows
<1>5. "wallet" \in names /\ c \in GmxOwned(names) /\ \A t \in GmxTokens \ strayed : GmxNoneOf(c, t)
  BY <1>3 DEF GmxInv, GmxNamed
<1>6. d \in GmxOwned(names) /\ \A t \in GmxTokens \ after : GmxNoneOf(d, t)
  <2>1. CASE d = c
    BY <1>4, <1>5, <2>1
  <2>2. CASE d \in Gmx!Moves(c)
    BY <1>4, <1>5, <2>2, GmxMoves
  <2>3. ASSUME NEW h \in Handlers, task[h] # GmxRuns!Idle,
               GmxRuns!TaskOK(task[h], GmxOwned(GmxNames), GmxView),
               task[h].stage \in GmxRuns!Compiling,
               d \in GmxRuns!Run(c, task[h].result), task'[h].runs > 0
        PROVE  d \in GmxOwned(names) /\ \A t \in GmxTokens \ after : GmxNoneOf(d, t)
    <3>1. PICK r, calls, known :
            /\ r = task[h].req /\ calls = task[h].result
            /\ known = GmxRuns!Known(task[h], GmxOwned(GmxNames), GmxView)
      OBVIOUS
    <3>2. r \in GmxRequests /\ Gmx!Valid(r) /\ GmxRuns!Compiled(calls, r, known)
      BY <2>3, <3>1 DEF GmxRuns!TaskOK, GmxRuns!Compiling
    <3>3. {"wallet", r.receiver, r.cancellation_receiver} \subseteq names
      BY <1>3, <2>3, <3>1 DEF GmxNamed
    <3>4. GmxBatchOK(calls, r, names)
      BY <3>2, <3>3, GmxCompiled
    <3>5. d \in GmxOwned(names) /\ GmxEffect(c, d, r)
      BY <1>5, <2>3, <3>1, <3>4, GmxBatchKeeps
    <3>6. Decreasing(r) => r.token \in after
      BY <1>3, <2>3, <3>1, GmxGrows
    <3>7. ASSUME NEW t \in GmxTokens \ after
          PROVE  GmxNoneOf(d, t)
      <4>1. GmxNoneOf(c, t)
        BY <1>4, <1>5
      <4>2. \A v \in Gmx!Vaults : Unrecorded(r, v, t) = 0
        BY <3>6 DEF Unrecorded
      <4>3. QED
        BY <3>5, <4>1, <4>2 DEF GmxEffect, GmxNoneOf
    <3>8. QED
      BY <3>5, <3>7
  <2>4. \/ d = c \/ d \in Gmx!Moves(c)
        \/ \E h \in Handlers : /\ task[h] # GmxRuns!Idle
                               /\ GmxRuns!TaskOK(task[h], GmxOwned(GmxNames), GmxView)
                               /\ task[h].stage \in GmxRuns!Compiling
                               /\ d \in GmxRuns!Run(c, task[h].result)
                               /\ task'[h].runs > 0
    BY <1>1, <1>3, GmxRuns!ChainChanges
  <2>5. QED
    BY <2>1, <2>2, <2>3, <2>4
<1>7. d \in GmxOwned(more)
  BY <1>4, <1>6, GmxMore
<1>8. QED
  BY <1>2, <1>3, <1>6, <1>7 DEF GmxInv

LEMMA GmxStays ==
    ASSUME GmxInv, UNCHANGED vars
    PROVE  GmxInv'
BY DEF GmxInv, vars, GmxNamed, GmxRuns!HandlerInv, GmxRuns!TaskOK, GmxRuns!Known,
       Strayed, Busy, Request, GmxNoneOf

\* A batch that succeeds, whatever happened before it.
LEMMA GmxDone ==
    ASSUME GmxInv, OnGmx!Next, NEW h \in Handlers, OnGmx!Succeeded(h)
    PROVE  GmxEffect(chain, chain', task[h].req)
<1>1. /\ GmxRuns!Next /\ GmxRuns!HandlerInv(GmxOwned(GmxNames), GmxView)
      /\ GmxRuns!Succeeded(h)
  BY GmxSame DEF GmxInv
<1>2. PICK t, r, calls, c, d :
        /\ t = task[h] /\ r = t.req /\ calls = t.result /\ c = chain /\ d = chain'
  OBVIOUS
<1>3. /\ t # GmxRuns!Idle /\ GmxRuns!TaskOK(t, GmxOwned(GmxNames), GmxView)
      /\ t.stage \in GmxRuns!Compiling /\ d \in GmxRuns!Run(c, calls)
  BY <1>1, <1>2, GmxRuns!TakesEffect
<1>4. PICK known : known = GmxRuns!Known(t, GmxOwned(GmxNames), GmxView)
  OBVIOUS
<1>5. r \in GmxRequests /\ Gmx!Valid(r) /\ GmxRuns!Compiled(calls, r, known)
  BY <1>2, <1>3, <1>4 DEF GmxRuns!TaskOK, GmxRuns!Compiling
<1>6. {"wallet", r.receiver, r.cancellation_receiver} \subseteq GmxNames
  BY <1>5 DEF GmxNames
<1>7. GmxBatchOK(calls, r, GmxNames)
  BY <1>5, <1>6, GmxCompiled
<1>8. c \in GmxOwned(GmxNames)
  BY <1>1, <1>2 DEF GmxRuns!HandlerInv
<1>9. QED
  BY <1>2, <1>3, <1>6, <1>7, <1>8, GmxBatchKeeps

\* The funds as the property of TradingProtocols says it.
LEMMA GmxFunds ==
    ASSUME GmxInv
    PROVE  FundsReachOnlyTheNamed
<1>1. ASSUME NEW o \in DOMAIN chain.owned \
               ({"wallet"} \cup UNION {{Request(h).receiver, Request(h).cancellation_receiver} : h \in Busy})
      PROVE  chain.owned[o] = Gmx!Nothing
  <2>1. chain \in GmxOwned(GmxNamed)
    BY DEF GmxInv
  <2>2. DOMAIN chain.owned = GmxParties /\ \A p \in GmxParties \ GmxNamed : chain.owned[p] = Gmx!Nothing
    BY <2>1 DEF GmxOwned, Gmx!States
  <2>3. \A h \in Handlers : task[h] # GmxRuns!Idle => h \in Busy
    BY DEF GmxInv, GmxRuns!HandlerInv, GmxRuns!TaskOK, GmxRuns!Stages, Busy
  <2>4. o \notin GmxNamed
    BY <1>1, <2>3 DEF GmxNamed, Request
  <2>5. QED
    BY <1>1, <2>2, <2>4
<1>2. \A t \in DOMAIN Gmx!Nothing \ Strayed : chain.taken[t] = 0
  BY DEF GmxInv, GmxNoneOf, GmxTokens
<1>3. QED
  BY <1>1, <1>2 DEF FundsReachOnlyTheNamed

-----------------------------------------------------------------------------
(* Uniswap: the states, the numbers, the choice of a pool, a swap.          *)

LEMMA PoolRanks ==
    /\ Uniswap!PoolNames = {"p1", "p2", "p3"}
    /\ \A p \in Uniswap!PoolNames : Uniswap!Rank(p) \in 1..3
    /\ \A p, q \in Uniswap!PoolNames : Uniswap!Rank(p) = Uniswap!Rank(q) => p = q
<1>1. Uniswap!PoolOrder = <<"p1", "p2", "p3">>
  BY DEF Uniswap!PoolOrder
<1>2. DOMAIN Uniswap!PoolOrder = 1..3
  BY <1>1
<1>3. Uniswap!PoolNames = {"p1", "p2", "p3"}
  BY <1>1, <1>2 DEF Uniswap!PoolNames, Uniswap!Range
<1>4. ASSUME NEW p \in Uniswap!PoolNames
      PROVE  Uniswap!Rank(p) \in 1..3 /\ Uniswap!PoolOrder[Uniswap!Rank(p)] = p
  <2>1. \E i \in DOMAIN Uniswap!PoolOrder : Uniswap!PoolOrder[i] = p
    BY <1>4 DEF Uniswap!PoolNames, Uniswap!Range
  <2>2. Uniswap!Rank(p) \in DOMAIN Uniswap!PoolOrder /\ Uniswap!PoolOrder[Uniswap!Rank(p)] = p
    BY <2>1 DEF Uniswap!Rank
  <2>3. QED
    BY <1>2, <2>2
<1>5. QED
  BY <1>3, <1>4

\* The best pool, as the fold finds it: best[n] is the best of the first n.
UniswapBestOf(best, r, listed, quotes, N) ==
    /\ best[0] = Uniswap!NoQuote
    /\ \A n \in 1..N :
         best[n] = IF /\ Uniswap!Usable(r, listed, quotes[n])
                      /\ Uniswap!QuoteIsBetter(r.kind, quotes[n], best[n - 1])
                   THEN quotes[n] ELSE best[n - 1]

LEMMA UniswapFold ==
    ASSUME NEW r, NEW listed, NEW N \in Nat, NEW quotes, DOMAIN quotes = 1..N
    PROVE  \E best : /\ UniswapBestOf(best, r, listed, quotes, N)
                     /\ Uniswap!SelectBestPool(r, listed, quotes) = best[N]
<1> DEFINE U == {Uniswap!NoQuote} \cup {quotes[i] : i \in 1..N}
           step == [i \in 1..N |-> [b \in U |->
                      IF Uniswap!Usable(r, listed, quotes[i]) /\ Uniswap!QuoteIsBetter(r.kind, quotes[i], b)
                      THEN quotes[i] ELSE b]]
           Rec(i) == i = [s \in SUBSET (DOMAIN quotes) |->
                            IF s = {} THEN Uniswap!NoQuote
                            ELSE LET x == Uniswap!Max(s)
                                 IN IF /\ Uniswap!Usable(r, listed, quotes[x])
                                       /\ Uniswap!QuoteIsBetter(r.kind, quotes[x], i[s \ {x}])
                                    THEN quotes[x] ELSE i[s \ {x}]]
<1>1. \A s : Uniswap!Max(s) = UniswapRuns!Largest(s)
  BY DEF Uniswap!Max, UniswapRuns!Largest
<1>2. PICK it : UniswapRuns!Folds(it, U, Uniswap!NoQuote, N, step)
  <2>1. PICK V, base, st : V = U /\ base = Uniswap!NoQuote /\ st = step
    OBVIOUS
  <2>2. base \in V
    BY <2>1
  <2>3. st \in [1..N -> [V -> V]]
    BY <2>1
  <2>4. \E it : UniswapRuns!Folds(it, V, base, N, st)
    BY <2>2, <2>3, UniswapRuns!FoldExists
  <2> HIDE DEF U, step
  <2>5. QED
    BY <2>1, <2>4
<1>3. Rec(it)
  <2>1. ASSUME NEW s \in SUBSET (1..N)
        PROVE  it[s] = IF s = {} THEN Uniswap!NoQuote
                       ELSE LET x == Uniswap!Max(s)
                            IN IF /\ Uniswap!Usable(r, listed, quotes[x])
                                  /\ Uniswap!QuoteIsBetter(r.kind, quotes[x], it[s \ {x}])
                               THEN quotes[x] ELSE it[s \ {x}]
    <3>1. CASE s = {}
      BY <1>2, <3>1 DEF UniswapRuns!Folds
    <3>2. CASE s # {}
      <4>1. PICK x \in 1..N : x = UniswapRuns!Largest(s) /\ x = Uniswap!Max(s)
        BY <1>1, <3>2, UniswapRuns!LargestIn
      <4>2. PICK b \in U : b = it[s \ {x}]
        <5>1. s \ {x} \in SUBSET (1..N)
          OBVIOUS
        <5> HIDE DEF U
        <5>2. QED
          BY <1>2, <5>1 DEF UniswapRuns!Folds
      <4>3. it[s] = step[x][b]
        <5> HIDE DEF U, step
        <5>1. QED
          BY <1>2, <3>2, <4>1, <4>2 DEF UniswapRuns!Folds
      <4>4. step[x][b] = IF Uniswap!Usable(r, listed, quotes[x]) /\ Uniswap!QuoteIsBetter(r.kind, quotes[x], b)
                         THEN quotes[x] ELSE b
        BY <4>1, <4>2
      <4>5. QED
        BY <3>2, <4>1, <4>2, <4>3, <4>4
    <3>3. QED
      BY <3>1, <3>2
  <2>2. it = [s \in SUBSET (1..N) |-> it[s]]
    BY <1>2 DEF UniswapRuns!Folds
  <2>3. QED
    BY <2>1, <2>2
<1>4. PICK i : Rec(i) /\ Uniswap!SelectBestPool(r, listed, quotes) = i[DOMAIN quotes]
  BY <1>3 DEF Uniswap!SelectBestPool, Uniswap!FoldLeft, Uniswap!MapThenFoldSet
<1>5. PICK best : best = [n \in 0..N |-> i[1..n]]
  OBVIOUS
<1>6. best[0] = Uniswap!NoQuote
  <2>1. 1..0 = {} /\ 1..0 \in SUBSET (1..N) /\ 0 \in 0..N
    OBVIOUS
  <2>2. QED
    BY <1>4, <1>5, <2>1
<1>7. ASSUME NEW n \in 1..N
      PROVE  best[n] = IF /\ Uniswap!Usable(r, listed, quotes[n])
                          /\ Uniswap!QuoteIsBetter(r.kind, quotes[n], best[n - 1])
                       THEN quotes[n] ELSE best[n - 1]
  <2>1. PICK s : s = 1..n
    OBVIOUS
  <2>2. s # {} /\ Uniswap!Max(s) = n /\ s \ {n} = 1..n - 1
    BY <1>1, <2>1, UniswapRuns!LargestOfAll
  <2>3. s \in SUBSET (1..N) /\ n \in 0..N /\ n - 1 \in 0..N
    BY <2>1
  <2>4. best[n] = i[s] /\ best[n - 1] = i[s \ {n}]
    BY <1>5, <2>1, <2>2, <2>3
  <2>5. i[s] = IF /\ Uniswap!Usable(r, listed, quotes[n])
                  /\ Uniswap!QuoteIsBetter(r.kind, quotes[n], i[s \ {n}])
               THEN quotes[n] ELSE i[s \ {n}]
    BY <1>4, <2>2, <2>3
  <2>6. QED
    BY <2>4, <2>5
<1>8. Uniswap!SelectBestPool(r, listed, quotes) = best[N]
  BY <1>4, <1>5
<1>9. QED
  BY <1>6, <1>7, <1>8 DEF UniswapBestOf

UniswapView == [c \in Uniswap!States |-> 0]

LEMMA UniswapNumbers ==
    ASSUME NEW text
    PROVE  Uniswap!ParsePositive(text) \in 1..Uniswap!Max128 \cup {Uniswap!Err}
BY DEF Uniswap!ParsePositive

LEMMA UniswapNames ==
    /\ Uniswap!Err = -1 /\ Uniswap!Native = "ETH" /\ Uniswap!Currencies = {"ETH", "TOK"}
    /\ Uniswap!Max128 = 500 /\ Uniswap!MaxPermit = 600 /\ Uniswap!MaxDeadline = 31
BY DEF Uniswap!Err, Uniswap!Native, Uniswap!Currencies, Uniswap!Max128, Uniswap!MaxPermit, Uniswap!MaxDeadline

LEMMA UniswapQuoteIs ==
    ASSUME NEW c \in Uniswap!States, NEW p \in Uniswap!PoolNames, NEW token,
           NEW kind \in {"exact_in", "exact_out"}, NEW n \in Int
    PROVE  Uniswap!Quote(c, p, token, kind, n) \in Int
<1>1. PICK rate \in Nat \ {0} : rate = c.pool[p].rate
  BY DEF Uniswap!States
<1>2. PICK up, down : up = n * rate /\ down = n * 10 /\ up \in Int /\ down \in Int
  OBVIOUS
<1>3. /\ up \div 10 \in Int /\ down \div rate \in Int
      /\ (up + 10 - 1) \div 10 \in Int /\ (down + rate - 1) \div rate \in Int
  BY <1>1, <1>2
<1>4. PICK first : first = (token = Uniswap!Native) /\ first \in BOOLEAN
  OBVIOUS
<1>5. Uniswap!QuoteAt(rate, first, kind, n) \in Int
  BY <1>2, <1>3, <1>4 DEF Uniswap!QuoteAt, Uniswap!DivUp
<1>6. QED
  BY <1>1, <1>4, <1>5, UniswapNames DEF Uniswap!Quote

\* What a request sees of a pool.
LEMMA UniswapReadPool ==
    ASSUME NEW c, NEW p \in Uniswap!PoolNames, NEW r, r.op \in Uniswap!Actions
    PROVE  Uniswap!Read(c, p, r) =
             [pool |-> p, initialized |-> c.pool[p].initialized, hooked |-> c.pool[p].hooked,
              gas |-> c.pool[p].gas,
              amount |-> Uniswap!Quote(c, p, r.token_in, r.kind, Uniswap!Amount(r))]
BY PoolRanks DEF Uniswap!Read

LEMMA UniswapReadOther ==
    ASSUME NEW c, NEW r
    PROVE  Uniswap!Read(c, "listed", r) = c.listed /\ Uniswap!Read(c, "clock", r) = c.now
BY DEF Uniswap!Read

\* A list of what a request reads, by position.
LEMMA UniswapReadsAre ==
    ASSUME NEW r \in UniswapRequests, Uniswap!Valid(r)
    PROVE  /\ Len(Uniswap!Reads(r)) \in Nat
           /\ r.op \in Uniswap!Actions /\ r.pool = "" =>
                /\ Len(r.order) \in Nat /\ Len(Uniswap!Reads(r)) = Len(r.order) + 2
                /\ Uniswap!Reads(r)[1] = "listed"
                /\ \A i \in 1..Len(r.order) : Uniswap!Reads(r)[i + 1] = r.order[i]
                /\ Uniswap!Reads(r)[Len(r.order) + 2] = "clock"
           /\ r.op \in Uniswap!Actions /\ r.pool # "" =>
                /\ Len(Uniswap!Reads(r)) = 2 /\ Uniswap!Reads(r)[1] = r.pool
                /\ Uniswap!Reads(r)[2] = "clock" /\ r.pool \in Uniswap!PoolNames
<1>1. /\ r.op \in Uniswap!Operations /\ r.order \in Seq(Uniswap!PoolNames)
      /\ r.pool \in Uniswap!PoolNames \cup {"", "partial"}
  BY UniswapAssumption DEF Uniswap!IsRequest
<1>2. PICK V : V = {"listed", "clock", "balances", r.pool} \cup Uniswap!PoolNames
  OBVIOUS
<1>3. PICK a, b, d : a = <<"listed">> /\ b = r.order /\ d = <<"clock">>
  OBVIOUS
<1>4. a \in Seq(V) /\ b \in Seq(V) /\ d \in Seq(V) /\ <<r.pool>> \in Seq(V) /\ <<"balances">> \in Seq(V)
  <2>1. \A s \in V : <<s>> \in Seq(V)
    OBVIOUS
  <2>2. PICK P : P = Uniswap!PoolNames /\ P \subseteq V /\ b \in Seq(P)
    BY <1>1, <1>2, <1>3
  <2>3. b \in Seq(V)
    BY <2>2
  <2>4. QED
    BY <1>2, <1>3, <2>1, <2>3
<1>5. Len(a) = 1 /\ a[1] = "listed" /\ Len(d) = 1 /\ d[1] = "clock"
  BY <1>3
<1>6. a \o b \in Seq(V) /\ (a \o b) \o d \in Seq(V) /\ <<r.pool>> \o d \in Seq(V)
  BY <1>4
<1>7. /\ Len(a \o b) = Len(b) + 1
      /\ Len((a \o b) \o d) = Len(b) + 2
      /\ Len(b) \in Nat
  BY <1>4, <1>5, <1>6, ConcatProperties
<1>8. /\ ((a \o b) \o d)[1] = "listed"
      /\ \A i \in 1..Len(b) : ((a \o b) \o d)[i + 1] = b[i]
      /\ ((a \o b) \o d)[Len(b) + 2] = "clock"
  <2>1. PICK ab : ab = a \o b /\ ab \in Seq(V) /\ Len(ab) = Len(b) + 1
    BY <1>6, <1>7
  <2>2. ab[1] = "listed" /\ \A i \in 1..Len(b) : ab[i + 1] = b[i]
    BY <1>4, <1>5, <2>1
  <2>3. \A i \in 1..Len(ab) : (ab \o d)[i] = ab[i]
    BY <1>4, <2>1
  <2>4. (ab \o d)[Len(ab) + 1] = d[1]
    BY <1>4, <1>5, <2>1
  <2>5. QED
    BY <1>5, <1>7, <2>1, <2>2, <2>3, <2>4
<1>9. /\ Len(<<r.pool>> \o d) = 2 /\ (<<r.pool>> \o d)[1] = r.pool /\ (<<r.pool>> \o d)[2] = "clock"
  BY <1>3
<1>10. /\ r.op \in Uniswap!Actions => Uniswap!Reads(r) = IF r.pool = "" THEN (a \o b) \o d ELSE <<r.pool>> \o d
       /\ r.op \notin Uniswap!Actions => Uniswap!Reads(r) \in {<<r.pool>>, a \o b, <<"balances">>}
  BY <1>1, <1>3 DEF Uniswap!Reads, Uniswap!Actions, Uniswap!Operations
<1>11. r.op \in Uniswap!Actions => r.pool # "partial"
  BY DEF Uniswap!Valid
<1>12. Uniswap!Reads(r) \in Seq(V)
  BY <1>4, <1>6, <1>10
<1>13. Len(Uniswap!Reads(r)) \in Nat
  BY <1>12
<1>14. CASE r.op \in Uniswap!Actions /\ r.pool = ""
  <2>1. Uniswap!Reads(r) = (a \o b) \o d
    BY <1>10, <1>14
  <2>2. QED
    BY <1>3, <1>7, <1>8, <1>13, <1>14, <2>1
<1>15. CASE r.op \in Uniswap!Actions /\ r.pool # ""
  <2>1. Uniswap!Reads(r) = <<r.pool>> \o d
    BY <1>10, <1>15
  <2>2. QED
    BY <1>1, <1>9, <1>11, <1>13, <1>15, <2>1
<1>16. QED
  BY <1>13, <1>14, <1>15

\* a comes before b in the order of the choice.
UniswapBefore(kind, a, b) ==
    \/ IF kind = "exact_in" THEN a.amount > b.amount ELSE a.amount < b.amount
    \/ a.amount = b.amount /\ a.gas < b.gas
    \/ a.amount = b.amount /\ a.gas = b.gas /\ Uniswap!Rank(a.pool) < Uniswap!Rank(b.pool)

UniswapQuoted(q) == q.amount \in Int /\ q.gas \in Int /\ q.pool \in Uniswap!PoolNames

LEMMA UniswapOrder ==
    ASSUME NEW kind, NEW a, NEW b, NEW d, UniswapQuoted(a), UniswapQuoted(b), UniswapQuoted(d)
    PROVE  /\ ~UniswapBefore(kind, a, a)
           /\ ~UniswapBefore(kind, a, b) /\ UniswapBefore(kind, d, b) => ~UniswapBefore(kind, a, d)
<1>1. PICK x, y, z : x = Uniswap!Rank(a.pool) /\ y = Uniswap!Rank(b.pool) /\ z = Uniswap!Rank(d.pool)
  OBVIOUS
<1>2. x \in Int /\ y \in Int /\ z \in Int
  BY <1>1, PoolRanks DEF UniswapQuoted
<1>3. QED
  BY <1>1, <1>2 DEF UniswapBefore, UniswapQuoted

\* The pool that is chosen is one of those that can be, and none comes before it.
UniswapChosen(best, r, listed, quotes, N) ==
    \/ /\ best = Uniswap!NoQuote
       /\ \A i \in 1..N : ~Uniswap!Usable(r, listed, quotes[i])
    \/ /\ \E i \in 1..N : best = quotes[i] /\ Uniswap!Usable(r, listed, quotes[i])
       /\ \A i \in 1..N : Uniswap!Usable(r, listed, quotes[i]) =>
            ~UniswapBefore(r.kind, quotes[i], best)

LEMMA UniswapChoice ==
    ASSUME NEW r, NEW listed, NEW N \in Nat, NEW quotes, DOMAIN quotes = 1..N,
           \A i \in 1..N : UniswapQuoted(quotes[i])
    PROVE  UniswapChosen(Uniswap!SelectBestPool(r, listed, quotes), r, listed, quotes, N)
<1>1. PICK best : /\ UniswapBestOf(best, r, listed, quotes, N)
                  /\ Uniswap!SelectBestPool(r, listed, quotes) = best[N]
  BY UniswapFold
<1> DEFINE Able(i) == Uniswap!Usable(r, listed, quotes[i])
           Done(n) == \/ best[n] = Uniswap!NoQuote /\ \A i \in 1..n : ~Able(i)
                      \/ /\ \E i \in 1..n : best[n] = quotes[i] /\ Able(i)
                         /\ \A i \in 1..n : Able(i) => ~UniswapBefore(r.kind, quotes[i], best[n])
           S == {n \in 0..N : Done(n)}
<1>2. 0 \in S
  BY <1>1 DEF UniswapBestOf
<1>3. ASSUME NEW n \in 1..N, n - 1 \in S
      PROVE  n \in S
  <2>1. PICK q, old, new, able : q = quotes[n] /\ old = best[n - 1] /\ new = best[n] /\ able = Able(n)
    OBVIOUS
  <2>2. new = IF able /\ Uniswap!QuoteIsBetter(r.kind, q, old) THEN q ELSE old
    BY <1>1, <2>1 DEF UniswapBestOf
  <2>3. /\ 1..n = (1..n - 1) \cup {n} /\ UniswapQuoted(q)
        /\ \/ old = Uniswap!NoQuote /\ \A i \in 1..n - 1 : ~Able(i)
           \/ /\ \E i \in 1..n - 1 : old = quotes[i] /\ Able(i)
              /\ \A i \in 1..n - 1 : Able(i) => ~UniswapBefore(r.kind, quotes[i], old)
    BY <1>3, <2>1
  <2> HIDE DEF Able
  <2>4. ASSUME ~able
        PROVE  Done(n)
    <3>1. new = old /\ ~Able(n)
      BY <2>1, <2>2, <2>4
    <3>2. CASE old = Uniswap!NoQuote /\ \A i \in 1..n - 1 : ~Able(i)
      BY <2>1, <2>3, <3>1, <3>2
    <3>3. ASSUME NEW j \in 1..n - 1, old = quotes[j], Able(j),
                 \A i \in 1..n - 1 : Able(i) => ~UniswapBefore(r.kind, quotes[i], old)
          PROVE  Done(n)
      BY <2>1, <2>3, <3>1, <3>3
    <3>4. QED
      BY <2>3, <3>2, <3>3
  <2>5. ASSUME able, old = Uniswap!NoQuote, \A i \in 1..n - 1 : ~Able(i)
        PROVE  Done(n)
    <3>1. new = q
      BY <2>2, <2>5 DEF Uniswap!QuoteIsBetter
    <3>2. ~UniswapBefore(r.kind, q, q)
      BY <2>3, UniswapOrder
    <3>3. QED
      BY <2>1, <2>3, <2>5, <3>1, <3>2
  <2>6. ASSUME able, NEW j \in 1..n - 1, old = quotes[j], Able(j),
               \A i \in 1..n - 1 : Able(i) => ~UniswapBefore(r.kind, quotes[i], old)
        PROVE  Done(n)
    <3>1. UniswapQuoted(old) /\ old # Uniswap!NoQuote
      <4>1. UniswapQuoted(old)
        BY <2>6
      <4>2. Uniswap!NoQuote.pool \notin Uniswap!PoolNames
        BY PoolRanks DEF Uniswap!NoQuote
      <4>3. QED
        BY <4>1, <4>2 DEF UniswapQuoted
    <3>2. Uniswap!QuoteIsBetter(r.kind, q, old) <=> UniswapBefore(r.kind, q, old)
      BY <3>1 DEF Uniswap!QuoteIsBetter, UniswapBefore
    <3>3. CASE UniswapBefore(r.kind, q, old)
      <4>1. new = q
        BY <2>2, <2>6, <3>2, <3>3
      <4>2. ~UniswapBefore(r.kind, q, q)
        BY <2>3, UniswapOrder
      <4>3. ASSUME NEW i \in 1..n - 1, Able(i)
            PROVE  ~UniswapBefore(r.kind, quotes[i], q)
        <5>1. UniswapQuoted(quotes[i]) /\ ~UniswapBefore(r.kind, quotes[i], old)
          BY <2>6, <4>3
        <5>2. QED
          BY <2>3, <3>1, <3>3, <5>1, UniswapOrder
      <4>4. QED
        BY <2>1, <2>3, <2>6, <4>1, <4>2, <4>3
    <3>4. CASE ~UniswapBefore(r.kind, q, old)
      <4>1. new = old
        BY <2>2, <3>2, <3>4
      <4>2. QED
        BY <2>1, <2>3, <2>6, <3>4, <4>1
    <3>5. QED
      BY <3>3, <3>4
  <2>7. Done(n)
    BY <2>1, <2>3, <2>4, <2>5, <2>6
  <2>8. QED
    BY <2>7
<1>4. N \in S
  <2> HIDE DEF S
  <2>1. 0..N \subseteq S
    BY <1>2, <1>3, UniswapRuns!Upwards
  <2>2. QED
    BY <2>1
<1>5. QED
  BY <1>1, <1>4 DEF UniswapChosen

\* What a request has seen: the pool it names, or all pools, as they were then.
UniswapSaw(r, seen, known) ==
    /\ \E c \in known : seen[Len(seen)] = c.now
    /\ r.pool # "" => \E c \in known : seen[1] = Uniswap!Read(c, r.pool, r)
    /\ r.pool = "" =>
         /\ Len(seen) = Len(r.order) + 2
         /\ \E c \in known : seen[1] = c.listed
         /\ \A i \in 1..Len(r.order) : \E c \in known :
              SubSeq(seen, 2, Len(seen) - 1)[i] = Uniswap!Read(c, r.order[i], r)
         /\ DOMAIN SubSeq(seen, 2, Len(seen) - 1) = 1..Len(r.order)

LEMMA UniswapSees ==
    ASSUME NEW r \in UniswapRequests, Uniswap!Valid(r), r.op \in Uniswap!Actions,
           NEW known, NEW seen, UniswapRuns!IsList(seen), UniswapRuns!WasRead(seen, r, known),
           Len(seen) = Len(Uniswap!Reads(r))
    PROVE  UniswapSaw(r, seen, known)
<1>1. PICK V : seen \in Seq(V)
  BY DEF UniswapRuns!IsList
<1>2. \A i \in 1..Len(seen) : \E c \in known : seen[i] = Uniswap!Read(c, Uniswap!Reads(r)[i], r)
  BY DEF UniswapRuns!WasRead
<1>3. CASE r.pool # ""
  <2>1. Len(seen) = 2 /\ Uniswap!Reads(r)[1] = r.pool /\ Uniswap!Reads(r)[2] = "clock"
    BY <1>3, UniswapReadsAre
  <2>2. PICK c \in known : seen[1] = Uniswap!Read(c, r.pool, r)
    BY <1>2, <2>1
  <2>3. PICK d \in known : seen[2] = Uniswap!Read(d, "clock", r)
    BY <1>2, <2>1
  <2>4. QED
    BY <1>3, <2>1, <2>2, <2>3, UniswapReadOther DEF UniswapSaw
<1>4. CASE r.pool = ""
  <2>1. PICK N : N = Len(r.order) /\ N \in Nat /\ Len(seen) = N + 2
    BY <1>4, UniswapReadsAre
  <2>2. /\ Uniswap!Reads(r)[1] = "listed" /\ Uniswap!Reads(r)[N + 2] = "clock"
        /\ \A i \in 1..N : Uniswap!Reads(r)[i + 1] = r.order[i]
    BY <1>4, <2>1, UniswapReadsAre
  <2>3. PICK c \in known : seen[1] = Uniswap!Read(c, "listed", r)
    BY <1>2, <2>1, <2>2
  <2>4. PICK d \in known : seen[N + 2] = Uniswap!Read(d, "clock", r)
    BY <1>2, <2>1, <2>2
  <2>5. PICK quotes : quotes = SubSeq(seen, 2, N + 1)
    OBVIOUS
  <2>6. DOMAIN quotes = 1..N /\ \A i \in 1..N : quotes[i] = seen[i + 1]
    BY <1>1, <2>1, <2>5, SubSeqProperties
  <2>7. ASSUME NEW i \in 1..N
        PROVE  \E e \in known : quotes[i] = Uniswap!Read(e, r.order[i], r)
    <3>1. i + 1 \in 1..Len(seen) /\ Uniswap!Reads(r)[i + 1] = r.order[i]
      BY <2>1, <2>2
    <3>2. PICK e \in known : seen[i + 1] = Uniswap!Read(e, Uniswap!Reads(r)[i + 1], r)
      BY <1>2, <3>1
    <3>3. QED
      BY <2>6, <3>1, <3>2
  <2>8. quotes = SubSeq(seen, 2, Len(seen) - 1)
    BY <2>1, <2>5
  <2>9. QED
    BY <1>4, <2>1, <2>3, <2>4, <2>6, <2>7, <2>8, UniswapReadOther DEF UniswapSaw
<1>5. QED
  BY <1>3, <1>4

LEMMA UniswapPicked ==
    ASSUME NEW r \in UniswapRequests, Uniswap!Valid(r), r.op \in Uniswap!Actions,
           NEW known \in SUBSET Uniswap!States, NEW seen, UniswapSaw(r, seen, known),
           Uniswap!SelectedQuote(r, seen).amount \notin {0, Uniswap!Err}
    PROVE  \E c \in known, p \in Uniswap!PoolNames :
              Uniswap!SelectedQuote(r, seen) = Uniswap!Read(c, p, r)
<1>1. /\ r.order \in Seq(Uniswap!PoolNames) /\ r.kind \in {"exact_in", "exact_out"}
      /\ r.pool # "" => r.pool \in Uniswap!PoolNames
  BY UniswapAssumption DEF Uniswap!IsRequest, Uniswap!Valid
<1>o. PICK P, o : /\ P = Uniswap!PoolNames /\ o = r.order
                  /\ Len(o) \in Nat /\ \A i \in 1..Len(o) : o[i] \in P
  <2>1. PICK P, o : P = Uniswap!PoolNames /\ o = r.order /\ o \in Seq(P)
    BY <1>1
  <2>2. Len(o) \in Nat /\ \A i \in 1..Len(o) : o[i] \in P
    BY <2>1
  <2>3. QED
    BY <2>1, <2>2
<1>z. Uniswap!NoQuote.amount = 0
  BY DEF Uniswap!NoQuote
<1>2. PICK q : q = Uniswap!SelectedQuote(r, seen) /\ q # Uniswap!NoQuote
  BY <1>z
<1>3. CASE r.pool # ""
  BY <1>1, <1>2, <1>3 DEF UniswapSaw, Uniswap!SelectedQuote
<1>4. CASE r.pool = ""
  <2>1. PICK N, quotes : N = Len(r.order) /\ N \in Nat /\ quotes = SubSeq(seen, 2, Len(seen) - 1)
    BY <1>o
  <2>2. /\ DOMAIN quotes = 1..N
        /\ \A i \in 1..N : \E c \in known : quotes[i] = Uniswap!Read(c, r.order[i], r)
    BY <1>4, <2>1 DEF UniswapSaw
  <2>3. ASSUME NEW i \in 1..N
        PROVE  UniswapQuoted(quotes[i]) /\ r.order[i] \in Uniswap!PoolNames
    <3>1. PICK c \in known : quotes[i] = Uniswap!Read(c, r.order[i], r)
      BY <2>2
    <3>2. r.order[i] \in Uniswap!PoolNames /\ c \in Uniswap!States
      BY <1>o, <2>1
    <3>3. Uniswap!Amount(r) \in Int
      BY UniswapNumbers, UniswapNames DEF Uniswap!Amount
    <3>4. Uniswap!Quote(c, r.order[i], r.token_in, r.kind, Uniswap!Amount(r)) \in Int
      BY <1>1, <3>2, <3>3, UniswapQuoteIs
    <3>5. c.pool[r.order[i]].gas \in Int
      BY <3>2 DEF Uniswap!States
    <3>6. QED
      BY <3>1, <3>2, <3>4, <3>5, UniswapReadPool DEF UniswapQuoted
  <2>4. q = Uniswap!SelectBestPool(r, seen[1].pools, quotes)
    BY <1>2, <1>4, <2>1 DEF Uniswap!SelectedQuote
  <2>5. PICK i \in 1..N : q = quotes[i]
    <3>1. \A i \in 1..N : UniswapQuoted(quotes[i])
      BY <2>3
    <3>2. PICK listed : listed = seen[1].pools
      OBVIOUS
    <3>3. UniswapChosen(Uniswap!SelectBestPool(r, listed, quotes), r, listed, quotes, N)
      BY <2>1, <2>2, <3>1, UniswapChoice
    <3>4. QED
      BY <1>2, <2>4, <3>2, <3>3 DEF UniswapChosen
  <2>6. QED
    BY <1>2, <2>2, <2>3, <2>5
<1>5. QED
  BY <1>3, <1>4

\* The terms of a swap: the request's own, or what follows from the quote.
UniswapTerms(r, p, limit, deadline) ==
    /\ p \in Uniswap!PoolNames /\ limit \in Int /\ deadline \in Int
    /\ r.limit # Uniswap!Absent => limit = r.limit.whole
    /\ r.deadline # Uniswap!NoDeadline => deadline = r.deadline
    /\ Uniswap!Amount(r) \in Int /\ Uniswap!Amount(r) = r.amount.whole

LEMMA UniswapWhole ==
    ASSUME NEW text, Uniswap!ParsePositive(text) # Uniswap!Err
    PROVE  Uniswap!ParsePositive(text) = text.whole
BY DEF Uniswap!ParsePositive, Uniswap!ParseRaw, Uniswap!Checked

LEMMA UniswapLimitIs ==
    ASSUME NEW kind, NEW quote \in Int, NEW slippage \in Nat
    PROVE  Uniswap!LimitFromQuote(kind, quote, slippage) \in Int
<1>1. Uniswap!Bps = 10 /\ Uniswap!Err \in Int
  BY UniswapNames DEF Uniswap!Bps
<1>2. \A a : Uniswap!Checked(a) \in Int
  BY UniswapNames DEF Uniswap!Checked
<1>3. \A a, b : Uniswap!CheckedMul(a, b) \in Int /\ Uniswap!CheckedAdd(a, b) \in Int
  BY <1>1, <1>2 DEF Uniswap!CheckedMul, Uniswap!CheckedAdd
<1>4. \A a \in Int : Uniswap!CheckedDiv(a, Uniswap!Bps) \in Int
  BY <1>1, <1>2 DEF Uniswap!CheckedDiv
<1>5. QED
  BY <1>1, <1>3, <1>4 DEF Uniswap!LimitFromQuote

LEMMA UniswapCompiled ==
    ASSUME NEW calls, NEW r \in UniswapRequests, Uniswap!Valid(r),
           NEW known \in SUBSET Uniswap!States, UniswapRuns!Compiled(calls, r, known)
    PROVE  /\ r.op = "swap"
           /\ \E p, limit, deadline :
                UniswapTerms(r, p, limit, deadline) /\ calls = Uniswap!CompileSwap(r, p, limit, deadline)
<1>1. PICK seen : /\ UniswapRuns!Decides(seen, r, known, "calls")
                  /\ calls = Uniswap!Decide(r, seen).calls
  BY DEF UniswapRuns!Compiled
<1>2. /\ UniswapRuns!IsList(seen) /\ UniswapRuns!WasRead(seen, r, known)
      /\ Len(seen) = Len(Uniswap!Reads(r)) /\ Uniswap!Decide(r, seen).kind = "calls"
  BY <1>1 DEF UniswapRuns!Decides
<1>3. r.op \in Uniswap!Actions /\ Uniswap!Decide(r, seen) = Uniswap!DecideSwap(r, seen)
  BY <1>2 DEF Uniswap!Decide
<1>4. UniswapSaw(r, seen, known)
  BY <1>2, <1>3, UniswapSees
<1>5. PICK quote, limit, deadline :
        /\ quote = Uniswap!SelectedQuote(r, seen)
        /\ limit = Uniswap!ResolveLimit(r, quote.amount)
        /\ deadline = Uniswap!ResolveDeadline(r.deadline, seen[Len(seen)])
  OBVIOUS
<1>6. /\ quote.amount \notin {0, Uniswap!Err} /\ limit # Uniswap!Err /\ deadline # Uniswap!Err
      /\ r.op # "quote" /\ calls = Uniswap!CompileSwap(r, quote.pool, limit, deadline)
  BY <1>1, <1>2, <1>3, <1>5 DEF Uniswap!DecideSwap
<1>7. PICK c \in known, p \in Uniswap!PoolNames : quote = Uniswap!Read(c, p, r)
  BY <1>3, <1>4, <1>5, <1>6, UniswapPicked
<1>8. /\ r.kind \in {"exact_in", "exact_out"} /\ r.slippage \in Nat /\ r.deadline \in Int
  BY UniswapAssumption DEF Uniswap!IsRequest
<1>9. /\ Uniswap!Amount(r) # Uniswap!Err
      /\ r.limit = Uniswap!Absent \/ Uniswap!ParsePositive(r.limit) # Uniswap!Err
  BY <1>3 DEF Uniswap!Valid
<1>10. Uniswap!Amount(r) \in Int /\ Uniswap!Amount(r) = r.amount.whole
  BY <1>9, UniswapNumbers, UniswapWhole, UniswapNames DEF Uniswap!Amount
<1>11. quote.pool = p /\ quote.amount \in Int
  <2>1. c \in Uniswap!States
    OBVIOUS
  <2>2. Uniswap!Quote(c, p, r.token_in, r.kind, Uniswap!Amount(r)) \in Int
    BY <1>8, <1>10, <2>1, UniswapQuoteIs
  <2>3. quote.pool = p /\ quote.amount = Uniswap!Quote(c, p, r.token_in, r.kind, Uniswap!Amount(r))
    <3>1. quote = [pool |-> p, initialized |-> c.pool[p].initialized, hooked |-> c.pool[p].hooked,
                   gas |-> c.pool[p].gas,
                   amount |-> Uniswap!Quote(c, p, r.token_in, r.kind, Uniswap!Amount(r))]
      BY <1>3, <1>7, UniswapReadPool
    <3>2. QED
      BY <3>1
  <2>4. QED
    BY <2>2, <2>3
<1>12. limit \in Int /\ (r.limit # Uniswap!Absent => limit = r.limit.whole)
  <2>1. CASE r.limit = Uniswap!Absent
    BY <1>5, <1>8, <1>11, <2>1, UniswapLimitIs DEF Uniswap!ResolveLimit
  <2>2. CASE r.limit # Uniswap!Absent
    <3>1. limit = Uniswap!ParsePositive(r.limit)
      BY <1>5, <1>6, <2>2 DEF Uniswap!ResolveLimit, Uniswap!ValidateExplicitLimit
    <3>2. QED
      BY <1>9, <2>2, <3>1, UniswapNumbers, UniswapWhole, UniswapNames
  <2>3. QED
    BY <2>1, <2>2
<1>13. deadline \in Int /\ (r.deadline # Uniswap!NoDeadline => deadline = r.deadline)
  <2>1. PICK now \in Nat : now = seen[Len(seen)]
    BY <1>4 DEF UniswapSaw, Uniswap!States
  <2>2. QED
    BY <1>5, <1>6, <1>8, <2>1 DEF Uniswap!ResolveDeadline, Uniswap!DefaultDeadline
<1>14. r.op = "swap"
  BY <1>3, <1>6 DEF Uniswap!Actions
<1>15. UniswapTerms(r, p, limit, deadline) /\ calls = Uniswap!CompileSwap(r, p, limit, deadline)
  BY <1>6, <1>10, <1>11, <1>12, <1>13 DEF UniswapTerms
<1>16. QED
  BY <1>14, <1>15

UniswapRecord(now, pool, listed, balance, allowance, permit, router) ==
    [now |-> now, pool |-> pool, listed |-> listed, balance |-> balance,
     allowance |-> allowance, permit |-> permit, router |-> router]

LEMMA UniswapShape ==
    ASSUME NEW c \in Uniswap!States
    PROVE  /\ c = UniswapRecord(c.now, c.pool, c.listed, c.balance, c.allowance, c.permit, c.router)
           /\ c.now \in Nat /\ c.router \in Int /\ c.balance \in [{"ETH", "TOK"} -> Int]
           /\ c.allowance \in [{"TOK"} -> Int] /\ c.permit \in [{"TOK"} -> Uniswap!Permits]
BY UniswapNames DEF Uniswap!States, UniswapRecord

\* The state d differs from c in the wallet's money, allowance and permit, and
\* in what the router has.
UniswapBecomes(c, d, balance, allowance, permit, router) ==
    /\ d \in Uniswap!States /\ d.now = c.now /\ d.pool = c.pool /\ d.balance = balance
    /\ d.allowance = allowance /\ d.permit = permit /\ d.router = router

LEMMA UniswapBuilt ==
    ASSUME NEW c \in Uniswap!States, NEW balance \in [{"ETH", "TOK"} -> Int],
           NEW allowance \in [{"TOK"} -> Int], NEW permit \in [{"TOK"} -> Uniswap!Permits],
           NEW router \in Int, NEW d,
           d = UniswapRecord(c.now, c.pool, c.listed, balance, allowance, permit, router)
    PROVE  UniswapBecomes(c, d, balance, allowance, permit, router)
BY UniswapNames DEF Uniswap!States, UniswapRecord, UniswapBecomes

UniswapApproves(c, d, n) ==
    /\ d \in Uniswap!States /\ d.now = c.now /\ d.pool = c.pool /\ d.balance = c.balance
    /\ d.router = c.router /\ d.permit = c.permit /\ d.allowance["TOK"] = n

UniswapPermits(c, d, n, until) ==
    /\ d \in Uniswap!States /\ d.now = c.now /\ d.pool = c.pool /\ d.balance = c.balance
    /\ d.router = c.router /\ d.allowance = c.allowance
    /\ d.permit["TOK"] = [amount |-> n, until |-> until]

LEMMA UniswapApprove ==
    ASSUME NEW c \in Uniswap!States, NEW n \in Int, NEW d \in Uniswap!Call(c, Uniswap!Approve("TOK", n))
    PROVE  UniswapApproves(c, d, n)
<1>1. PICK allowance : allowance = [c.allowance EXCEPT !["TOK"] = n]
  OBVIOUS
<1>2. d = [c EXCEPT !.allowance = allowance]
  BY <1>1 DEF Uniswap!Call, Uniswap!Approve, Uniswap!OnApprove
<1>3. /\ c = UniswapRecord(c.now, c.pool, c.listed, c.balance, c.allowance, c.permit, c.router)
      /\ c.router \in Int /\ c.balance \in [{"ETH", "TOK"} -> Int]
      /\ c.allowance \in [{"TOK"} -> Int] /\ c.permit \in [{"TOK"} -> Uniswap!Permits]
  BY UniswapShape
<1>4. d = UniswapRecord(c.now, c.pool, c.listed, c.balance, allowance, c.permit, c.router)
  BY <1>2, <1>3 DEF UniswapRecord
<1>5. allowance \in [{"TOK"} -> Int] /\ allowance["TOK"] = n
  BY <1>1, <1>3
<1>6. UniswapBecomes(c, d, c.balance, allowance, c.permit, c.router)
  BY <1>3, <1>4, <1>5, UniswapBuilt
<1>7. QED
  BY <1>5, <1>6 DEF UniswapBecomes, UniswapApproves

LEMMA UniswapPermit ==
    ASSUME NEW c \in Uniswap!States, NEW n \in Int, NEW until \in Int,
           NEW d \in Uniswap!Call(c, Uniswap!Permit("TOK", n, until))
    PROVE  UniswapPermits(c, d, n, until)
<1>1. PICK one, permit : one = [amount |-> n, until |-> until] /\ permit = [c.permit EXCEPT !["TOK"] = one]
  OBVIOUS
<1>2. d = [c EXCEPT !.permit = permit]
  BY <1>1 DEF Uniswap!Call, Uniswap!Permit, Uniswap!OnPermit
<1>3. /\ c = UniswapRecord(c.now, c.pool, c.listed, c.balance, c.allowance, c.permit, c.router)
      /\ c.router \in Int /\ c.balance \in [{"ETH", "TOK"} -> Int]
      /\ c.allowance \in [{"TOK"} -> Int] /\ c.permit \in [{"TOK"} -> Uniswap!Permits]
  BY UniswapShape
<1>4. d = UniswapRecord(c.now, c.pool, c.listed, c.balance, c.allowance, permit, c.router)
  BY <1>2, <1>3 DEF UniswapRecord
<1>5. permit \in [{"TOK"} -> Uniswap!Permits] /\ permit["TOK"] = one
  BY <1>1, <1>3 DEF Uniswap!Permits
<1>6. UniswapBecomes(c, d, c.balance, c.allowance, permit, c.router)
  BY <1>3, <1>4, <1>5, UniswapBuilt
<1>7. QED
  BY <1>1, <1>5, <1>6 DEF UniswapBecomes, UniswapPermits

\* What a swap does: it keeps its deadline, its amount and its limit.
UniswapExecutes(c, d, k) ==
    /\ d \in Uniswap!States /\ d.now = c.now /\ d.router = c.router /\ c.now <= k.deadline
    /\ \E in, out \in Int :
         /\ d.balance[k.token_in] = c.balance[k.token_in] - in
         /\ d.balance[k.token_out] = c.balance[k.token_out] + out
         /\ IF k.kind = "exact_in" THEN in = k.amount /\ out >= k.limit
            ELSE out = k.amount /\ in <= k.limit

LEMMA UniswapExecute ==
    ASSUME NEW c \in Uniswap!States, NEW k, k.fn = "execute", k.pool \in Uniswap!PoolNames,
           k.token_in \in {"ETH", "TOK"}, k.token_out \in {"ETH", "TOK"}, k.token_in # k.token_out,
           k.kind \in {"exact_in", "exact_out"}, k.amount \in Int, k.limit \in Int, k.deadline \in Int,
           k.token_in = "TOK" \/ k.refund \/ (k.kind = "exact_in" /\ k.value = k.amount),
           NEW d \in Uniswap!Call(c, k)
    PROVE  UniswapExecutes(c, d, k)
<1>1. PICK n, in, out : /\ n = Uniswap!Quote(c, k.pool, k.token_in, k.kind, k.amount) /\ n \in Int
                        /\ in = IF k.kind = "exact_in" THEN k.amount ELSE n
                        /\ out = IF k.kind = "exact_in" THEN n ELSE k.amount
  BY UniswapQuoteIs
<1>2. in \in Int /\ out \in Int
  BY <1>1
<1>3. /\ ~(c.now > k.deadline) /\ ~(IF k.kind = "exact_in" THEN out < k.limit ELSE in > k.limit)
      /\ \E e \in Uniswap!Pay(c, k, in) : d = [e EXCEPT !.balance[k.token_out] = @ + out]
  BY <1>1 DEF Uniswap!Call, Uniswap!OnExecute
<1>4. PICK e \in Uniswap!Pay(c, k, in) : d = [e EXCEPT !.balance[k.token_out] = @ + out]
  BY <1>3
<1>5. /\ c = UniswapRecord(c.now, c.pool, c.listed, c.balance, c.allowance, c.permit, c.router)
      /\ c.router \in Int /\ c.balance \in [{"ETH", "TOK"} -> Int]
      /\ c.allowance \in [{"TOK"} -> Int] /\ c.permit \in [{"TOK"} -> Uniswap!Permits]
  BY UniswapShape
<1>6. \E balance, allowance, permit :
        /\ UniswapBecomes(c, e, balance, allowance, permit, c.router)
        /\ balance \in [{"ETH", "TOK"} -> Int] /\ balance[k.token_in] = c.balance[k.token_in] - in
        /\ balance[k.token_out] = c.balance[k.token_out]
        /\ allowance \in [{"TOK"} -> Int] /\ permit \in [{"TOK"} -> Uniswap!Permits]
  <2>1. CASE k.token_in = "TOK"
    <3>1. PICK balance, allowance : /\ balance = [c.balance EXCEPT !["TOK"] = @ - in]
                                    /\ allowance = [c.allowance EXCEPT !["TOK"] = @ - in]
      OBVIOUS
    <3>2. PICK one : one = [c.permit["TOK"] EXCEPT !.amount = @ - in]
      OBVIOUS
    <3>3. PICK permit : permit = [c.permit EXCEPT !["TOK"] = one]
      OBVIOUS
    <3>4. e = [c EXCEPT !.balance = balance, !.allowance = allowance, !.permit = permit]
      BY <2>1, <3>1, <3>2, <3>3, UniswapNames DEF Uniswap!Pay, Uniswap!Pull
    <3>5. balance \in [{"ETH", "TOK"} -> Int] /\ allowance \in [{"TOK"} -> Int]
      BY <1>2, <1>5, <3>1, Changed
    <3>6. permit \in [{"TOK"} -> Uniswap!Permits]
      <4>1. PICK old \in Uniswap!Permits : old = c.permit["TOK"]
        BY <1>5
      <4>2. one = [amount |-> old.amount - in, until |-> old.until]
        BY <3>2, <4>1 DEF Uniswap!Permits
      <4>3. one \in Uniswap!Permits
        BY <1>2, <4>1, <4>2 DEF Uniswap!Permits
      <4>4. QED
        BY <1>5, <3>3, <4>3
    <3>7. e = UniswapRecord(c.now, c.pool, c.listed, balance, allowance, permit, c.router)
      BY <1>5, <3>4 DEF UniswapRecord
    <3>8. UniswapBecomes(c, e, balance, allowance, permit, c.router)
      BY <1>5, <3>5, <3>6, <3>7, UniswapBuilt
    <3>9. balance[k.token_in] = c.balance[k.token_in] - in /\ balance[k.token_out] = c.balance[k.token_out]
      BY <1>5, <2>1, <3>1
    <3>10. QED
      BY <3>5, <3>6, <3>8, <3>9
  <2>2. CASE k.token_in = "ETH"
    <3>1. (IF k.refund THEN 0 ELSE k.value - in) = 0
      BY <1>1, <1>2, <2>2
    <3>2. PICK m, router : m = c.balance["ETH"] - in - 0 /\ router = c.router + 0
      OBVIOUS
    <3>3. PICK balance : balance = [c.balance EXCEPT !["ETH"] = m]
      OBVIOUS
    <3>4. e = [c EXCEPT !.balance = balance, !.router = router]
      BY <2>2, <3>1, <3>2, <3>3, UniswapNames DEF Uniswap!Pay
    <3>5. m = c.balance["ETH"] - in /\ m \in Int /\ router = c.router
      BY <1>2, <1>5, <3>2
    <3>6. balance \in [{"ETH", "TOK"} -> Int]
      BY <1>5, <3>3, <3>5
    <3>7. e = UniswapRecord(c.now, c.pool, c.listed, balance, c.allowance, c.permit, c.router)
      BY <1>5, <3>4, <3>5 DEF UniswapRecord
    <3>8. UniswapBecomes(c, e, balance, c.allowance, c.permit, c.router)
      BY <1>5, <3>6, <3>7, UniswapBuilt
    <3>9. balance[k.token_in] = c.balance[k.token_in] - in /\ balance[k.token_out] = c.balance[k.token_out]
      BY <1>5, <2>2, <3>3, <3>5
    <3>10. QED
      BY <1>5, <3>6, <3>8, <3>9
  <2>3. QED
    BY <2>1, <2>2
<1>7. PICK balance, allowance, permit :
        /\ UniswapBecomes(c, e, balance, allowance, permit, c.router)
        /\ balance \in [{"ETH", "TOK"} -> Int] /\ balance[k.token_in] = c.balance[k.token_in] - in
        /\ balance[k.token_out] = c.balance[k.token_out]
        /\ allowance \in [{"TOK"} -> Int] /\ permit \in [{"TOK"} -> Uniswap!Permits]
  BY <1>6
<1>8. PICK after : after = [balance EXCEPT ![k.token_out] = @ + out]
  OBVIOUS
<1>9. /\ after \in [{"ETH", "TOK"} -> Int]
      /\ after[k.token_in] = c.balance[k.token_in] - in
      /\ after[k.token_out] = c.balance[k.token_out] + out
  BY <1>2, <1>5, <1>7, <1>8
<1>10. e \in Uniswap!States /\ e.now = c.now /\ e.balance = balance /\ e.router = c.router
  BY <1>7 DEF UniswapBecomes
<1>11. /\ e = UniswapRecord(e.now, e.pool, e.listed, e.balance, e.allowance, e.permit, e.router)
       /\ e.router \in Int /\ e.allowance \in [{"TOK"} -> Int] /\ e.permit \in [{"TOK"} -> Uniswap!Permits]
  BY <1>10, UniswapShape
<1>12. d = [e EXCEPT !.balance = after]
  BY <1>4, <1>8, <1>10
<1>13. d = UniswapRecord(e.now, e.pool, e.listed, after, e.allowance, e.permit, e.router)
  BY <1>11, <1>12 DEF UniswapRecord
<1>14. UniswapBecomes(e, d, after, e.allowance, e.permit, e.router)
  BY <1>9, <1>10, <1>11, <1>13, UniswapBuilt
<1>15. /\ d \in Uniswap!States /\ d.now = c.now /\ d.router = c.router /\ c.now <= k.deadline
  <2>1. c.now \in Nat
    BY UniswapShape
  <2>2. c.now <= k.deadline
    BY <1>3, <2>1
  <2>3. QED
    BY <1>10, <1>14, <2>2 DEF UniswapBecomes
<1>16. /\ d.balance[k.token_in] = c.balance[k.token_in] - in
       /\ d.balance[k.token_out] = c.balance[k.token_out] + out
  BY <1>9, <1>14 DEF UniswapBecomes
<1>17. IF k.kind = "exact_in" THEN in = k.amount /\ out >= k.limit
       ELSE out = k.amount /\ in <= k.limit
  BY <1>1, <1>2, <1>3
<1>18. QED
  BY <1>2, <1>15, <1>16, <1>17 DEF UniswapExecutes

\* The wallet's side of a swap that took effect, and what is left of its batch.
UniswapSwapped(c, d, r, limit, deadline) ==
    /\ c.now <= deadline /\ d.router = c.router
    /\ \E in, out \in Int :
         /\ d.balance[r.token_in] = c.balance[r.token_in] - in
         /\ d.balance[r.token_out] = c.balance[r.token_out] + out
         /\ IF r.kind = "exact_in" THEN in = r.amount.whole /\ out >= limit
            ELSE out = r.amount.whole /\ in <= limit
    /\ r.token_in # "ETH" => d.allowance["TOK"] = 0 /\ d.permit["TOK"].amount = 0

\* The call k of the router is the one r asked for, and it took effect.
UniswapRouted(c, d, r, k, limit, deadline) ==
    /\ UniswapExecutes(c, d, k)
    /\ k.kind = r.kind /\ k.amount = r.amount.whole /\ k.limit = limit /\ k.deadline = deadline
    /\ k.token_in = r.token_in /\ k.token_out = r.token_out

\* The call of the router in a batch.
LEMMA UniswapRouterCall ==
    ASSUME NEW r \in UniswapRequests, Uniswap!Valid(r), r.op = "swap", NEW p, NEW limit, NEW deadline,
           UniswapTerms(r, p, limit, deadline), NEW value,
           r.token_in = "ETH" => value = Uniswap!MaxInput(r, limit),
           NEW k, k = Uniswap!RouterExecute(r, p, limit, deadline, value,
                                            r.token_in = Uniswap!Native /\ r.kind = "exact_out"),
           NEW c \in Uniswap!States, NEW d \in Uniswap!Call(c, k)
    PROVE  UniswapRouted(c, d, r, k, limit, deadline)
<1>1. /\ k.fn = "execute" /\ k.pool = p /\ k.token_in = r.token_in /\ k.token_out = r.token_out
      /\ k.kind = r.kind /\ k.amount = Uniswap!Amount(r) /\ k.limit = limit /\ k.deadline = deadline
      /\ k.value = value /\ k.refund = (r.token_in = Uniswap!Native /\ r.kind = "exact_out")
  BY DEF Uniswap!RouterExecute
<1>2. /\ r.token_in \in {"ETH", "TOK"} /\ r.token_out \in {"ETH", "TOK"}
      /\ r.kind \in {"exact_in", "exact_out"} /\ r.token_in # r.token_out
  BY UniswapAssumption, UniswapNames DEF Uniswap!IsRequest, Uniswap!Valid
<1>3. p \in Uniswap!PoolNames /\ k.amount \in Int /\ k.limit \in Int /\ k.deadline \in Int
      /\ k.amount = r.amount.whole
  BY <1>1 DEF UniswapTerms
<1>4. k.token_in = "TOK" \/ k.refund \/ (k.kind = "exact_in" /\ k.value = k.amount)
  <2>1. CASE r.token_in = "ETH" /\ r.kind = "exact_out"
    <3>1. k.refund = TRUE
      BY <1>1, <2>1, UniswapNames
    <3>2. QED
      BY <3>1, Zenon
  <2>2. CASE r.token_in = "ETH" /\ r.kind = "exact_in"
    <3>1. k.kind = "exact_in" /\ k.value = k.amount
      BY <1>1, <2>2 DEF Uniswap!MaxInput
    <3>2. QED
      BY <3>1, Zenon
  <2>3. CASE r.token_in = "TOK"
    <3>1. k.token_in = "TOK"
      BY <1>1, <2>3
    <3>2. QED
      BY <3>1, Zenon
  <2>4. QED
    BY <1>2, <2>1, <2>2, <2>3
<1>5. UniswapExecutes(c, d, k)
  BY <1>1, <1>2, <1>3, <1>4, UniswapExecute
<1>6. QED
  BY <1>1, <1>3, <1>5 DEF UniswapRouted

\* The six calls that pay with the token.
LEMMA UniswapBatchCalls ==
    ASSUME NEW r, NEW p, NEW limit, NEW deadline, r.token_in # Uniswap!Native
    PROVE  LET calls == Uniswap!CompileSwap(r, p, limit, deadline)
               max == Uniswap!MaxInput(r, limit)
           IN /\ Len(calls) = 6
              /\ calls[1] = Uniswap!Approve(r.token_in, 0) /\ calls[2] = Uniswap!Approve(r.token_in, max)
              /\ calls[3] = Uniswap!Permit(r.token_in, max, deadline)
              /\ calls[4] = Uniswap!RouterExecute(r, p, limit, deadline, 0,
                                                  r.token_in = Uniswap!Native /\ r.kind = "exact_out")
              /\ calls[5] = Uniswap!Permit(r.token_in, 0, deadline)
              /\ calls[6] = Uniswap!Approve(r.token_in, 0)
BY DEF Uniswap!CompileSwap, Uniswap!PermitBatch

LEMMA UniswapBatchOne ==
    ASSUME NEW r, NEW p, NEW limit, NEW deadline, r.token_in = Uniswap!Native
    PROVE  LET calls == Uniswap!CompileSwap(r, p, limit, deadline)
           IN /\ Len(calls) = 1
              /\ calls[1] = Uniswap!RouterExecute(r, p, limit, deadline, Uniswap!MaxInput(r, limit),
                                                  r.token_in = Uniswap!Native /\ r.kind = "exact_out")
BY DEF Uniswap!CompileSwap

LEMMA UniswapKeeps ==
    ASSUME NEW r \in UniswapRequests, Uniswap!Valid(r), r.op = "swap", NEW p, NEW limit, NEW deadline,
           UniswapTerms(r, p, limit, deadline), NEW calls,
           calls = Uniswap!CompileSwap(r, p, limit, deadline)
    PROVE  /\ Len(calls) \in Nat
           /\ \A i \in 1..Len(calls), c \in Uniswap!States : Uniswap!Call(c, calls[i]) \subseteq Uniswap!States
<1>1. r.token_in \in {"ETH", "TOK"} /\ Uniswap!MaxInput(r, limit) \in Int /\ deadline \in Int
  BY UniswapAssumption, UniswapNames DEF Uniswap!IsRequest, UniswapTerms, Uniswap!MaxInput
<1>2. CASE r.token_in = "ETH"
  <2>1. PICK k : k = Uniswap!RouterExecute(r, p, limit, deadline, Uniswap!MaxInput(r, limit),
                                           r.token_in = Uniswap!Native /\ r.kind = "exact_out")
    OBVIOUS
  <2>2. Len(calls) = 1 /\ calls[1] = k
    BY <1>2, <2>1, UniswapBatchOne, UniswapNames
  <2>3. ASSUME NEW c \in Uniswap!States, NEW d \in Uniswap!Call(c, k)
        PROVE  d \in Uniswap!States
    <3>1. UniswapRouted(c, d, r, k, limit, deadline)
      BY <2>1, <2>3, UniswapRouterCall
    <3>2. QED
      BY <3>1 DEF UniswapRouted, UniswapExecutes
  <2>4. QED
    BY <2>2, <2>3
<1>3. CASE r.token_in = "TOK"
  <2>1. PICK k : k = Uniswap!RouterExecute(r, p, limit, deadline, 0,
                                           r.token_in = Uniswap!Native /\ r.kind = "exact_out")
    OBVIOUS
  <2>2. PICK max : max = Uniswap!MaxInput(r, limit) /\ max \in Int
    BY <1>1
  <2>3. /\ Len(calls) = 6
        /\ calls[1] = Uniswap!Approve("TOK", 0) /\ calls[2] = Uniswap!Approve("TOK", max)
        /\ calls[3] = Uniswap!Permit("TOK", max, deadline) /\ calls[4] = k
        /\ calls[5] = Uniswap!Permit("TOK", 0, deadline) /\ calls[6] = Uniswap!Approve("TOK", 0)
    BY <1>3, <2>1, <2>2, UniswapBatchCalls, UniswapNames
  <2>4. ASSUME NEW c \in Uniswap!States, NEW d \in Uniswap!Call(c, k)
        PROVE  d \in Uniswap!States
    <3>1. UniswapRouted(c, d, r, k, limit, deadline)
      BY <1>3, <2>1, <2>4, UniswapRouterCall
    <3>2. QED
      BY <3>1 DEF UniswapRouted, UniswapExecutes
  <2>5. ASSUME NEW c \in Uniswap!States, NEW n \in Int, NEW d \in Uniswap!Call(c, Uniswap!Approve("TOK", n))
        PROVE  d \in Uniswap!States
    BY <2>5, UniswapApprove DEF UniswapApproves
  <2>6. ASSUME NEW c \in Uniswap!States, NEW n \in Int, NEW d \in Uniswap!Call(c, Uniswap!Permit("TOK", n, deadline))
        PROVE  d \in Uniswap!States
    BY <1>1, <2>6, UniswapPermit DEF UniswapPermits
  <2>7. ASSUME NEW i \in 1..6, NEW c \in Uniswap!States
        PROVE  Uniswap!Call(c, calls[i]) \subseteq Uniswap!States
    <3>1. i \in {1, 2, 3, 4, 5, 6}
      OBVIOUS
    <3>2. 0 \in Int
      OBVIOUS
    <3>3. \/ calls[i] = k
          \/ \E n \in Int : calls[i] \in {Uniswap!Approve("TOK", n), Uniswap!Permit("TOK", n, deadline)}
      BY <2>2, <2>3, <3>1, <3>2
    <3>4. QED
      BY <2>4, <2>5, <2>6, <3>3
  <2>8. QED
    BY <2>3, <2>7
<1>4. QED
  BY <1>1, <1>2, <1>3

LEMMA UniswapBatchDoes ==
    ASSUME NEW r \in UniswapRequests, Uniswap!Valid(r), r.op = "swap", NEW p, NEW limit, NEW deadline,
           UniswapTerms(r, p, limit, deadline), NEW calls,
           calls = Uniswap!CompileSwap(r, p, limit, deadline),
           NEW c \in Uniswap!States, NEW d \in UniswapRuns!Run(c, calls)
    PROVE  UniswapSwapped(c, d, r, limit, deadline)
<1>1. /\ Len(calls) \in Nat
      /\ \A i \in 1..Len(calls), e \in Uniswap!States : Uniswap!Call(e, calls[i]) \subseteq Uniswap!States
  BY UniswapKeeps
<1>2. PICK g : UniswapRuns!Path(g, c, calls, Uniswap!States) /\ g[Len(calls)] = d
  <2>1. PICK S : S = Uniswap!States
    OBVIOUS
  <2>2. \E g : UniswapRuns!Path(g, c, calls, S) /\ g[Len(calls)] = d
    BY <1>1, <2>1, UniswapRuns!RunPath
  <2>3. QED
    BY <2>1, <2>2
<1>3. /\ g \in [0..Len(calls) -> Uniswap!States] /\ g[0] = c
      /\ \A n \in 1..Len(calls) : g[n] \in Uniswap!Call(g[n - 1], calls[n])
  BY <1>2 DEF UniswapRuns!Path
<1>4. /\ r.token_in \in {"ETH", "TOK"} /\ r.token_out \in {"ETH", "TOK"}
      /\ Uniswap!MaxInput(r, limit) \in Int /\ deadline \in Int
  BY UniswapAssumption, UniswapNames DEF Uniswap!IsRequest, UniswapTerms, Uniswap!MaxInput
<1>5. CASE r.token_in = "ETH"
  <2>1. PICK k : k = Uniswap!RouterExecute(r, p, limit, deadline, Uniswap!MaxInput(r, limit),
                                           r.token_in = Uniswap!Native /\ r.kind = "exact_out")
    OBVIOUS
  <2>2. Len(calls) = 1 /\ calls[1] = k
    BY <1>5, <2>1, UniswapBatchOne, UniswapNames
  <2>3. d \in Uniswap!Call(c, k)
    BY <1>2, <1>3, <2>2
  <2>4. UniswapRouted(c, d, r, k, limit, deadline)
    BY <2>1, <2>3, UniswapRouterCall
  <2>5. QED
    BY <1>5, <2>4 DEF UniswapRouted, UniswapExecutes, UniswapSwapped
<1>6. CASE r.token_in = "TOK"
  <2>1. PICK k : k = Uniswap!RouterExecute(r, p, limit, deadline, 0,
                                           r.token_in = Uniswap!Native /\ r.kind = "exact_out")
    OBVIOUS
  <2>2. PICK max : max = Uniswap!MaxInput(r, limit) /\ max \in Int
    BY <1>4
  <2>3. /\ Len(calls) = 6
        /\ calls[1] = Uniswap!Approve("TOK", 0) /\ calls[2] = Uniswap!Approve("TOK", max)
        /\ calls[3] = Uniswap!Permit("TOK", max, deadline) /\ calls[4] = k
        /\ calls[5] = Uniswap!Permit("TOK", 0, deadline) /\ calls[6] = Uniswap!Approve("TOK", 0)
    BY <1>6, <2>1, <2>2, UniswapBatchCalls, UniswapNames
  <2>4. PICK s1, s2, s3, s4, s5 :
          /\ s1 \in Uniswap!States /\ s2 \in Uniswap!States /\ s3 \in Uniswap!States
          /\ s4 \in Uniswap!States /\ s5 \in Uniswap!States
          /\ s1 \in Uniswap!Call(c, calls[1]) /\ s2 \in Uniswap!Call(s1, calls[2])
          /\ s3 \in Uniswap!Call(s2, calls[3]) /\ s4 \in Uniswap!Call(s3, calls[4])
          /\ s5 \in Uniswap!Call(s4, calls[5]) /\ d \in Uniswap!Call(s5, calls[6])
    BY <1>2, <1>3, <2>3
  <2>5. UniswapApproves(c, s1, 0) /\ UniswapApproves(s1, s2, max)
    BY <2>2, <2>3, <2>4, UniswapApprove
  <2>6. UniswapPermits(s2, s3, max, deadline) /\ UniswapPermits(s4, s5, 0, deadline)
    BY <1>4, <2>2, <2>3, <2>4, UniswapPermit
  <2>7. UniswapApproves(s5, d, 0)
    BY <2>3, <2>4, UniswapApprove
  <2>8. UniswapRouted(s3, s4, r, k, limit, deadline)
    BY <1>6, <2>1, <2>3, <2>4, UniswapRouterCall
  <2>9. /\ s3.now = c.now /\ s3.balance = c.balance /\ s3.router = c.router
        /\ d.balance = s4.balance /\ d.router = s4.router
        /\ d.allowance["TOK"] = 0 /\ d.permit["TOK"].amount = 0
    BY <2>5, <2>6, <2>7 DEF UniswapApproves, UniswapPermits
  <2>10. QED
    BY <2>8, <2>9 DEF UniswapRouted, UniswapExecutes, UniswapSwapped
<1>7. QED
  BY <1>4, <1>5, <1>6

\* Every permit of a batch is of the token it pays with.
LEMMA UniswapPermitsToken ==
    ASSUME NEW r \in UniswapRequests, NEW p, NEW limit, NEW deadline, NEW calls,
           calls = Uniswap!CompileSwap(r, p, limit, deadline),
           NEW i \in DOMAIN calls, calls[i].fn = "permit"
    PROVE  calls[i].token = "TOK" /\ r.token_in = "TOK"
<1>1. r.token_in \in {"ETH", "TOK"}
  BY UniswapAssumption, UniswapNames DEF Uniswap!IsRequest
<1>2. PICK call : call.fn = "execute" /\ (calls = <<call>> \/
          (/\ r.token_in = "TOK"
           /\ \E max : calls = <<Uniswap!Approve("TOK", 0), Uniswap!Approve("TOK", max),
                       Uniswap!Permit("TOK", max, deadline), call,
                       Uniswap!Permit("TOK", 0, deadline), Uniswap!Approve("TOK", 0)>>))
  <2>1. CASE r.token_in = "ETH"
    BY <2>1, UniswapNames DEF Uniswap!CompileSwap, Uniswap!RouterExecute
  <2>2. CASE r.token_in = "TOK"
    BY <2>2, UniswapNames DEF Uniswap!CompileSwap, Uniswap!RouterExecute, Uniswap!PermitBatch
  <2>3. QED
    BY <1>1, <2>1, <2>2
<1>3. CASE calls = <<call>>
  BY <1>2, <1>3
<1>4. ASSUME NEW max, calls = <<Uniswap!Approve("TOK", 0), Uniswap!Approve("TOK", max),
                       Uniswap!Permit("TOK", max, deadline), call,
                       Uniswap!Permit("TOK", 0, deadline), Uniswap!Approve("TOK", 0)>>,
             r.token_in = "TOK"
      PROVE  calls[i].token = "TOK" /\ r.token_in = "TOK"
  <2>1. i \in {1, 2, 3, 4, 5, 6}
    BY <1>4
  <2>2. QED
    BY <1>2, <1>4, <2>1 DEF Uniswap!Approve, Uniswap!Permit
<1>5. QED
  BY <1>2, <1>3, <1>4

LEMMA UniswapMoves ==
    ASSUME NEW c \in Uniswap!States, NEW d \in Uniswap!Moves(c)
    PROVE  d \in Uniswap!States
<1>1. PICK P, L : /\ P = [rate : Nat \ {0}, depth : Int, hooked : BOOLEAN, initialized : BOOLEAN, gas : Int]
                  /\ L = [ok : BOOLEAN, pools : SUBSET Uniswap!PoolNames]
  OBVIOUS
<1>2. /\ c = UniswapRecord(c.now, c.pool, c.listed, c.balance, c.allowance, c.permit, c.router)
      /\ c.now \in Nat /\ c.router \in Int /\ c.balance \in [{"ETH", "TOK"} -> Int]
      /\ c.allowance \in [{"TOK"} -> Int] /\ c.permit \in [{"TOK"} -> Uniswap!Permits]
  BY UniswapShape
<1>3. c.pool \in [Uniswap!PoolNames -> P] /\ c.listed \in L
  BY <1>1 DEF Uniswap!States
<1>4. ASSUME NEW now \in Nat, NEW pool \in [Uniswap!PoolNames -> P], NEW listed \in L,
             d = UniswapRecord(now, pool, listed, c.balance, c.allowance, c.permit, c.router)
      PROVE  d \in Uniswap!States
  BY <1>1, <1>2, <1>4, UniswapNames DEF Uniswap!States, UniswapRecord
<1>5. CASE d = [c EXCEPT !.now = @ + 2]
  <2>1. PICK now \in Nat : now = c.now + 2
    BY <1>2
  <2>2. d = UniswapRecord(now, c.pool, c.listed, c.balance, c.allowance, c.permit, c.router)
    BY <1>2, <1>5, <2>1 DEF UniswapRecord
  <2>3. QED
    BY <1>3, <1>4, <2>2
<1>6. ASSUME NEW p \in Uniswap!PoolNames, NEW x \in Nat \ {0}, d = [c EXCEPT !.pool[p].rate = x]
      PROVE  d \in Uniswap!States
  <2>1. PICK q \in P : q = c.pool[p]
    BY <1>3
  <2>2. PICK one : one = [q EXCEPT !.rate = x]
    OBVIOUS
  <2>3. q = [rate |-> q.rate, depth |-> q.depth, hooked |-> q.hooked,
             initialized |-> q.initialized, gas |-> q.gas]
    BY <1>1
  <2>4. one = [rate |-> x, depth |-> q.depth, hooked |-> q.hooked,
               initialized |-> q.initialized, gas |-> q.gas]
    BY <2>2, <2>3
  <2>5. one \in P
    BY <1>1, <2>1, <2>4
  <2>6. PICK pool : pool = [c.pool EXCEPT ![p] = one]
    OBVIOUS
  <2>7. pool \in [Uniswap!PoolNames -> P]
    BY <1>3, <2>5, <2>6
  <2>8. d = [c EXCEPT !.pool = pool]
    BY <1>6, <2>1, <2>2, <2>6
  <2>9. d = UniswapRecord(c.now, pool, c.listed, c.balance, c.allowance, c.permit, c.router)
    BY <1>2, <2>8 DEF UniswapRecord
  <2>10. QED
    BY <1>2, <1>3, <1>4, <2>7, <2>9
<1>7. ASSUME NEW listed \in L, d = [c EXCEPT !.listed = listed]
      PROVE  d \in Uniswap!States
  <2>1. d = UniswapRecord(c.now, c.pool, listed, c.balance, c.allowance, c.permit, c.router)
    BY <1>2, <1>7 DEF UniswapRecord
  <2>2. QED
    BY <1>2, <1>3, <1>4, <2>1
<1>8. "p1" \in Uniswap!PoolNames /\ "p2" \in Uniswap!PoolNames /\ {"p1", "p2", "p3"} \in SUBSET Uniswap!PoolNames
  BY PoolRanks
<1>9. CASE d = [c EXCEPT !.pool["p1"].rate = IF @ = 20 THEN 17 ELSE 20]
  <2>1. PICK x \in Nat \ {0} : x = IF c.pool["p1"].rate = 20 THEN 17 ELSE 20
    OBVIOUS
  <2>2. d = [c EXCEPT !.pool["p1"].rate = x]
    BY <1>9, <2>1
  <2>3. QED
    BY <1>6, <1>8, <2>2
<1>10. CASE d = [c EXCEPT !.pool["p2"].rate = IF @ = 20 THEN 19 ELSE 20]
  <2>1. PICK x \in Nat \ {0} : x = IF c.pool["p2"].rate = 20 THEN 19 ELSE 20
    OBVIOUS
  <2>2. d = [c EXCEPT !.pool["p2"].rate = x]
    BY <1>10, <2>1
  <2>3. QED
    BY <1>6, <1>8, <2>2
<1>11. CASE d = [c EXCEPT !.listed.pools = {"p1", "p2", "p3"}]
  <2>1. PICK l \in L : l = c.listed
    BY <1>3
  <2>2. PICK listed : listed = [l EXCEPT !.pools = {"p1", "p2", "p3"}]
    OBVIOUS
  <2>3. l = [ok |-> l.ok, pools |-> l.pools]
    BY <1>1
  <2>4. listed = [ok |-> l.ok, pools |-> {"p1", "p2", "p3"}]
    BY <2>2, <2>3
  <2>5. listed \in L
    BY <1>1, <1>8, <2>1, <2>4
  <2>6. d = [c EXCEPT !.listed = listed]
    BY <1>11, <2>1, <2>2
  <2>7. QED
    BY <1>7, <2>5, <2>6
<1>12. CASE d = [c EXCEPT !.listed.ok = FALSE]
  <2>1. PICK l \in L : l = c.listed
    BY <1>3
  <2>2. PICK listed : listed = [l EXCEPT !.ok = FALSE]
    OBVIOUS
  <2>3. l = [ok |-> l.ok, pools |-> l.pools]
    BY <1>1
  <2>4. listed = [ok |-> FALSE, pools |-> l.pools]
    BY <2>2, <2>3
  <2>5. listed \in L
    BY <1>1, <2>1, <2>4
  <2>6. d = [c EXCEPT !.listed = listed]
    BY <1>12, <2>1, <2>2
  <2>7. QED
    BY <1>7, <2>5, <2>6
<1>13. QED
  BY <1>5, <1>9, <1>10, <1>11, <1>12 DEF Uniswap!Moves

LEMMA UniswapClosed ==
    UniswapRuns!Closed(Uniswap!States, UniswapView)
<1>1. ASSUME NEW r \in UniswapRequests, Uniswap!Valid(r)
      PROVE  Len(Uniswap!Reads(r)) \in Nat
  BY <1>1, UniswapReadsAre
<1>2. ASSUME NEW c \in Uniswap!States, NEW d \in Uniswap!Moves(c)
      PROVE  d \in Uniswap!States /\ UniswapView[d] = UniswapView[c]
  BY <1>2, UniswapMoves DEF UniswapView
<1>3. ASSUME NEW r \in UniswapRequests, NEW calls, Uniswap!Valid(r),
             UniswapRuns!Compiled(calls, r, Uniswap!States)
      PROVE  /\ Len(calls) \in Nat
             /\ \A i \in 1..Len(calls), c \in Uniswap!States :
                  Uniswap!Call(c, calls[i]) \subseteq Uniswap!States
  <2>1. PICK known : known = Uniswap!States
    OBVIOUS
  <2>2. /\ r.op = "swap"
        /\ \E p, limit, deadline :
             UniswapTerms(r, p, limit, deadline) /\ calls = Uniswap!CompileSwap(r, p, limit, deadline)
    BY <1>3, <2>1, UniswapCompiled
  <2>3. PICK p, limit, deadline :
          UniswapTerms(r, p, limit, deadline) /\ calls = Uniswap!CompileSwap(r, p, limit, deadline)
    BY <2>2
  <2>4. QED
    BY <1>3, <2>2, <2>3, UniswapKeeps
<1>4. QED
  BY <1>1, <1>2, <1>3 DEF UniswapRuns!Closed

UniswapInv == UniswapRuns!HandlerInv(Uniswap!States, UniswapView)

LEMMA UniswapStart ==
    ASSUME Init, protocol = "uniswap"
    PROVE  UniswapInv
<1>1. chain \in Uniswap!States /\ task = [h \in Handlers |-> UniswapRuns!Idle]
  BY UniswapAssumption DEF Init, OnUniswap!Idle, UniswapRuns!Idle
<1>2. QED
  BY <1>1, UniswapRuns!HandlerStart DEF UniswapInv

LEMMA UniswapStep ==
    ASSUME UniswapInv, OnUniswap!Next
    PROVE  UniswapInv'
<1>1. UniswapRuns!Next /\ UniswapRuns!HandlerInv(Uniswap!States, UniswapView)
  BY UniswapSame DEF UniswapInv
<1>2. UniswapRuns!HandlerInv(Uniswap!States, UniswapView)'
  BY <1>1, UniswapClosed, UniswapRuns!HandlerStep
<1>3. QED
  BY <1>2 DEF UniswapInv

LEMMA UniswapStays ==
    ASSUME UniswapInv, UNCHANGED vars
    PROVE  UniswapInv'
BY DEF UniswapInv, vars, UniswapRuns!HandlerInv, UniswapRuns!TaskOK, UniswapRuns!Known

\* What a batch that takes effect was compiled from, and what it does.
LEMMA UniswapTakesEffect ==
    ASSUME UniswapInv, OnUniswap!Next, NEW h \in Handlers, OnUniswap!Succeeded(h)
    PROVE  /\ task[h].req \in UniswapRequests /\ task[h].req.op = "swap"
           /\ \E p, limit, deadline :
                /\ UniswapTerms(task[h].req, p, limit, deadline)
                /\ task[h].result = Uniswap!CompileSwap(task[h].req, p, limit, deadline)
                /\ UniswapSwapped(chain, chain', task[h].req, limit, deadline)
<1>1. UniswapRuns!Next /\ UniswapRuns!Succeeded(h) /\ UniswapRuns!HandlerInv(Uniswap!States, UniswapView)
  BY UniswapSame DEF UniswapInv
<1>2. /\ task[h] # UniswapRuns!Idle /\ UniswapRuns!TaskOK(task[h], Uniswap!States, UniswapView)
      /\ task[h].stage \in UniswapRuns!Compiling
      /\ chain' \in UniswapRuns!Run(chain, task[h].result)
  BY <1>1, UniswapRuns!TakesEffect
<1>3. PICK r, calls, known, c, d :
        /\ r = task[h].req /\ calls = task[h].result /\ c = chain /\ d = chain'
        /\ known = UniswapRuns!Known(task[h], Uniswap!States, UniswapView)
  OBVIOUS
<1>4. r \in UniswapRequests /\ Uniswap!Valid(r) /\ UniswapRuns!Compiled(calls, r, known)
  BY <1>2, <1>3 DEF UniswapRuns!TaskOK, UniswapRuns!Compiling
<1>5. known \in SUBSET Uniswap!States /\ c \in Uniswap!States /\ d \in UniswapRuns!Run(c, calls)
  BY <1>1, <1>2, <1>3 DEF UniswapRuns!Known, UniswapRuns!HandlerInv
<1>6. /\ r.op = "swap"
      /\ \E p, limit, deadline :
           UniswapTerms(r, p, limit, deadline) /\ calls = Uniswap!CompileSwap(r, p, limit, deadline)
  BY <1>4, <1>5, UniswapCompiled
<1>7. PICK p, limit, deadline :
        UniswapTerms(r, p, limit, deadline) /\ calls = Uniswap!CompileSwap(r, p, limit, deadline)
  BY <1>6
<1>8. UniswapSwapped(c, d, r, limit, deadline)
  BY <1>4, <1>5, <1>6, <1>7, UniswapBatchDoes
<1>9. QED
  BY <1>3, <1>4, <1>6, <1>7, <1>8

\* The terms of a swap of r that takes the chain from c to d.
TermsKept(c, d, r) ==
    LET paid == c.balance[r.token_in] - d.balance[r.token_in]
        got == d.balance[r.token_out] - c.balance[r.token_out]
        limit == r.limit.whole
    IN IF r.kind = "exact_in"
       THEN paid = r.amount.whole /\ (r.limit # Uniswap!Absent => got >= limit)
       ELSE got = r.amount.whole /\ (r.limit # Uniswap!Absent => paid <= limit)
InTime(c, r) == r.deadline = Uniswap!NoDeadline \/ c.now <= r.deadline
Closes(d, calls) ==
    \A k \in {calls[i] : i \in DOMAIN calls} :
       k.fn = "permit" => d.allowance[k.token] = 0 /\ d.permit[k.token].amount = 0

LEMMA UniswapEffect ==
    ASSUME UniswapInv, OnUniswap!Next, NEW h \in Handlers, OnUniswap!Succeeded(h)
    PROVE  /\ TermsKept(chain, chain', task[h].req) /\ InTime(chain, task[h].req)
           /\ Closes(chain', task[h].result) /\ chain'.router = chain.router
<1>1. PICK r, calls, c, d :
        /\ r = task[h].req /\ calls = task[h].result /\ c = chain /\ d = chain'
        /\ r \in UniswapRequests
        /\ \E p, limit, deadline :
             /\ UniswapTerms(r, p, limit, deadline)
             /\ calls = Uniswap!CompileSwap(r, p, limit, deadline)
             /\ UniswapSwapped(c, d, r, limit, deadline)
  BY UniswapTakesEffect
<1>2. PICK p, limit, deadline :
        /\ UniswapTerms(r, p, limit, deadline)
        /\ calls = Uniswap!CompileSwap(r, p, limit, deadline)
        /\ UniswapSwapped(c, d, r, limit, deadline)
  BY <1>1
<1>3. PICK in, out \in Int :
        /\ d.balance[r.token_in] = c.balance[r.token_in] - in
        /\ d.balance[r.token_out] = c.balance[r.token_out] + out
        /\ IF r.kind = "exact_in" THEN in = r.amount.whole /\ out >= limit
           ELSE out = r.amount.whole /\ in <= limit
  BY <1>2 DEF UniswapSwapped
<1>4. TermsKept(c, d, r)
  <2>1. /\ r.token_in \in {"ETH", "TOK"} /\ r.token_out \in {"ETH", "TOK"}
        /\ c \in Uniswap!States
    BY <1>1, UniswapAssumption, UniswapNames
       DEF Uniswap!IsRequest, UniswapInv, UniswapRuns!HandlerInv
  <2>2. c.balance[r.token_in] \in Int /\ c.balance[r.token_out] \in Int
    BY <2>1, UniswapShape
  <2>3. /\ c.balance[r.token_in] - d.balance[r.token_in] = in
        /\ d.balance[r.token_out] - c.balance[r.token_out] = out
    BY <1>3, <2>2
  <2>4. r.limit # Uniswap!Absent => r.limit.whole = limit
    BY <1>2 DEF UniswapTerms
  <2>5. QED
    BY <1>3, <2>3, <2>4 DEF TermsKept
<1>5. InTime(c, r) /\ d.router = c.router
  BY <1>2 DEF InTime, UniswapTerms, UniswapSwapped
<1>6. Closes(d, calls)
  <2>1. ASSUME NEW i \in DOMAIN calls, calls[i].fn = "permit"
        PROVE  d.allowance[calls[i].token] = 0 /\ d.permit[calls[i].token].amount = 0
    <3>1. calls[i].token = "TOK" /\ r.token_in = "TOK"
      BY <1>1, <1>2, <2>1, UniswapPermitsToken
    <3>2. QED
      BY <1>2, <3>1 DEF UniswapSwapped
  <2>2. QED
    BY <2>1 DEF Closes
<1>7. QED
  BY <1>1, <1>4, <1>5, <1>6

\* The choice a handler whose reading is not overtaken answers with.
BestAnswer(best, quotes, kind, gas) ==
    /\ [pool |-> best.pool, amount |-> best.quoted] \in quotes
    /\ \A q \in quotes : IF kind = "exact_in" THEN q.amount <= best.quoted ELSE q.amount >= best.quoted
    /\ \A q \in {x \in quotes : x.amount = best.quoted} : q.pool # best.pool =>
         \/ gas[q.pool] > gas[best.pool]
         \/ gas[q.pool] = gas[best.pool] /\ Uniswap!Rank(q.pool) > Uniswap!Rank(best.pool)

LEMMA UniswapAnswers ==
    ASSUME NEW c \in Uniswap!States, NEW r \in UniswapRequests, Uniswap!Valid(r), r.op = "quote", NamesNoPool(r),
           NEW known, known = {c},
           NEW seen, UniswapRuns!IsList(seen), UniswapRuns!WasRead(seen, r, known),
           Len(seen) = Len(Uniswap!Reads(r)), Uniswap!Decide(r, seen).kind # "rejected"
    PROVE  BestAnswer(Uniswap!Decide(r, seen).answer,
                      {q \in UniswapQuotes(c, r) : q.amount \notin {0, Uniswap!Err}}, r.kind,
                      [p \in Uniswap!PoolNames |-> c.pool[p].gas])
<1>1. /\ r.op \in Uniswap!Actions /\ r.order \in Seq(Uniswap!PoolNames) /\ Uniswap!Range(r.order) = Uniswap!PoolNames
      /\ r.kind \in {"exact_in", "exact_out"}
  BY UniswapAssumption DEF Uniswap!IsRequest, Uniswap!Actions
<1>2. UniswapSaw(r, seen, known)
  BY <1>1, UniswapSees
<1>3. PICK quote, limit : /\ quote = Uniswap!SelectedQuote(r, seen)
                          /\ Uniswap!Decide(r, seen).answer = [pool |-> quote.pool, quoted |-> quote.amount, limit |-> limit]
                          /\ quote.amount \notin {0, Uniswap!Err}
  BY <1>1 DEF Uniswap!Decide, Uniswap!DecideSwap
<1>o. PICK N, o, quotes, listed :
        o = r.order /\ N = Len(o) /\ quotes = SubSeq(seen, 2, Len(seen) - 1) /\ listed = c.listed.pools
  OBVIOUS
<1>n. /\ N \in Nat /\ \A i \in 1..N : o[i] \in Uniswap!PoolNames
      /\ \A p \in Uniswap!PoolNames : \E i \in 1..N : o[i] = p
  <2>1. PICK P : P = Uniswap!PoolNames /\ o \in Seq(P) /\ Uniswap!Range(o) = P
    BY <1>1, <1>o
  <2>2. Len(o) \in Nat /\ DOMAIN o = 1..Len(o) /\ \A i \in 1..Len(o) : o[i] \in P
    BY <2>1
  <2>3. \A p \in P : \E i \in DOMAIN o : o[i] = p
    BY <2>1 DEF Uniswap!Range
  <2>4. QED
    BY <1>o, <2>1, <2>2, <2>3
<1>4. /\ o = r.order /\ N = Len(o) /\ N \in Nat /\ \A i \in 1..N : o[i] \in Uniswap!PoolNames
      /\ \A p \in Uniswap!PoolNames : \E i \in 1..N : o[i] = p
      /\ quotes = SubSeq(seen, 2, Len(seen) - 1) /\ listed = c.listed.pools
  BY <1>o, <1>n
<1>5. /\ seen[1] = c.listed /\ DOMAIN quotes = 1..N
      /\ \A i \in 1..N : quotes[i] = Uniswap!Read(c, o[i], r)
  BY <1>2, <1>4 DEF UniswapSaw, NamesNoPool
<1>6. quote = Uniswap!SelectBestPool(r, listed, quotes)
  <2>1. Uniswap!NoQuote.amount = 0
    BY DEF Uniswap!NoQuote
  <2>2. QED
    BY <1>3, <1>4, <1>5, <2>1 DEF Uniswap!SelectedQuote, NamesNoPool
<1>7. PICK amount : amount = [p \in Uniswap!PoolNames |-> Uniswap!Quote(c, p, r.token_in, r.kind, Uniswap!Amount(r))]
  OBVIOUS
<1>8. ASSUME NEW p \in Uniswap!PoolNames
      PROVE  amount[p] \in Int /\ c.pool[p].gas \in Int
  <2>0. PICK n : n = Uniswap!ParsePositive(r.amount) /\ n \in 1..Uniswap!Max128 \cup {Uniswap!Err}
    BY UniswapNumbers
  <2>1. Uniswap!Amount(r) \in Int
    BY <2>0, UniswapNames DEF Uniswap!Amount
  <2>2. Uniswap!Quote(c, p, r.token_in, r.kind, Uniswap!Amount(r)) \in Int
    BY <1>1, <2>1, UniswapQuoteIs
  <2>3. QED
    BY <1>7, <2>2 DEF Uniswap!States
<1>9. ASSUME NEW i \in 1..N
      PROVE  /\ quotes[i].pool = o[i] /\ quotes[i].amount = amount[o[i]] /\ quotes[i].gas = c.pool[o[i]].gas
             /\ quotes[i].initialized = c.pool[o[i]].initialized /\ quotes[i].hooked = c.pool[o[i]].hooked
             /\ UniswapQuoted(quotes[i])
  <2>1. o[i] \in Uniswap!PoolNames
    BY <1>4
  <2>2. PICK q : q = quotes[i] /\
               q = [pool |-> o[i], initialized |-> c.pool[o[i]].initialized, hooked |-> c.pool[o[i]].hooked,
                    gas |-> c.pool[o[i]].gas, amount |-> amount[o[i]]]
    BY <1>1, <1>5, <1>7, <2>1, UniswapReadPool
  <2>3. QED
    BY <1>8, <2>1, <2>2 DEF UniswapQuoted
<1>10. UniswapChosen(quote, r, listed, quotes, N)
  <2>1. \A i \in 1..N : UniswapQuoted(quotes[i])
    BY <1>9
  <2>2. UniswapChosen(Uniswap!SelectBestPool(r, listed, quotes), r, listed, quotes, N)
    BY <1>4, <1>5, <2>1, UniswapChoice
  <2>3. QED
    BY <1>6, <2>2
<1>11. PICK Q : Q = {q \in UniswapQuotes(c, r) : q.amount \notin {0, Uniswap!Err}}
  OBVIOUS
<1>12. ASSUME NEW q \in Q
       PROVE  \E i \in 1..N : /\ q = [pool |-> o[i], amount |-> amount[o[i]]]
                              /\ Uniswap!Usable(r, listed, quotes[i])
  <2>1. PICK p \in Uniswap!PoolNames : /\ p \in listed
                                       /\ r.include_hooked \/ ~c.pool[p].hooked
                                       /\ q = [pool |-> p, amount |-> amount[p]]
    <3>1. q \in UniswapQuotes(c, r)
      BY <1>11
    <3>2. listed \subseteq Uniswap!PoolNames
      BY <1>4 DEF Uniswap!States
    <3>3. QED
      BY <1>4, <1>7, <3>1, <3>2 DEF UniswapQuotes
  <2>2. amount[p] \notin {0, Uniswap!Err}
    BY <1>11, <2>1
  <2>3. PICK i \in 1..N : o[i] = p
    BY <1>4
  <2>4. c.pool[p].initialized
    <3>1. Uniswap!Quote(c, p, r.token_in, r.kind, Uniswap!Amount(r)) # Uniswap!Err
      BY <1>7, <2>2
    <3>2. QED
      BY <3>1 DEF Uniswap!Quote
  <2>5. Uniswap!Usable(r, listed, quotes[i])
    BY <1>9, <2>1, <2>2, <2>3, <2>4 DEF Uniswap!Usable
  <2>6. QED
    BY <2>1, <2>3, <2>5
<1>13. PICK j \in 1..N : quote = quotes[j] /\ Uniswap!Usable(r, listed, quotes[j])
  <2>1. Uniswap!NoQuote.amount = 0
    BY DEF Uniswap!NoQuote
  <2>2. QED
    BY <1>3, <1>10, <2>1 DEF UniswapChosen
<1>14. quote.pool = o[j] /\ quote.amount = amount[o[j]] /\ quote.gas = c.pool[o[j]].gas
  BY <1>9, <1>13
<1>15. [pool |-> quote.pool, amount |-> quote.amount] \in Q
  <2>1. /\ o[j] \in listed
        /\ r.include_hooked \/ ~c.pool[o[j]].hooked
        /\ amount[o[j]] \notin {0, Uniswap!Err} /\ o[j] \in Uniswap!PoolNames
    BY <1>4, <1>9, <1>13 DEF Uniswap!Usable
  <2>2. [pool |-> o[j], amount |-> amount[o[j]]] \in UniswapQuotes(c, r)
    BY <1>4, <1>7, <2>1 DEF UniswapQuotes
  <2>3. QED
    BY <1>11, <1>14, <2>1, <2>2
<1>16. ASSUME NEW q \in Q
       PROVE  /\ IF r.kind = "exact_in" THEN q.amount <= quote.amount ELSE q.amount >= quote.amount
              /\ q.amount = quote.amount /\ q.pool # quote.pool =>
                   \/ c.pool[q.pool].gas > c.pool[quote.pool].gas
                   \/ /\ c.pool[q.pool].gas = c.pool[quote.pool].gas
                      /\ Uniswap!Rank(q.pool) > Uniswap!Rank(quote.pool)
              /\ q.pool \in Uniswap!PoolNames
  <2>1. PICK i \in 1..N : /\ q = [pool |-> o[i], amount |-> amount[o[i]]]
                          /\ Uniswap!Usable(r, listed, quotes[i])
    BY <1>12
  <2>2. ~UniswapBefore(r.kind, quotes[i], quote)
    <3>1. quote # Uniswap!NoQuote
      <4>1. Uniswap!NoQuote.amount = 0
        BY DEF Uniswap!NoQuote
      <4>2. QED
        BY <1>3, <4>1
    <3>2. QED
      BY <1>10, <2>1, <3>1 DEF UniswapChosen
  <2>3. /\ quotes[i].pool = q.pool /\ quotes[i].amount = q.amount /\ quotes[i].gas = c.pool[q.pool].gas
        /\ q.pool \in Uniswap!PoolNames /\ quote.pool \in Uniswap!PoolNames
    BY <1>4, <1>9, <1>14, <2>1
  <2>4. PICK a, b, x, y, m, n :
          /\ a = q.amount /\ b = quote.amount /\ x = c.pool[q.pool].gas /\ y = c.pool[quote.pool].gas
          /\ m = Uniswap!Rank(q.pool) /\ n = Uniswap!Rank(quote.pool)
    OBVIOUS
  <2>i. a \in Int /\ b \in Int /\ x \in Int /\ y \in Int /\ m \in Int /\ n \in Int
    <3>1. Uniswap!Rank(q.pool) \in 1..3 /\ Uniswap!Rank(quote.pool) \in 1..3
      BY <2>3, PoolRanks
    <3>2. q.amount \in Int /\ quote.amount \in Int
      BY <1>4, <1>8, <1>14, <2>1
    <3>3. c.pool[q.pool].gas \in Int /\ c.pool[quote.pool].gas \in Int
      BY <1>8, <2>3
    <3>4. QED
      BY <2>4, <3>1, <3>2, <3>3
  <2>5. /\ ~(IF r.kind = "exact_in" THEN a > b ELSE a < b)
        /\ ~(a = b /\ x < y)
        /\ ~(a = b /\ x = y /\ m < n)
    <3>1. quote.gas = y
      BY <1>14, <2>4
    <3>2. QED
      BY <2>2, <2>3, <2>4, <3>1 DEF UniswapBefore
  <2>6. q.pool # quote.pool => m # n
    BY <2>3, <2>4, PoolRanks
  <2>7. /\ IF r.kind = "exact_in" THEN a <= b ELSE a >= b
        /\ a = b /\ q.pool # quote.pool => x > y \/ (x = y /\ m > n)
    BY <2>i, <2>5, <2>6
  <2>8. QED
    BY <2>3, <2>4, <2>7
<1>17. PICK gas : gas = [p \in Uniswap!PoolNames |-> c.pool[p].gas]
  OBVIOUS
<1>18. quote.pool \in Uniswap!PoolNames
  BY <1>15, <1>16
<1>b. PICK best : best = Uniswap!Decide(r, seen).answer
  OBVIOUS
<1>19. best.pool = quote.pool /\ best.quoted = quote.amount
  <2>1. best = [pool |-> quote.pool, quoted |-> quote.amount, limit |-> limit]
    BY <1>b, <1>3
  <2>2. QED
    BY <2>1
<1>20. BestAnswer(best, Q, r.kind, gas)
  BY <1>15, <1>16, <1>17, <1>18, <1>19 DEF BestAnswer
<1>21. QED
  BY <1>b, <1>11, <1>17, <1>20

-----------------------------------------------------------------------------
(* Balancer: the same, and what each of its calls does.                     *)

LEMMA BalancerNames ==
    /\ Balancer!Err = -1 /\ Balancer!MaxPermit = 600 /\ Balancer!MaxDeadline = 31
    /\ Balancer!Tokens = {"A", "B"} /\ Balancer!PoolNames = {"p1", "p2", "p3"}
    /\ \A p : Balancer!Rank(p) = Uniswap!Rank(p)
    /\ Balancer!Err = Uniswap!Err /\ Balancer!Absent = Uniswap!Absent
    /\ Balancer!NoDeadline = Uniswap!NoDeadline
<1>1. Balancer!PoolOrder = Uniswap!PoolOrder
  BY DEF Balancer!PoolOrder, Uniswap!PoolOrder
<1>2. Balancer!PoolNames = Uniswap!PoolNames
  BY <1>1 DEF Balancer!PoolNames, Uniswap!PoolNames, Balancer!Range, Uniswap!Range
<1>3. \A p : Balancer!Rank(p) = Uniswap!Rank(p)
  BY <1>1 DEF Balancer!Rank, Uniswap!Rank
<1>4. Balancer!Absent = Uniswap!Absent /\ Balancer!NoDeadline = Uniswap!NoDeadline
  BY DEF Balancer!Absent, Uniswap!Absent, Balancer!NoDeadline, Uniswap!NoDeadline
<1>5. QED
  BY <1>2, <1>3, <1>4, PoolRanks, UniswapNames
     DEF Balancer!Err, Balancer!MaxPermit, Balancer!MaxDeadline, Balancer!Tokens

LEMMA BalancerTotal ==
    ASSUME NEW N \in Nat, NEW s \in [1..N -> Int]
    PROVE  Balancer!Total(s) \in Int
<1> DEFINE step == [i \in 1..N |-> [b \in Int |-> b + s[i]]]
           Rec(i) == i = [t \in SUBSET (DOMAIN s) |->
                            IF t = {} THEN 0 ELSE LET x == Balancer!Max(t) IN i[t \ {x}] + s[x]]
<1>1. \A t : Balancer!Max(t) = BalancerRuns!Largest(t)
  BY DEF Balancer!Max, BalancerRuns!Largest
<1>2. PICK it : BalancerRuns!Folds(it, Int, 0, N, step)
  <2>1. PICK V, base, st : V = Int /\ base = 0 /\ st = step
    OBVIOUS
  <2>2. base \in V /\ st \in [1..N -> [V -> V]]
    BY <2>1
  <2>3. \E it : BalancerRuns!Folds(it, V, base, N, st)
    BY <2>2, BalancerRuns!FoldExists
  <2> HIDE DEF step
  <2>4. QED
    BY <2>1, <2>3
<1>3. ASSUME NEW t \in SUBSET (1..N), t # {}
      PROVE  /\ Balancer!Max(t) \in 1..N /\ t \ {Balancer!Max(t)} \in SUBSET (1..N)
             /\ it[t] = it[t \ {Balancer!Max(t)}] + s[Balancer!Max(t)]
  <2>1. PICK x \in 1..N : x = BalancerRuns!Largest(t) /\ x = Balancer!Max(t)
    BY <1>1, <1>3, BalancerRuns!LargestIn
  <2>2. PICK b \in Int : b = it[t \ {x}]
    <3>1. t \ {x} \in SUBSET (1..N)
      OBVIOUS
    <3>2. QED
      BY <1>2, <3>1 DEF BalancerRuns!Folds
  <2>3. it[t] = step[x][b]
    <3> HIDE DEF step
    <3>1. QED
      BY <1>2, <1>3, <2>1, <2>2 DEF BalancerRuns!Folds
  <2>4. step[x][b] = b + s[x]
    BY <2>1, <2>2
  <2>5. QED
    BY <2>1, <2>2, <2>3, <2>4
<1>4. Rec(it)
  <2>1. \A t \in SUBSET (1..N) :
          it[t] = IF t = {} THEN 0 ELSE LET x == Balancer!Max(t) IN it[t \ {x}] + s[x]
    BY <1>2, <1>3 DEF BalancerRuns!Folds
  <2>2. it = [t \in SUBSET (1..N) |-> it[t]] /\ DOMAIN s = 1..N
    BY <1>2 DEF BalancerRuns!Folds
  <2>3. QED
    BY <2>1, <2>2
<1>5. PICK i : Rec(i) /\ Balancer!Total(s) = i[DOMAIN s]
  BY <1>4 DEF Balancer!Total, Balancer!FoldLeft, Balancer!MapThenFoldSet
<1>6. PICK sum : sum = [n \in 0..N |-> i[1..n]]
  OBVIOUS
<1> DEFINE S == {n \in 0..N : sum[n] \in Int}
<1>7. 0 \in S
  <2>1. 1..0 = {} /\ 1..0 \in SUBSET (1..N) /\ 0 \in 0..N
    OBVIOUS
  <2>2. QED
    BY <1>5, <1>6, <2>1
<1>8. ASSUME NEW n \in 1..N, n - 1 \in S
      PROVE  n \in S
  <2>1. PICK t : t = 1..n
    OBVIOUS
  <2>2. t # {} /\ Balancer!Max(t) = n /\ t \ {n} = 1..n - 1
    <3> HIDE DEF S, step
    <3>1. n \in Nat /\ n > 0
      OBVIOUS
    <3>2. QED
      BY <1>1, <2>1, <3>1, BalancerRuns!LargestOfAll
  <2>3. t \in SUBSET (1..N) /\ n \in 0..N /\ n - 1 \in 0..N
    BY <2>1
  <2>4. sum[n] = i[t] /\ sum[n - 1] = i[t \ {n}]
    BY <1>6, <2>1, <2>2, <2>3
  <2>5. i[t] = i[t \ {n}] + s[n]
    BY <1>5, <2>2, <2>3
  <2>6. sum[n - 1] \in Int
    BY <1>8
  <2>7. QED
    BY <2>3, <2>4, <2>5, <2>6
<1>9. N \in S
  <2> HIDE DEF S
  <2>1. 0..N \subseteq S
    BY <1>7, <1>8, BalancerRuns!Upwards
  <2>2. QED
    BY <2>1
<1>10. QED
  BY <1>5, <1>6, <1>9

\* What makes a pool a candidate, and what the choice keeps of it.
BalancerUsable(r, listed, s) ==
    s.pool \in listed /\ Balancer!OpenForSwap(r, s) /\ s.amount \notin {0, Balancer!Err}
BalancerChoose(s) == [pool |-> s.pool, amount |-> s.amount]

\* The best pool, as the fold finds it: best[n] is the best of the first n.
BalancerBestOf(best, r, listed, states, N) ==
    /\ best[0] = Balancer!NoPool
    /\ \A n \in 1..N :
         best[n] = IF /\ BalancerUsable(r, listed, states[n])
                      /\ Balancer!Replaces(r.kind, states[n], best[n - 1])
                   THEN BalancerChoose(states[n]) ELSE best[n - 1]

LEMMA BalancerFold ==
    ASSUME NEW r, NEW listed, NEW N \in Nat, NEW states, DOMAIN states = 1..N
    PROVE  \E best : /\ BalancerBestOf(best, r, listed, states, N)
                     /\ Balancer!SelectBestPool(r, listed, states) = best[N]
<1> DEFINE U == {Balancer!NoPool} \cup {BalancerChoose(states[i]) : i \in 1..N}
           step == [i \in 1..N |-> [b \in U |->
                      IF BalancerUsable(r, listed, states[i]) /\ Balancer!Replaces(r.kind, states[i], b)
                      THEN BalancerChoose(states[i]) ELSE b]]
           Rec(i) == i = [s \in SUBSET (DOMAIN states) |->
                            IF s = {} THEN Balancer!NoPool
                            ELSE LET x == Balancer!Max(s)
                                 IN IF /\ BalancerUsable(r, listed, states[x])
                                       /\ Balancer!Replaces(r.kind, states[x], i[s \ {x}])
                                    THEN BalancerChoose(states[x]) ELSE i[s \ {x}]]
<1>1. \A s : Balancer!Max(s) = BalancerRuns!Largest(s)
  BY DEF Balancer!Max, BalancerRuns!Largest
<1>2. PICK it : BalancerRuns!Folds(it, U, Balancer!NoPool, N, step)
  <2>1. PICK V, base, st : V = U /\ base = Balancer!NoPool /\ st = step
    OBVIOUS
  <2>2. base \in V
    BY <2>1
  <2>3. st \in [1..N -> [V -> V]]
    BY <2>1
  <2>4. \E it : BalancerRuns!Folds(it, V, base, N, st)
    BY <2>2, <2>3, BalancerRuns!FoldExists
  <2> HIDE DEF U, step
  <2>5. QED
    BY <2>1, <2>4
<1>3. Rec(it)
  <2>1. ASSUME NEW s \in SUBSET (1..N)
        PROVE  it[s] = IF s = {} THEN Balancer!NoPool
                       ELSE LET x == Balancer!Max(s)
                            IN IF /\ BalancerUsable(r, listed, states[x])
                                  /\ Balancer!Replaces(r.kind, states[x], it[s \ {x}])
                               THEN BalancerChoose(states[x]) ELSE it[s \ {x}]
    <3>1. CASE s = {}
      BY <1>2, <3>1 DEF BalancerRuns!Folds
    <3>2. CASE s # {}
      <4>1. PICK x \in 1..N : x = BalancerRuns!Largest(s) /\ x = Balancer!Max(s)
        BY <1>1, <3>2, BalancerRuns!LargestIn
      <4>2. PICK b \in U : b = it[s \ {x}]
        <5>1. s \ {x} \in SUBSET (1..N)
          OBVIOUS
        <5> HIDE DEF U
        <5>2. QED
          BY <1>2, <5>1 DEF BalancerRuns!Folds
      <4>3. it[s] = step[x][b]
        <5> HIDE DEF U, step
        <5>1. QED
          BY <1>2, <3>2, <4>1, <4>2 DEF BalancerRuns!Folds
      <4>4. step[x][b] = IF BalancerUsable(r, listed, states[x]) /\ Balancer!Replaces(r.kind, states[x], b)
                         THEN BalancerChoose(states[x]) ELSE b
        BY <4>1, <4>2
      <4>5. QED
        BY <3>2, <4>1, <4>2, <4>3, <4>4
    <3>3. QED
      BY <3>1, <3>2
  <2>2. it = [s \in SUBSET (1..N) |-> it[s]]
    BY <1>2 DEF BalancerRuns!Folds
  <2>3. QED
    BY <2>1, <2>2
<1>4. PICK i : Rec(i) /\ Balancer!SelectBestPool(r, listed, states) = i[DOMAIN states]
  BY <1>3 DEF Balancer!SelectBestPool, Balancer!FoldLeft, Balancer!MapThenFoldSet, BalancerUsable, BalancerChoose
<1>5. PICK best : best = [n \in 0..N |-> i[1..n]]
  OBVIOUS
<1>6. best[0] = Balancer!NoPool
  <2>1. 1..0 = {} /\ 1..0 \in SUBSET (1..N) /\ 0 \in 0..N
    OBVIOUS
  <2>2. QED
    BY <1>4, <1>5, <2>1
<1>7. ASSUME NEW n \in 1..N
      PROVE  best[n] = IF /\ BalancerUsable(r, listed, states[n])
                          /\ Balancer!Replaces(r.kind, states[n], best[n - 1])
                       THEN BalancerChoose(states[n]) ELSE best[n - 1]
  <2>1. PICK s : s = 1..n
    OBVIOUS
  <2>2. s # {} /\ Balancer!Max(s) = n /\ s \ {n} = 1..n - 1
    BY <1>1, <2>1, BalancerRuns!LargestOfAll
  <2>3. s \in SUBSET (1..N) /\ n \in 0..N /\ n - 1 \in 0..N
    BY <2>1
  <2>4. best[n] = i[s] /\ best[n - 1] = i[s \ {n}]
    BY <1>5, <2>1, <2>2, <2>3
  <2>5. i[s] = IF /\ BalancerUsable(r, listed, states[n])
                  /\ Balancer!Replaces(r.kind, states[n], i[s \ {n}])
               THEN BalancerChoose(states[n]) ELSE i[s \ {n}]
    BY <1>4, <2>2, <2>3
  <2>6. QED
    BY <2>4, <2>5
<1>8. Balancer!SelectBestPool(r, listed, states) = best[N]
  BY <1>4, <1>5
<1>9. QED
  BY <1>6, <1>7, <1>8 DEF BalancerBestOf

\* Two lists one after the other, by position.
LEMMA Joined ==
    ASSUME NEW S, NEW s \in Seq(S), NEW t \in Seq(S)
    PROVE  /\ s \o t \in Seq(S) /\ Len(s) \in Nat /\ Len(t) \in Nat
           /\ Len(s \o t) = Len(s) + Len(t)
           /\ \A i \in 1..Len(s) : (s \o t)[i] = s[i]
           /\ \A i \in 1..Len(t) : (s \o t)[Len(s) + i] = t[i]
<1>1. Len(s) \in Nat /\ Len(t) \in Nat /\ s \o t \in Seq(S) /\ Len(s \o t) = Len(s) + Len(t)
  BY ConcatProperties
<1>2. ASSUME NEW i \in 1..Len(s)
      PROVE  (s \o t)[i] = s[i]
  <2>1. i \in 1..Len(s) + Len(t) /\ i <= Len(s)
    BY <1>1
  <2>2. QED
    BY <2>1, ConcatProperties
<1>3. ASSUME NEW i \in 1..Len(t)
      PROVE  (s \o t)[Len(s) + i] = t[i]
  <2>1. PICK j : j = Len(s) + i
    OBVIOUS
  <2>2. j \in 1..Len(s) + Len(t) /\ ~(j <= Len(s)) /\ j - Len(s) = i
    BY <1>1, <2>1
  <2>3. (s \o t)[j] = t[j - Len(s)]
    BY <2>2, ConcatProperties
  <2>4. QED
    BY <2>1, <2>2, <2>3
<1>4. QED
  BY <1>1, <1>2, <1>3

BalancerView(tokens) == [c \in Balancer!States(tokens) |-> 0]

\* The tokens of the pools, which nothing changes.
BalancerLists == [Balancer!PoolNames -> Seq(Balancer!Tokens)]

LEMMA BalancerNumbers ==
    ASSUME NEW text
    PROVE  /\ Balancer!ParsePositive(text) \in Int
           /\ Balancer!ParsePositive(text) # Balancer!Err =>
                Balancer!ParsePositive(text) > 0 /\ Balancer!ParsePositive(text) = text.whole
<1>1. PICK n : n = Balancer!ParseRaw(text)
  OBVIOUS
<1>2. n = Balancer!Err \/ (n \in 0..Balancer!MaxUint /\ n = text.whole)
  BY <1>1 DEF Balancer!ParseRaw, Balancer!Checked
<1>3. n \in Int /\ (n # Balancer!Err => n >= 0 /\ n = text.whole)
  BY <1>2, BalancerNames
<1>4. QED
  BY <1>1, <1>3, BalancerNames DEF Balancer!ParsePositive

LEMMA BalancerQuoteIs ==
    ASSUME NEW tokens, NEW c \in Balancer!States(tokens), NEW p \in Balancer!PoolNames, NEW r,
           r.kind \in {"exact_in", "exact_out"}
    PROVE  Balancer!SwapQuote(c, p, r) \in Int
<1>1. PICK rate \in Nat \ {0} : rate = c.pool[p].rate
  BY DEF Balancer!States
<1>a. PICK n \in Int : n = Balancer!Amount(r)
  BY BalancerNumbers DEF Balancer!Amount
<1>2. PICK up, down : up = n * rate /\ down = n * 10 /\ up \in Int /\ down \in Int
  OBVIOUS
<1>3. /\ up \div 10 \in Int /\ down \div rate \in Int
      /\ (up + 10 - 1) \div 10 \in Int /\ (down + rate - 1) \div rate \in Int
  BY <1>1, <1>2
<1>4. PICK first : first = (r.token_in = "A") /\ first \in BOOLEAN
  OBVIOUS
<1>5. Balancer!QuoteAt(rate, first, r.kind, n) \in Int
  BY <1>2, <1>3, <1>4 DEF Balancer!QuoteAt, Balancer!DivUp
<1>6. QED
  BY <1>1, <1>a, <1>4, <1>5, BalancerNames DEF Balancer!SwapQuote

\* What a request sees of a pool.
BalancerPool(c, p, r) ==
    [pool |-> p, tokens |-> c.pool[p].tokens, registered |-> c.pool[p].registered,
     initialized |-> c.pool[p].initialized, paused |-> c.pool[p].paused, recovery |-> c.pool[p].recovery,
     amount |-> IF r.op \in Balancer!Swapping THEN Balancer!SwapQuote(c, p, r) ELSE 0]

LEMMA BalancerReadPool ==
    ASSUME NEW c, NEW p \in Balancer!PoolNames, NEW r
    PROVE  Balancer!Read(c, p, r) = BalancerPool(c, p, r)
BY BalancerNames DEF Balancer!Read, BalancerPool

LEMMA BalancerReadOther ==
    ASSUME NEW c, NEW r
    PROVE  /\ Balancer!Read(c, "api", r) = c.api /\ Balancer!Read(c, "registered", r) = c.indexed
           /\ Balancer!Read(c, "clock", r) = c.now
BY DEF Balancer!Read

\* A list of what a request reads, by position.
LEMMA BalancerReadsAre ==
    ASSUME NEW r \in BalancerRequests, Balancer!Valid(r)
    PROVE  /\ Len(Balancer!Reads(r)) \in Nat
           /\ r.op \in Balancer!Swapping /\ NamesNoPool(r) =>
                /\ Len(r.order) \in Nat /\ Len(Balancer!Reads(r)) = Len(r.order) + 3
                /\ Balancer!Reads(r)[1] = "api" /\ Balancer!Reads(r)[2] = "registered"
                /\ \A i \in 1..Len(r.order) : Balancer!Reads(r)[i + 2] = r.order[i]
                /\ Balancer!Reads(r)[Len(r.order) + 3] = "clock"
           /\ r.op \in Balancer!Swapping /\ ~NamesNoPool(r) =>
                /\ Len(Balancer!Reads(r)) = 2 /\ Balancer!Reads(r)[1] = r.pool
                /\ Balancer!Reads(r)[2] = "clock" /\ r.pool \in Balancer!PoolNames
           /\ r.op \in Balancer!Adding => Balancer!Reads(r) = <<r.pool, "add_quote", "clock">>
           /\ r.op \in Balancer!Removing => Balancer!Reads(r) = <<r.pool, "bpt_balance", "remove_quote">>
<1>1. /\ r.op \in Balancer!Operations /\ r.order \in Seq(Balancer!PoolNames)
      /\ NamesNoPool(r) \/ r.pool \in Balancer!PoolNames
  BY BalancerAssumption, Zenon DEF Balancer!IsRequest, NamesNoPool
<1>2. PICK V : V = {"api", "registered", "clock", "balances", "add_quote", "bpt_balance",
                    "remove_quote", r.pool} \cup Balancer!PoolNames
  OBVIOUS
<1>3. PICK a, b, d : a = <<"api", "registered">> /\ b = r.order /\ d = <<"clock">>
  OBVIOUS
<1>4. /\ a \in Seq(V) /\ b \in Seq(V) /\ d \in Seq(V) /\ <<r.pool>> \in Seq(V)
      /\ <<r.pool, "add_quote", "clock">> \in Seq(V) /\ <<r.pool, "bpt_balance", "remove_quote">> \in Seq(V)
      /\ <<r.pool, "balances">> \in Seq(V)
  <2>1. /\ \A s \in V : <<s>> \in Seq(V)
        /\ \A s, t \in V : <<s, t>> \in Seq(V)
        /\ \A s, t, u \in V : <<s, t, u>> \in Seq(V)
    OBVIOUS
  <2>2. PICK P : P = Balancer!PoolNames /\ P \subseteq V /\ b \in Seq(P)
    BY <1>1, <1>2, <1>3
  <2>3. b \in Seq(V)
    BY <2>2
  <2>4. QED
    BY <1>2, <1>3, <2>1, <2>3
<1>5. Len(a) = 2 /\ a[1] = "api" /\ a[2] = "registered" /\ Len(d) = 1 /\ d[1] = "clock"
  BY <1>3
<1>q. a \in Seq(V) /\ b \in Seq(V) /\ d \in Seq(V)
  BY <1>4
<1>f. PICK ab, all : ab = a \o b /\ all = ab \o d
  OBVIOUS
<1>g. /\ ab \in Seq(V) /\ Len(b) \in Nat /\ Len(ab) = Len(b) + 2
      /\ ab[1] = "api" /\ ab[2] = "registered" /\ \A i \in 1..Len(b) : ab[2 + i] = b[i]
  <2>1. /\ ab \in Seq(V) /\ Len(b) \in Nat /\ Len(ab) = Len(a) + Len(b)
        /\ \A i \in 1..Len(a) : ab[i] = a[i]
        /\ \A i \in 1..Len(b) : ab[Len(a) + i] = b[i]
    BY <1>q, <1>f, Joined
  <2>2. 1 \in 1..Len(a) /\ 2 \in 1..Len(a)
    BY <1>5
  <2>3. QED
    BY <1>5, <2>1, <2>2
<1>h. /\ all \in Seq(V) /\ Len(all) = Len(b) + 3
      /\ all[1] = "api" /\ all[2] = "registered"
      /\ \A i \in 1..Len(b) : all[i + 2] = b[i]
      /\ all[Len(b) + 3] = "clock"
  <2>1. /\ all \in Seq(V) /\ Len(all) = Len(ab) + Len(d)
        /\ \A i \in 1..Len(ab) : all[i] = ab[i]
        /\ \A i \in 1..Len(d) : all[Len(ab) + i] = d[i]
    BY <1>q, <1>f, <1>g, Joined
  <2>2. 1 \in 1..Len(ab) /\ 2 \in 1..Len(ab) /\ 1 \in 1..Len(d)
    BY <1>5, <1>g
  <2>3. ASSUME NEW i \in 1..Len(b)
        PROVE  all[i + 2] = b[i]
    <3>1. i + 2 \in 1..Len(ab) /\ i + 2 = 2 + i
      BY <1>g
    <3>2. QED
      BY <1>g, <2>1, <3>1
  <2>4. Len(ab) + 1 = Len(b) + 3 /\ Len(ab) + Len(d) = Len(b) + 3
    BY <1>5, <1>g
  <2>5. QED
    BY <1>5, <1>g, <2>1, <2>2, <2>3, <2>4
<1>6. <<r.pool>> \o d \in Seq(V)
  BY <1>4
<1>9. /\ Len(<<r.pool>> \o d) = 2 /\ (<<r.pool>> \o d)[1] = r.pool /\ (<<r.pool>> \o d)[2] = "clock"
  BY <1>3
<1>10. /\ r.op \in Balancer!Swapping =>
            Balancer!Reads(r) = IF NamesNoPool(r) THEN all ELSE <<r.pool>> \o d
       /\ r.op \in Balancer!Adding => Balancer!Reads(r) = <<r.pool, "add_quote", "clock">>
       /\ r.op \in Balancer!Removing => Balancer!Reads(r) = <<r.pool, "bpt_balance", "remove_quote">>
       /\ r.op = "pools" => Balancer!Reads(r) = ab
       /\ r.op = "pool" => Balancer!Reads(r) = <<r.pool>>
       /\ r.op = "balances" => Balancer!Reads(r) = <<r.pool, "balances">>
  <2>1. r.op \in Balancer!Swapping =>
            Balancer!Reads(r) = IF NamesNoPool(r) THEN all ELSE <<r.pool>> \o d
    <3>1. r.op \in Balancer!Swapping =>
            /\ ~(r.op \in Balancer!Adding) /\ ~(r.op \in Balancer!Removing)
            /\ ~(r.op = "pools") /\ ~(r.op = "pool") /\ ~(r.op = "balances")
      BY DEF Balancer!Swapping, Balancer!Adding, Balancer!Removing
    <3>2. QED
      BY <1>3, <1>f, <3>1, Zenon DEF Balancer!Reads, NamesNoPool
  <2>2. CASE r.op \notin Balancer!Swapping
    BY <1>3, <1>f, <2>2 DEF Balancer!Reads, Balancer!Swapping, Balancer!Adding, Balancer!Removing
  <2>3. CASE r.op \in Balancer!Swapping
    BY <2>1, <2>3 DEF Balancer!Swapping, Balancer!Adding, Balancer!Removing
  <2>4. QED
    BY <2>1, <2>2, <2>3
<1>12. Balancer!Reads(r) \in Seq(V)
  BY <1>1, <1>4, <1>6, <1>g, <1>h, <1>10 DEF Balancer!Operations
<1>13. Len(Balancer!Reads(r)) \in Nat
  BY <1>12
<1>14. CASE r.op \in Balancer!Swapping /\ NamesNoPool(r)
  <2>1. Balancer!Reads(r) = all
    BY <1>10, <1>14
  <2>2. QED
    BY <1>3, <1>g, <1>h, <1>10, <1>13, <1>14, <2>1
<1>15. CASE r.op \in Balancer!Swapping /\ ~NamesNoPool(r)
  <2>1. Balancer!Reads(r) = <<r.pool>> \o d
    BY <1>10, <1>15
  <2>2. QED
    BY <1>1, <1>9, <1>10, <1>13, <1>15, <2>1
<1>16. QED
  BY <1>10, <1>13, <1>14, <1>15

\* a comes before b in the order of the choice.
BalancerBefore(kind, a, b) ==
    \/ IF kind = "exact_in" THEN a.amount > b.amount ELSE a.amount < b.amount
    \/ a.amount = b.amount /\ Uniswap!Rank(a.pool) < Uniswap!Rank(b.pool)

BalancerQuoted(q) == q.amount \in Int /\ q.pool \in Balancer!PoolNames

LEMMA BalancerOrder ==
    ASSUME NEW kind, NEW a, NEW b, NEW d, BalancerQuoted(a), BalancerQuoted(b), BalancerQuoted(d)
    PROVE  /\ ~BalancerBefore(kind, a, a)
           /\ ~BalancerBefore(kind, a, b) /\ BalancerBefore(kind, d, b) => ~BalancerBefore(kind, a, d)
<1>1. PICK x, y, z : x = Uniswap!Rank(a.pool) /\ y = Uniswap!Rank(b.pool) /\ z = Uniswap!Rank(d.pool)
  OBVIOUS
<1>2. x \in Int /\ y \in Int /\ z \in Int
  BY <1>1, PoolRanks, BalancerNames DEF BalancerQuoted
<1>3. QED
  BY <1>1, <1>2 DEF BalancerBefore, BalancerQuoted

LEMMA BalancerKept ==
    ASSUME NEW q
    PROVE  /\ BalancerQuoted(BalancerChoose(q)) <=> BalancerQuoted(q)
           /\ \A kind, x : BalancerBefore(kind, x, BalancerChoose(q)) <=> BalancerBefore(kind, x, q)
<1>1. BalancerChoose(q).pool = q.pool /\ BalancerChoose(q).amount = q.amount
  BY DEF BalancerChoose
<1>2. QED
  BY <1>1 DEF BalancerQuoted, BalancerBefore

\* The pool that is chosen is one of those that can be, and none comes before it.
BalancerChosen(best, r, listed, states, N) ==
    \/ /\ best = Balancer!NoPool
       /\ \A i \in 1..N : ~BalancerUsable(r, listed, states[i])
    \/ /\ \E i \in 1..N : best = BalancerChoose(states[i]) /\ BalancerUsable(r, listed, states[i])
       /\ \A i \in 1..N : BalancerUsable(r, listed, states[i]) =>
            ~BalancerBefore(r.kind, states[i], best)

LEMMA BalancerChoice ==
    ASSUME NEW r, NEW listed, NEW N \in Nat, NEW states, DOMAIN states = 1..N,
           \A i \in 1..N : BalancerQuoted(states[i])
    PROVE  BalancerChosen(Balancer!SelectBestPool(r, listed, states), r, listed, states, N)
<1>1. PICK best : /\ BalancerBestOf(best, r, listed, states, N)
                  /\ Balancer!SelectBestPool(r, listed, states) = best[N]
  BY BalancerFold
<1> DEFINE Able(i) == BalancerUsable(r, listed, states[i])
           Done(n) == \/ best[n] = Balancer!NoPool /\ \A i \in 1..n : ~Able(i)
                      \/ /\ \E i \in 1..n : best[n] = BalancerChoose(states[i]) /\ Able(i)
                         /\ \A i \in 1..n : Able(i) => ~BalancerBefore(r.kind, states[i], best[n])
           S == {n \in 0..N : Done(n)}
<1>2. 0 \in S
  BY <1>1 DEF BalancerBestOf
<1>3. ASSUME NEW n \in 1..N, n - 1 \in S
      PROVE  n \in S
  <2>1. PICK q, old, new, able : q = states[n] /\ old = best[n - 1] /\ new = best[n] /\ able = Able(n)
    OBVIOUS
  <2>2. new = IF able /\ Balancer!Replaces(r.kind, q, old) THEN BalancerChoose(q) ELSE old
    BY <1>1, <2>1 DEF BalancerBestOf
  <2>3. /\ 1..n = (1..n - 1) \cup {n} /\ BalancerQuoted(q)
        /\ \/ old = Balancer!NoPool /\ \A i \in 1..n - 1 : ~Able(i)
           \/ /\ \E i \in 1..n - 1 : old = BalancerChoose(states[i]) /\ Able(i)
              /\ \A i \in 1..n - 1 : Able(i) => ~BalancerBefore(r.kind, states[i], old)
    BY <1>3, <2>1
  <2> HIDE DEF Able
  <2>4. ASSUME ~able
        PROVE  Done(n)
    <3>1. new = old /\ ~Able(n)
      BY <2>1, <2>2, <2>4
    <3>2. CASE old = Balancer!NoPool /\ \A i \in 1..n - 1 : ~Able(i)
      BY <2>1, <2>3, <3>1, <3>2
    <3>3. ASSUME NEW j \in 1..n - 1, old = BalancerChoose(states[j]), Able(j),
                 \A i \in 1..n - 1 : Able(i) => ~BalancerBefore(r.kind, states[i], old)
          PROVE  Done(n)
      BY <2>1, <2>3, <3>1, <3>3
    <3>4. QED
      BY <2>3, <3>2, <3>3
  <2>5. ASSUME able, old = Balancer!NoPool, \A i \in 1..n - 1 : ~Able(i)
        PROVE  Done(n)
    <3>1. new = BalancerChoose(q)
      BY <2>2, <2>5 DEF Balancer!Replaces
    <3>2. ~BalancerBefore(r.kind, q, new)
      BY <2>3, <3>1, BalancerOrder, BalancerKept
    <3>3. QED
      BY <2>1, <2>3, <2>5, <3>1, <3>2
  <2>6. ASSUME able, NEW j \in 1..n - 1, old = BalancerChoose(states[j]), Able(j),
               \A i \in 1..n - 1 : Able(i) => ~BalancerBefore(r.kind, states[i], old)
        PROVE  Done(n)
    <3>1. BalancerQuoted(old) /\ old # Balancer!NoPool
      <4>1. BalancerQuoted(old)
        BY <2>6, BalancerKept
      <4>2. Balancer!NoPool.pool \notin Balancer!PoolNames
        BY BalancerNames DEF Balancer!NoPool
      <4>3. QED
        BY <4>1, <4>2 DEF BalancerQuoted
    <3>2. Balancer!Replaces(r.kind, q, old) <=> BalancerBefore(r.kind, q, old)
      BY <3>1, BalancerNames DEF Balancer!Replaces, BalancerBefore
    <3>3. CASE BalancerBefore(r.kind, q, old)
      <4>1. new = BalancerChoose(q)
        BY <2>2, <2>6, <3>2, <3>3
      <4>2. ~BalancerBefore(r.kind, q, new)
        BY <2>3, <4>1, BalancerOrder, BalancerKept
      <4>3. ASSUME NEW i \in 1..n - 1, Able(i)
            PROVE  ~BalancerBefore(r.kind, states[i], new)
        <5>1. BalancerQuoted(states[i]) /\ ~BalancerBefore(r.kind, states[i], old)
          BY <2>6, <4>3
        <5>2. QED
          BY <2>3, <3>1, <3>3, <4>1, <5>1, BalancerOrder, BalancerKept
      <4>4. QED
        BY <2>1, <2>3, <2>6, <4>1, <4>2, <4>3
    <3>4. CASE ~BalancerBefore(r.kind, q, old)
      <4>1. new = old
        BY <2>2, <3>2, <3>4
      <4>2. QED
        BY <2>1, <2>3, <2>6, <3>4, <4>1
    <3>5. QED
      BY <3>3, <3>4
  <2>7. Done(n)
    BY <2>1, <2>3, <2>4, <2>5, <2>6
  <2>8. QED
    BY <2>7
<1>4. N \in S
  <2> HIDE DEF S
  <2>1. 0..N \subseteq S
    BY <1>2, <1>3, BalancerRuns!Upwards
  <2>2. QED
    BY <2>1
<1>5. QED
  BY <1>1, <1>4 DEF BalancerChosen

\* What a swap has seen: the pool it names, or all pools, as they were then.
BalancerSaw(r, seen, known) ==
    /\ \E c \in known : seen[Len(seen)] = c.now
    /\ ~NamesNoPool(r) => \E c \in known : seen[1] = BalancerPool(c, r.pool, r)
    /\ NamesNoPool(r) =>
         /\ Len(seen) = Len(r.order) + 3
         /\ \E c \in known : seen[1] = c.api
         /\ \E c \in known : seen[2] = c.indexed
         /\ \A i \in 1..Len(r.order) : \E c \in known :
              SubSeq(seen, 3, Len(seen) - 1)[i] = BalancerPool(c, r.order[i], r)
         /\ DOMAIN SubSeq(seen, 3, Len(seen) - 1) = 1..Len(r.order)

LEMMA BalancerOrderOf ==
    ASSUME NEW r \in BalancerRequests
    PROVE  /\ Len(r.order) \in Nat
           /\ \A i \in 1..Len(r.order) : r.order[i] \in Balancer!PoolNames
           /\ \A p \in Balancer!PoolNames : \E i \in 1..Len(r.order) : r.order[i] = p
<1>1. PICK P, o : P = Balancer!PoolNames /\ o = r.order /\ o \in Seq(P) /\ Balancer!Range(o) = P
  BY BalancerAssumption DEF Balancer!IsRequest
<1>2. Len(o) \in Nat /\ DOMAIN o = 1..Len(o) /\ \A i \in 1..Len(o) : o[i] \in P
  BY <1>1
<1>3. \A p \in P : \E i \in DOMAIN o : o[i] = p
  BY <1>1 DEF Balancer!Range
<1>4. QED
  BY <1>1, <1>2, <1>3

LEMMA BalancerSees ==
    ASSUME NEW r \in BalancerRequests, Balancer!Valid(r), r.op \in Balancer!Swapping,
           NEW known, NEW seen, BalancerRuns!IsList(seen), BalancerRuns!WasRead(seen, r, known),
           Len(seen) = Len(Balancer!Reads(r))
    PROVE  BalancerSaw(r, seen, known)
<1>1. PICK V : seen \in Seq(V)
  BY DEF BalancerRuns!IsList
<1>2. \A i \in 1..Len(seen) : \E c \in known : seen[i] = Balancer!Read(c, Balancer!Reads(r)[i], r)
  BY DEF BalancerRuns!WasRead
<1>3. CASE ~NamesNoPool(r)
  <2>1. Len(seen) = 2 /\ Balancer!Reads(r)[1] = r.pool /\ Balancer!Reads(r)[2] = "clock"
        /\ r.pool \in Balancer!PoolNames
    BY <1>3, BalancerReadsAre
  <2>2. PICK c \in known : seen[1] = Balancer!Read(c, r.pool, r)
    BY <1>2, <2>1
  <2>3. PICK d \in known : seen[2] = Balancer!Read(d, "clock", r)
    BY <1>2, <2>1
  <2>4. QED
    BY <1>3, <2>1, <2>2, <2>3, BalancerReadOther, BalancerReadPool DEF BalancerSaw
<1>4. CASE NamesNoPool(r)
  <2>1. PICK N : N = Len(r.order) /\ N \in Nat /\ Len(seen) = N + 3
    BY <1>4, BalancerReadsAre
  <2>2. /\ Balancer!Reads(r)[1] = "api" /\ Balancer!Reads(r)[2] = "registered"
        /\ Balancer!Reads(r)[N + 3] = "clock"
        /\ \A i \in 1..N : Balancer!Reads(r)[i + 2] = r.order[i]
    BY <1>4, <2>1, BalancerReadsAre
  <2>3. PICK c \in known : seen[1] = Balancer!Read(c, "api", r)
    BY <1>2, <2>1, <2>2
  <2>i. PICK x \in known : seen[2] = Balancer!Read(x, "registered", r)
    BY <1>2, <2>1, <2>2
  <2>4. PICK d \in known : seen[N + 3] = Balancer!Read(d, "clock", r)
    BY <1>2, <2>1, <2>2
  <2>5. PICK states : states = SubSeq(seen, 3, N + 2)
    OBVIOUS
  <2>6. DOMAIN states = 1..N /\ \A i \in 1..N : states[i] = seen[i + 2]
    BY <1>1, <2>1, <2>5, SubSeqProperties
  <2>7. ASSUME NEW i \in 1..N
        PROVE  \E e \in known : states[i] = BalancerPool(e, r.order[i], r)
    <3>1. i + 2 \in 1..Len(seen) /\ Balancer!Reads(r)[i + 2] = r.order[i]
      BY <2>1, <2>2
    <3>2. PICK e \in known : seen[i + 2] = Balancer!Read(e, Balancer!Reads(r)[i + 2], r)
      BY <1>2, <3>1
    <3>3. r.order[i] \in Balancer!PoolNames
      BY <2>1, BalancerOrderOf
    <3>4. QED
      BY <2>6, <3>1, <3>2, <3>3, BalancerReadPool
  <2>8. states = SubSeq(seen, 3, Len(seen) - 1)
    BY <2>1, <2>5
  <2>9. QED
    BY <1>4, <2>1, <2>3, <2>i, <2>4, <2>6, <2>7, <2>8, BalancerReadOther DEF BalancerSaw
<1>5. QED
  BY <1>3, <1>4

\* The pools the two sources list.
BalancerListed(api, indexed) ==
    (IF api.ok THEN api.pools ELSE {}) \cup (IF indexed.ok THEN indexed.pools ELSE {})

LEMMA BalancerSelects ==
    ASSUME NEW r, NEW seen, NEW states, states = SubSeq(seen, 3, Len(seen) - 1)
    PROVE  /\ ~NamesNoPool(r) =>
                Balancer!SelectedPool(r, seen) =
                  IF Balancer!OpenForSwap(r, seen[1])
                  THEN [pool |-> r.pool, amount |-> seen[1].amount] ELSE Balancer!NoPool
           /\ NamesNoPool(r) =>
                Balancer!SelectedPool(r, seen) =
                  Balancer!SelectBestPool(r, Balancer!DiscoverPairPools(r, seen[1], seen[2], states), states)
BY Zenon DEF Balancer!SelectedPool, NamesNoPool

LEMMA BalancerPicked ==
    ASSUME NEW r \in BalancerRequests, Balancer!Valid(r), r.op \in Balancer!Swapping, NEW tokens,
           NEW known \in SUBSET Balancer!States(tokens), NEW seen, BalancerSaw(r, seen, known),
           Balancer!SelectedPool(r, seen).amount # Balancer!Err
    PROVE  \E p \in Balancer!PoolNames, n \in Int :
              Balancer!SelectedPool(r, seen) = [pool |-> p, amount |-> n]
<1>1. /\ r.kind \in {"exact_in", "exact_out"}
      /\ NamesNoPool(r) \/ r.pool \in Balancer!PoolNames
  BY BalancerAssumption, Zenon DEF Balancer!IsRequest, NamesNoPool
<1>2. Balancer!NoPool.amount = Balancer!Err
  BY DEF Balancer!NoPool
<1>3. PICK q, states : /\ q = Balancer!SelectedPool(r, seen) /\ q # Balancer!NoPool
                       /\ states = SubSeq(seen, 3, Len(seen) - 1)
  BY <1>2
<1>q. ASSUME NEW c \in known, NEW p \in Balancer!PoolNames, NEW s, s = BalancerPool(c, p, r)
      PROVE  s.pool = p /\ s.amount \in Int /\ BalancerQuoted(s)
  <2>1. c \in Balancer!States(tokens)
    OBVIOUS
  <2>2. Balancer!SwapQuote(c, p, r) \in Int
    BY <1>1, <2>1, BalancerQuoteIs
  <2>3. s.pool = p /\ s.amount = Balancer!SwapQuote(c, p, r)
    BY <1>q DEF BalancerPool
  <2>4. QED
    BY <2>2, <2>3 DEF BalancerQuoted
<1>4. CASE ~NamesNoPool(r)
  <2>1. PICK c \in known : seen[1] = BalancerPool(c, r.pool, r)
    BY <1>4 DEF BalancerSaw
  <2>2. PICK s, p : s = seen[1] /\ p = r.pool /\ p \in Balancer!PoolNames /\ s = BalancerPool(c, p, r)
    BY <1>1, <1>4, <2>1
  <2>3. q = [pool |-> p, amount |-> s.amount]
    BY <1>3, <1>4, <2>2, BalancerSelects
  <2>4. s.amount \in Int
    BY <1>q, <2>2
  <2>5. QED
    BY <1>3, <2>2, <2>3, <2>4
<1>5. CASE NamesNoPool(r)
  <2>1. PICK N, o : o = r.order /\ N = Len(o) /\ N \in Nat /\ \A i \in 1..N : o[i] \in Balancer!PoolNames
    BY BalancerOrderOf
  <2>2. /\ DOMAIN states = 1..N
        /\ \A i \in 1..N : \E c \in known : states[i] = BalancerPool(c, o[i], r)
    BY <1>3, <1>5, <2>1 DEF BalancerSaw
  <2>3. ASSUME NEW i \in 1..N
        PROVE  BalancerQuoted(states[i])
    <3>1. PICK c \in known : states[i] = BalancerPool(c, o[i], r)
      BY <2>2
    <3>2. o[i] \in Balancer!PoolNames
      BY <2>1
    <3>3. QED
      BY <1>q, <3>1, <3>2
  <2>4. PICK listed : /\ listed = Balancer!DiscoverPairPools(r, seen[1], seen[2], states)
                      /\ q = Balancer!SelectBestPool(r, listed, states)
    BY <1>3, <1>5, BalancerSelects
  <2>5. BalancerChosen(Balancer!SelectBestPool(r, listed, states), r, listed, states, N)
    BY <2>1, <2>2, <2>3, BalancerChoice
  <2>6. PICK i \in 1..N : q = BalancerChoose(states[i])
    BY <1>3, <2>4, <2>5 DEF BalancerChosen
  <2>7. BalancerQuoted(states[i])
    BY <2>3
  <2>8. QED
    BY <1>3, <2>6, <2>7 DEF BalancerChoose, BalancerQuoted
<1>6. QED
  BY <1>4, <1>5

\* The terms of a swap: the request's own, or what follows from the quote.
BalancerTerms(r, p, limit, deadline) ==
    /\ p \in Balancer!PoolNames /\ limit \in Int /\ deadline \in Int
    /\ r.limit # Balancer!Absent => limit = r.limit.whole
    /\ r.deadline # Balancer!NoDeadline => deadline = r.deadline
    /\ Balancer!Amount(r) \in Int /\ Balancer!Amount(r) = r.amount.whole

LEMMA BalancerNumbersStay ==
    /\ \A a : Balancer!Checked(a) \in Int
    /\ \A a, b : Balancer!CheckedMul(a, b) \in Int /\ Balancer!CheckedAdd(a, b) \in Int
    /\ \A a \in Int : Balancer!CheckedDiv(a, Balancer!Bps) \in Int
<1>1. Balancer!Bps = 10 /\ Balancer!Err \in Int
  BY BalancerNames DEF Balancer!Bps
<1>2. \A a : Balancer!Checked(a) \in Int
  BY BalancerNames DEF Balancer!Checked
<1>3. \A a, b : Balancer!CheckedMul(a, b) \in Int /\ Balancer!CheckedAdd(a, b) \in Int
  BY <1>1, <1>2 DEF Balancer!CheckedMul, Balancer!CheckedAdd
<1>4. \A a \in Int : Balancer!CheckedDiv(a, Balancer!Bps) \in Int
  BY <1>1, <1>2 DEF Balancer!CheckedDiv
<1>5. QED
  BY <1>2, <1>3, <1>4

LEMMA BalancerLimitIs ==
    ASSUME NEW kind, NEW quote \in Int, NEW slippage \in Nat
    PROVE  Balancer!LimitFromQuote(kind, quote, slippage) \in Int
<1>1. Balancer!Bps = 10 /\ Balancer!Err \in Int
  BY BalancerNames DEF Balancer!Bps
<1>5. QED
  BY <1>1, BalancerNumbersStay DEF Balancer!LimitFromQuote

LEMMA BalancerDeadline ==
    ASSUME NEW requested \in Int, NEW now \in Nat,
           Balancer!ResolveDeadline(requested, now) # Balancer!Err
    PROVE  /\ Balancer!ResolveDeadline(requested, now) \in Int
           /\ requested # Balancer!NoDeadline => Balancer!ResolveDeadline(requested, now) = requested
BY DEF Balancer!ResolveDeadline, Balancer!DefaultDeadline

LEMMA BalancerSwapIs ==
    ASSUME NEW r \in BalancerRequests, Balancer!Valid(r), r.op \in Balancer!Swapping,
           NEW tokens, NEW known \in SUBSET Balancer!States(tokens), NEW seen,
           BalancerSaw(r, seen, known), Balancer!ResolveSwap(r, seen).kind = "calls"
    PROVE  /\ r.op = "swap"
           /\ \E p, limit, deadline :
                /\ BalancerTerms(r, p, limit, deadline)
                /\ Balancer!ResolveSwap(r, seen).calls = Balancer!CompileSwap(r, p, limit, deadline)
<1>1. PICK best, limit, deadline :
        /\ best = Balancer!SelectedPool(r, seen)
        /\ limit = (IF r.limit = Balancer!Absent
                    THEN Balancer!LimitFromQuote(r.kind, best.amount, r.slippage)
                    ELSE Balancer!ValidateExplicitLimit(r.kind, best.amount, Balancer!ParsePositive(r.limit)))
        /\ deadline = Balancer!ResolveDeadline(r.deadline, seen[Len(seen)])
  OBVIOUS
<1>2. /\ best.amount # Balancer!Err /\ limit # Balancer!Err /\ deadline # Balancer!Err
      /\ r.op # "quote"
      /\ Balancer!ResolveSwap(r, seen).calls = Balancer!CompileSwap(r, best.pool, limit, deadline)
  BY <1>1 DEF Balancer!ResolveSwap, Balancer!Rejected, Balancer!Answered, Balancer!Calls
<1>3. PICK p \in Balancer!PoolNames, n \in Int : best = [pool |-> p, amount |-> n]
  BY <1>1, <1>2, BalancerPicked
<1>4. best.pool = p /\ best.amount = n
  BY <1>3
<1>5. r.slippage \in Nat /\ r.deadline \in Int
  BY BalancerAssumption DEF Balancer!IsRequest
<1>6. /\ Balancer!Amount(r) # Balancer!Err
      /\ r.limit = Balancer!Absent \/ Balancer!ParsePositive(r.limit) # Balancer!Err
  BY DEF Balancer!Valid, Balancer!ValidSwap
<1>7. Balancer!Amount(r) \in Int /\ Balancer!Amount(r) = r.amount.whole
  BY <1>6, BalancerNumbers DEF Balancer!Amount
<1>8. limit \in Int /\ (r.limit # Balancer!Absent => limit = r.limit.whole)
  <2>1. CASE r.limit = Balancer!Absent
    BY <1>1, <1>4, <1>5, <2>1, BalancerLimitIs
  <2>2. CASE r.limit # Balancer!Absent
    <3>1. limit = Balancer!ParsePositive(r.limit)
      BY <1>1, <1>2, <2>2 DEF Balancer!ValidateExplicitLimit
    <3>2. QED
      BY <1>6, <2>2, <3>1, BalancerNumbers
  <2>3. QED
    BY <2>1, <2>2
<1>9. deadline \in Int /\ (r.deadline # Balancer!NoDeadline => deadline = r.deadline)
  <2>1. PICK now \in Nat : now = seen[Len(seen)]
    BY DEF BalancerSaw, Balancer!States
  <2>2. QED
    BY <1>1, <1>2, <1>5, <2>1, BalancerDeadline
<1>10. r.op = "swap"
  BY <1>2 DEF Balancer!Swapping
<1>11. QED
  BY <1>2, <1>4, <1>7, <1>8, <1>9, <1>10 DEF BalancerTerms

\* What adding liquidity is compiled to: an amount for each token of the pool,
\* not all of them zero, and the deadline of the request if it has one.
BalancerAdds(r, tk, amounts, deadline) ==
    /\ r.pool \in Balancer!PoolNames
    /\ tk \in Seq(Balancer!Tokens) /\ amounts \in [1..Len(tk) -> Nat]
    /\ \E i \in 1..Len(tk) : amounts[i] # 0
    /\ deadline \in Int
    /\ r.deadline # Balancer!NoDeadline => deadline = r.deadline

LEMMA BalancerTokensOf ==
    ASSUME NEW tokens \in BalancerLists, NEW c \in Balancer!States(tokens), NEW p \in Balancer!PoolNames
    PROVE  /\ c.pool[p].tokens = tokens[p] /\ tokens[p] \in Seq(Balancer!Tokens)
           /\ Len(tokens[p]) \in Nat /\ DOMAIN tokens[p] = 1..Len(tokens[p])
           /\ \A i \in 1..Len(tokens[p]) : tokens[p][i] \in Balancer!Tokens
<1>1. PICK T, tk : T = Balancer!Tokens /\ tk = tokens[p] /\ tk \in Seq(T) /\ c.pool[p].tokens = tk
  BY DEF BalancerLists, Balancer!States
<1>2. Len(tk) \in Nat /\ DOMAIN tk = 1..Len(tk) /\ \A i \in 1..Len(tk) : tk[i] \in T
  BY <1>1
<1>3. QED
  BY <1>1, <1>2

LEMMA BalancerAmounts ==
    ASSUME NEW T, NEW tk \in Seq(T), NEW E, NEW entries \in Seq(E), Len(entries) # 0,
           \A i \in DOMAIN entries : Balancer!ParsePositive(entries[i].amount) # Balancer!Err,
           Balancer!OrderTokenAmounts(tk, entries) # <<>>
    PROVE  /\ Balancer!OrderTokenAmounts(tk, entries) \in [1..Len(tk) -> Nat]
           /\ \E i \in 1..Len(tk) : Balancer!OrderTokenAmounts(tk, entries)[i] # 0
<1>1. PICK amounts : amounts = Balancer!OrderTokenAmounts(tk, entries)
  OBVIOUS
<1>2. DOMAIN tk = 1..Len(tk) /\ DOMAIN entries = 1..Len(entries) /\ Len(entries) \in Nat
  OBVIOUS
<1>3. /\ \A i \in DOMAIN entries : entries[i].token \in Balancer!Range(tk)
      /\ amounts = [j \in 1..Len(tk) |->
            IF \E i \in DOMAIN entries : entries[i].token = tk[j]
            THEN Balancer!ParsePositive((CHOOSE e \in Balancer!Range(entries) : e.token = tk[j]).amount)
            ELSE 0]
  BY <1>1, <1>2 DEF Balancer!OrderTokenAmounts
<1>4. ASSUME NEW j \in 1..Len(tk), NEW i \in DOMAIN entries, entries[i].token = tk[j]
      PROVE  amounts[j] \in Nat /\ amounts[j] # 0
  <2>1. PICK e : e = (CHOOSE x \in Balancer!Range(entries) : x.token = tk[j])
    OBVIOUS
  <2>2. e \in Balancer!Range(entries)
    BY <1>4, <2>1 DEF Balancer!Range
  <2>3. Balancer!ParsePositive(e.amount) # Balancer!Err
    BY <2>2 DEF Balancer!Range
  <2>4. amounts[j] = Balancer!ParsePositive(e.amount)
    BY <1>3, <1>4, <2>1
  <2>5. PICK n : n = Balancer!ParsePositive(e.amount) /\ n \in Int /\ n > 0
    BY <2>3, BalancerNumbers
  <2>6. QED
    BY <2>4, <2>5
<1>5. \A j \in 1..Len(tk) : amounts[j] \in Nat
  BY <1>3, <1>4
<1>6. amounts \in [1..Len(tk) -> Nat]
  BY <1>3, <1>5
<1>7. \E j \in 1..Len(tk) : amounts[j] # 0
  <2>1. 1 \in DOMAIN entries /\ entries[1].token \in Balancer!Range(tk)
    BY <1>2, <1>3
  <2>2. PICK j \in 1..Len(tk) : entries[1].token = tk[j]
    BY <1>2, <2>1 DEF Balancer!Range
  <2>3. QED
    BY <1>4, <2>1, <2>2
<1>8. QED
  BY <1>1, <1>6, <1>7

LEMMA BalancerAddIs ==
    ASSUME NEW r \in BalancerRequests, Balancer!Valid(r), r.op \in Balancer!Adding,
           NEW tokens \in BalancerLists, NEW known \in SUBSET Balancer!States(tokens),
           NEW seen, BalancerRuns!WasRead(seen, r, known), Len(seen) = Len(Balancer!Reads(r)),
           Balancer!ResolveAddLiquidity(r, seen).kind = "calls"
    PROVE  /\ r.op = "add"
           /\ \E tk, amounts, min, deadline :
                /\ BalancerAdds(r, tk, amounts, deadline) /\ tk = tokens[r.pool]
                /\ Balancer!ResolveAddLiquidity(r, seen).calls =
                     Balancer!CompileAddLiquidity(r, tk, amounts, min, deadline)
<1>1. Balancer!Reads(r) = <<r.pool, "add_quote", "clock">> /\ Len(Balancer!Reads(r)) = 3
  <2>1. Balancer!Reads(r) = <<r.pool, "add_quote", "clock">>
    BY BalancerReadsAre
  <2>2. QED
    BY <2>1
<1>2. /\ \E c \in known : seen[1] = Balancer!Read(c, r.pool, r)
      /\ \E c \in known : seen[3] = Balancer!Read(c, "clock", r)
  <2>1. Balancer!Reads(r)[1] = r.pool /\ Balancer!Reads(r)[3] = "clock"
    BY <1>1
  <2>2. 1 \in 1..Len(seen) /\ 3 \in 1..Len(seen)
    BY <1>1
  <2>3. QED
    BY <2>1, <2>2 DEF BalancerRuns!WasRead
<1>3. r.pool \in Balancer!PoolNames
  <2>1. ~NamesNoPool(r)
    <3>1. ~(r.op \in Balancer!Swapping \cup {"pools"})
      BY DEF Balancer!Adding, Balancer!Swapping
    <3>2. QED
      BY <3>1, Zenon DEF Balancer!Valid, NamesNoPool
  <2>2. QED
    BY <2>1, BalancerAssumption, Zenon DEF Balancer!IsRequest, NamesNoPool
<1>4. PICK c \in known : seen[1] = BalancerPool(c, r.pool, r)
  BY <1>2, <1>3, BalancerReadPool
<1>5. seen[1].tokens = tokens[r.pool] /\ tokens[r.pool] \in Seq(Balancer!Tokens)
  BY <1>3, <1>4, BalancerTokensOf DEF BalancerPool
<1>6. PICK now \in Nat : now = seen[3]
  BY <1>2, BalancerReadOther DEF Balancer!States
<1>7. PICK tk, amounts, quoted, min, deadline :
        /\ tk = tokens[r.pool]
        /\ amounts = Balancer!OrderTokenAmounts(tk, r.amounts)
        /\ quoted = seen[2]
        /\ min = (IF r.bpt = Balancer!Absent THEN Balancer!DownwardSlippage(quoted, r.slippage)
                  ELSE IF Balancer!ParsePositive(r.bpt) > quoted THEN Balancer!Err
                       ELSE Balancer!ParsePositive(r.bpt))
        /\ deadline = Balancer!ResolveDeadline(r.deadline, now)
  OBVIOUS
<1>8. /\ amounts # <<>> /\ deadline # Balancer!Err /\ r.op # "add_quote"
      /\ Balancer!ResolveAddLiquidity(r, seen).calls = Balancer!CompileAddLiquidity(r, tk, amounts, min, deadline)
  BY <1>5, <1>6, <1>7 DEF Balancer!ResolveAddLiquidity, Balancer!Rejected, Balancer!Answered, Balancer!Calls
<1>9. amounts \in [1..Len(tk) -> Nat] /\ \E i \in 1..Len(tk) : amounts[i] # 0
  <2>1. PICK T, E, entries : /\ T = Balancer!Tokens /\ E = Balancer!Range(r.amounts) /\ entries = r.amounts
                             /\ tk \in Seq(T) /\ entries \in Seq(E)
    BY <1>5, <1>7, BalancerAssumption DEF Balancer!IsRequest
  <2>2. /\ Len(entries) # 0
        /\ \A i \in DOMAIN entries : Balancer!ParsePositive(entries[i].amount) # Balancer!Err
    <3>1. Balancer!ValidAdd(r)
      BY DEF Balancer!Valid
    <3>2. Len(entries) \in 1..Balancer!MaxAddTokens /\ Balancer!ValidAmounts(entries)
      BY <2>1, <3>1 DEF Balancer!ValidAdd
    <3>3. QED
      BY <3>2 DEF Balancer!ValidAmounts, Balancer!MaxAddTokens
  <2>3. Balancer!OrderTokenAmounts(tk, entries) # <<>>
    BY <1>7, <1>8, <2>1
  <2>4. QED
    BY <1>7, <2>1, <2>2, <2>3, BalancerAmounts
<1>10. deadline \in Int /\ (r.deadline # Balancer!NoDeadline => deadline = r.deadline)
  <2>1. r.deadline \in Int
    BY BalancerAssumption DEF Balancer!IsRequest
  <2>2. QED
    BY <1>6, <1>7, <1>8, <2>1, BalancerDeadline
<1>11. BalancerAdds(r, tk, amounts, deadline)
  BY <1>3, <1>5, <1>7, <1>9, <1>10 DEF BalancerAdds
<1>12. r.op = "add"
  BY <1>8 DEF Balancer!Adding
<1>13. QED
  BY <1>7, <1>8, <1>11, <1>12

LEMMA BalancerRemoveIs ==
    ASSUME NEW r \in BalancerRequests, Balancer!Valid(r), r.op \in Balancer!Removing,
           NEW seen, Balancer!ResolveRemoveLiquidity(r, seen).kind = "calls"
    PROVE  /\ r.op = "remove" /\ r.pool \in Balancer!PoolNames
           /\ Balancer!ParsePositive(r.bpt) \in Nat \ {0}
           /\ \E mins : Balancer!ResolveRemoveLiquidity(r, seen).calls = Balancer!CompileRemoveLiquidity(r, mins)
<1>1. r.pool \in Balancer!PoolNames
  <2>1. ~NamesNoPool(r)
    <3>1. ~(r.op \in Balancer!Swapping \cup {"pools"})
      BY DEF Balancer!Removing, Balancer!Swapping
    <3>2. QED
      BY <3>1, Zenon DEF Balancer!Valid, NamesNoPool
  <2>2. QED
    BY <2>1, BalancerAssumption, Zenon DEF Balancer!IsRequest, NamesNoPool
<1>2. Balancer!ParsePositive(r.bpt) \in Nat \ {0}
  <2>1. Balancer!ParsePositive(r.bpt) # Balancer!Err
    BY DEF Balancer!Valid, Balancer!ValidRemove
  <2>2. QED
    BY <2>1, BalancerNumbers
<1>3. r.op # "remove_quote" /\
      \E mins : Balancer!ResolveRemoveLiquidity(r, seen).calls = Balancer!CompileRemoveLiquidity(r, mins)
  BY DEF Balancer!ResolveRemoveLiquidity, Balancer!Rejected, Balancer!Answered, Balancer!Calls
<1>4. QED
  BY <1>1, <1>2, <1>3 DEF Balancer!Removing

\* What a batch is compiled from.
BalancerCompiledSwap(calls, r) ==
    /\ r.op = "swap"
    /\ \E p, limit, deadline :
         BalancerTerms(r, p, limit, deadline) /\ calls = Balancer!CompileSwap(r, p, limit, deadline)
BalancerCompiledAdd(calls, r, tokens) ==
    /\ r.op = "add"
    /\ \E tk, amounts, min, deadline :
         /\ BalancerAdds(r, tk, amounts, deadline) /\ tk = tokens[r.pool]
         /\ calls = Balancer!CompileAddLiquidity(r, tk, amounts, min, deadline)
BalancerCompiledRemove(calls, r) ==
    /\ r.op = "remove" /\ r.pool \in Balancer!PoolNames /\ Balancer!ParsePositive(r.bpt) \in Nat \ {0}
    /\ \E mins : calls = Balancer!CompileRemoveLiquidity(r, mins)

LEMMA BalancerCompiled ==
    ASSUME NEW calls, NEW r \in BalancerRequests, Balancer!Valid(r), NEW tokens \in BalancerLists,
           NEW known \in SUBSET Balancer!States(tokens), BalancerRuns!Compiled(calls, r, known)
    PROVE  \/ BalancerCompiledSwap(calls, r)
           \/ BalancerCompiledAdd(calls, r, tokens)
           \/ BalancerCompiledRemove(calls, r)
<1>1. PICK seen : /\ BalancerRuns!Decides(seen, r, known, "calls")
                  /\ calls = Balancer!Decide(r, seen).calls
  BY DEF BalancerRuns!Compiled
<1>2. /\ BalancerRuns!IsList(seen) /\ BalancerRuns!WasRead(seen, r, known)
      /\ Len(seen) = Len(Balancer!Reads(r)) /\ Balancer!Decide(r, seen).kind = "calls"
  BY <1>1 DEF BalancerRuns!Decides
<1>3. r.op \in Balancer!Operations
  BY BalancerAssumption DEF Balancer!IsRequest
<1>4. CASE r.op \in Balancer!Swapping
  <2>1. Balancer!Decide(r, seen) = Balancer!ResolveSwap(r, seen)
    <3>1. /\ ~(r.op \in Balancer!Adding) /\ ~(r.op \in Balancer!Removing) /\ ~(r.op = "pools")
          /\ ~(r.op \in {"pool", "balances"})
      BY <1>4 DEF Balancer!Swapping, Balancer!Adding, Balancer!Removing
    <3>2. QED
      BY <1>4, <3>1, Zenon DEF Balancer!Decide
  <2>2. BalancerSaw(r, seen, known)
    BY <1>2, <1>4, BalancerSees
  <2>3. Balancer!ResolveSwap(r, seen).kind = "calls"
    BY <1>2, <2>1
  <2>4. /\ r.op = "swap"
        /\ \E p, limit, deadline :
             /\ BalancerTerms(r, p, limit, deadline)
             /\ Balancer!ResolveSwap(r, seen).calls = Balancer!CompileSwap(r, p, limit, deadline)
    BY <1>4, <2>2, <2>3, BalancerSwapIs
  <2>5. QED
    BY <1>1, <2>1, <2>4 DEF BalancerCompiledSwap
<1>5. CASE r.op \in Balancer!Adding
  <2>1. Balancer!Decide(r, seen) = Balancer!ResolveAddLiquidity(r, seen)
    <3>1. /\ ~(r.op \in Balancer!Swapping) /\ ~(r.op \in Balancer!Removing) /\ ~(r.op = "pools")
          /\ ~(r.op \in {"pool", "balances"})
      BY <1>5 DEF Balancer!Swapping, Balancer!Adding, Balancer!Removing
    <3>2. QED
      BY <1>5, <3>1, Zenon DEF Balancer!Decide
  <2>2. QED
    BY <1>1, <1>2, <1>5, <2>1, BalancerAddIs DEF BalancerCompiledAdd
<1>6. CASE r.op \in Balancer!Removing
  <2>1. Balancer!Decide(r, seen) = Balancer!ResolveRemoveLiquidity(r, seen)
    BY <1>6 DEF Balancer!Decide, Balancer!Swapping, Balancer!Adding, Balancer!Removing
  <2>2. QED
    BY <1>1, <1>2, <1>6, <2>1, BalancerRemoveIs DEF BalancerCompiledRemove
<1>7. CASE r.op \in {"pool", "pools", "balances"}
  <2>1. Balancer!Decide(r, seen).kind # "calls"
    BY <1>7 DEF Balancer!Decide, Balancer!Swapping, Balancer!Adding, Balancer!Removing,
                Balancer!PoolsAnswer, Balancer!Rejected, Balancer!Answered
  <2>2. QED
    BY <1>2, <2>1
<1>8. QED
  BY <1>3, <1>4, <1>5, <1>6, <1>7 DEF Balancer!Operations

BalancerCoins == Balancer!Tokens \cup Balancer!PoolNames
BalancerRecord(now, pool, api, indexed, balance, allowance, permit) ==
    [now |-> now, pool |-> pool, api |-> api, indexed |-> indexed,
     balance |-> balance, allowance |-> allowance, permit |-> permit]
BalancerPoolStates ==
    [tokens : Seq(Balancer!Tokens), registered : BOOLEAN, initialized : BOOLEAN, paused : BOOLEAN,
     recovery : BOOLEAN, rate : Nat \ {0}, supply : Int, held : [Balancer!Tokens -> Int]]
BalancerPools(tokens) ==
    {pool \in [Balancer!PoolNames -> BalancerPoolStates] :
       \A p \in Balancer!PoolNames : pool[p].tokens = tokens[p]}
BalancerSources == [ok : BOOLEAN, pools : SUBSET Balancer!PoolNames]

LEMMA BalancerShape ==
    ASSUME NEW tokens, NEW c \in Balancer!States(tokens)
    PROVE  /\ c = BalancerRecord(c.now, c.pool, c.api, c.indexed, c.balance, c.allowance, c.permit)
           /\ c.now \in Nat /\ c.pool \in BalancerPools(tokens)
           /\ c.api \in BalancerSources /\ c.indexed \in BalancerSources
           /\ c.balance \in [BalancerCoins -> Int] /\ c.allowance \in [BalancerCoins -> Int]
           /\ c.permit \in [Balancer!Tokens -> Balancer!Permits]
<1>1. PICK PP, S, K, M : PP = BalancerPools(tokens) /\ S = BalancerSources /\ K = [BalancerCoins -> Int]
                         /\ M = [Balancer!Tokens -> Balancer!Permits]
  OBVIOUS
<1>2. c \in [now : Nat, pool : PP, api : S, indexed : S, balance : K, allowance : K, permit : M]
  BY <1>1, Zenon DEF Balancer!States, BalancerPools, BalancerSources, BalancerCoins, BalancerPoolStates
<1>3. QED
  BY <1>1, <1>2 DEF BalancerRecord

\* The state d differs from c in the pools and in the wallet's money,
\* allowances and permits.
BalancerBecomes(tokens, c, d, pool, balance, allowance, permit) ==
    /\ d \in Balancer!States(tokens) /\ d.now = c.now /\ d.pool = pool /\ d.balance = balance
    /\ d.allowance = allowance /\ d.permit = permit

LEMMA BalancerBuilt ==
    ASSUME NEW tokens, NEW now \in Nat, NEW pool \in BalancerPools(tokens),
           NEW api \in BalancerSources, NEW indexed \in BalancerSources,
           NEW balance \in [BalancerCoins -> Int], NEW allowance \in [BalancerCoins -> Int],
           NEW permit \in [Balancer!Tokens -> Balancer!Permits], NEW d,
           d = BalancerRecord(now, pool, api, indexed, balance, allowance, permit)
    PROVE  d \in Balancer!States(tokens) /\ d.now = now /\ d.pool = pool /\ d.balance = balance
           /\ d.allowance = allowance /\ d.permit = permit
<1>1. PICK PP, S, K, M : PP = BalancerPools(tokens) /\ S = BalancerSources /\ K = [BalancerCoins -> Int]
                         /\ M = [Balancer!Tokens -> Balancer!Permits]
  OBVIOUS
<1>2. /\ d \in [now : Nat, pool : PP, api : S, indexed : S, balance : K, allowance : K, permit : M]
      /\ d.now = now /\ d.pool = pool /\ d.balance = balance /\ d.allowance = allowance /\ d.permit = permit
  BY <1>1 DEF BalancerRecord
<1>3. QED
  BY <1>1, <1>2, Zenon DEF Balancer!States, BalancerPools, BalancerSources, BalancerCoins, BalancerPoolStates

LEMMA BalancerMade ==
    ASSUME NEW tokens, NEW c \in Balancer!States(tokens), NEW pool \in BalancerPools(tokens),
           NEW balance \in [BalancerCoins -> Int], NEW allowance \in [BalancerCoins -> Int],
           NEW permit \in [Balancer!Tokens -> Balancer!Permits], NEW d,
           d = BalancerRecord(c.now, pool, c.api, c.indexed, balance, allowance, permit)
    PROVE  BalancerBecomes(tokens, c, d, pool, balance, allowance, permit)
BY BalancerShape, BalancerBuilt DEF BalancerBecomes

BalancerApproves(tokens, c, d, t, n) ==
    BalancerBecomes(tokens, c, d, c.pool, c.balance, [c.allowance EXCEPT ![t] = n], c.permit)
BalancerPermits(tokens, c, d, t, n, until) ==
    BalancerBecomes(tokens, c, d, c.pool, c.balance, c.allowance,
                    [c.permit EXCEPT ![t] = [amount |-> n, until |-> until]])

LEMMA BalancerApprove ==
    ASSUME NEW tokens, NEW c \in Balancer!States(tokens), NEW t, NEW n \in Int,
           NEW d \in Balancer!Call(c, Balancer!Approve(t, n))
    PROVE  BalancerApproves(tokens, c, d, t, n)
<1>1. PICK allowance : allowance = [c.allowance EXCEPT ![t] = n]
  OBVIOUS
<1>2. d = [c EXCEPT !.allowance = allowance]
  BY <1>1 DEF Balancer!Call, Balancer!Approve, Balancer!OnApprove
<1>3. /\ c = BalancerRecord(c.now, c.pool, c.api, c.indexed, c.balance, c.allowance, c.permit)
      /\ c.pool \in BalancerPools(tokens)
      /\ c.balance \in [BalancerCoins -> Int] /\ c.allowance \in [BalancerCoins -> Int]
      /\ c.permit \in [Balancer!Tokens -> Balancer!Permits]
  BY BalancerShape
<1>4. d = BalancerRecord(c.now, c.pool, c.api, c.indexed, c.balance, allowance, c.permit)
  BY <1>2, <1>3 DEF BalancerRecord
<1>5. allowance \in [BalancerCoins -> Int]
  <2>1. PICK K : K = BalancerCoins /\ c.allowance \in [K -> Int]
    BY <1>3
  <2>2. QED
    BY <1>1, <2>1
<1>6. BalancerBecomes(tokens, c, d, c.pool, c.balance, allowance, c.permit)
  BY <1>3, <1>4, <1>5, BalancerMade
<1>7. QED
  BY <1>1, <1>6 DEF BalancerApproves

LEMMA BalancerPermit ==
    ASSUME NEW tokens, NEW c \in Balancer!States(tokens), NEW t, NEW n \in Int, NEW until \in Int,
           NEW d \in Balancer!Call(c, Balancer!Permit(t, n, until))
    PROVE  BalancerPermits(tokens, c, d, t, n, until)
<1>1. PICK one, permit : one = [amount |-> n, until |-> until] /\ permit = [c.permit EXCEPT ![t] = one]
  OBVIOUS
<1>2. d = [c EXCEPT !.permit = permit]
  BY <1>1 DEF Balancer!Call, Balancer!Permit, Balancer!OnPermit
<1>3. /\ c = BalancerRecord(c.now, c.pool, c.api, c.indexed, c.balance, c.allowance, c.permit)
      /\ c.pool \in BalancerPools(tokens)
      /\ c.balance \in [BalancerCoins -> Int] /\ c.allowance \in [BalancerCoins -> Int]
      /\ c.permit \in [Balancer!Tokens -> Balancer!Permits]
  BY BalancerShape
<1>4. d = BalancerRecord(c.now, c.pool, c.api, c.indexed, c.balance, c.allowance, permit)
  BY <1>2, <1>3 DEF BalancerRecord
<1>5. permit \in [Balancer!Tokens -> Balancer!Permits]
  <2>1. PICK K, M : K = Balancer!Tokens /\ M = Balancer!Permits /\ c.permit \in [K -> M]
    BY <1>3
  <2>2. one \in M
    BY <1>1, <2>1 DEF Balancer!Permits
  <2>3. QED
    BY <1>1, <2>1, <2>2
<1>6. BalancerBecomes(tokens, c, d, c.pool, c.balance, c.allowance, permit)
  BY <1>3, <1>4, <1>5, BalancerMade
<1>7. QED
  BY <1>1, <1>6 DEF BalancerPermits

\* What Permit2 lets the router pull, while the permit lasts.
BalancerPulls(tokens, c, d, t, n) ==
    /\ c.now <= c.permit[t].until
    /\ \E allowance, permit :
         BalancerBecomes(tokens, c, d, c.pool, [c.balance EXCEPT ![t] = @ - n], allowance, permit)
    /\ \A u \in Balancer!Tokens : d.permit[u].until = c.permit[u].until

LEMMA BalancerPull ==
    ASSUME NEW tokens, NEW c \in Balancer!States(tokens), NEW t \in Balancer!Tokens, NEW n \in Int,
           NEW d \in Balancer!Pull(c, t, n)
    PROVE  BalancerPulls(tokens, c, d, t, n)
<1>1. PICK balance, allowance : /\ balance = [c.balance EXCEPT ![t] = @ - n]
                                /\ allowance = [c.allowance EXCEPT ![t] = @ - n]
  OBVIOUS
<1>2. PICK one : one = [c.permit[t] EXCEPT !.amount = @ - n]
  OBVIOUS
<1>3. PICK permit : permit = [c.permit EXCEPT ![t] = one]
  OBVIOUS
<1>4. d = [c EXCEPT !.balance = balance, !.allowance = allowance, !.permit = permit]
      /\ ~(c.now > c.permit[t].until)
  BY <1>1, <1>2, <1>3 DEF Balancer!Pull
<1>5. /\ c = BalancerRecord(c.now, c.pool, c.api, c.indexed, c.balance, c.allowance, c.permit)
      /\ c.pool \in BalancerPools(tokens) /\ c.now \in Nat
      /\ c.balance \in [BalancerCoins -> Int] /\ c.allowance \in [BalancerCoins -> Int]
      /\ c.permit \in [Balancer!Tokens -> Balancer!Permits]
  BY BalancerShape
<1>6. balance \in [BalancerCoins -> Int] /\ allowance \in [BalancerCoins -> Int]
  BY <1>1, <1>5, Changed
<1>7. PICK K, M, old : /\ K = Balancer!Tokens /\ M = Balancer!Permits /\ c.permit \in [K -> M]
                       /\ old = c.permit[t] /\ old \in M
  BY <1>5
<1>8. /\ one = [amount |-> old.amount - n, until |-> old.until]
      /\ old.until \in Int
      /\ one \in M
  BY <1>2, <1>7 DEF Balancer!Permits
<1>9. permit \in [K -> M] /\ \A u \in K : permit[u].until = c.permit[u].until
  BY <1>3, <1>7, <1>8
<1>10. d = BalancerRecord(c.now, c.pool, c.api, c.indexed, balance, allowance, permit)
  BY <1>4, <1>5 DEF BalancerRecord
<1>11. BalancerBecomes(tokens, c, d, c.pool, balance, allowance, permit)
  BY <1>5, <1>6, <1>7, <1>9, <1>10, BalancerMade
<1>12. c.now <= c.permit[t].until
  BY <1>4, <1>5, <1>7, <1>8
<1>13. \A u \in Balancer!Tokens : d.permit[u].until = c.permit[u].until
  BY <1>7, <1>9, <1>11 DEF BalancerBecomes
<1>14. QED
  BY <1>1, <1>11, <1>12, <1>13 DEF BalancerPulls

\* What a swap does: it keeps its deadline, its amount and its limit.
BalancerExecutes(tokens, c, d, k) ==
    /\ d \in Balancer!States(tokens) /\ d.now = c.now /\ c.now <= k.deadline
    /\ \E in, out \in Int :
         /\ d.balance[k.token_in] = c.balance[k.token_in] - in
         /\ d.balance[k.token_out] = c.balance[k.token_out] + out
         /\ IF k.kind = "exact_in" THEN in = k.amount /\ out >= k.limit
            ELSE out = k.amount /\ in <= k.limit

LEMMA BalancerExecute ==
    ASSUME NEW tokens, NEW c \in Balancer!States(tokens), NEW k, k.fn = "swap", k.pool \in Balancer!PoolNames,
           k.token_in \in Balancer!Tokens, k.token_out \in Balancer!Tokens, k.token_in # k.token_out,
           k.kind \in {"exact_in", "exact_out"}, k.amount \in Int, k.limit \in Int, k.deadline \in Int,
           k = [fn |-> k.fn, pool |-> k.pool, token_in |-> k.token_in, token_out |-> k.token_out,
                kind |-> k.kind, amount |-> k.amount, limit |-> k.limit, deadline |-> k.deadline],
           NEW d \in Balancer!Call(c, k)
    PROVE  BalancerExecutes(tokens, c, d, k)
<1>1. PICK m : m = [k EXCEPT !.amount = Balancer!Number(k.amount, <<>>)]
  OBVIOUS
<1>2. m.kind = k.kind
  BY <1>1
<1>3. PICK n : n = Balancer!SwapQuote(c, k.pool, m) /\ n \in Int
  BY <1>2, BalancerQuoteIs
<1>4. PICK in, out \in Int : /\ in = (IF k.kind = "exact_in" THEN k.amount ELSE n)
                             /\ out = (IF k.kind = "exact_in" THEN n ELSE k.amount)
  BY <1>3
<1>5. /\ ~(c.now > k.deadline) /\ ~(IF k.kind = "exact_in" THEN out < k.limit ELSE in > k.limit)
      /\ \E e \in Balancer!Pull(c, k.token_in, in) : d = [e EXCEPT !.balance[k.token_out] = @ + out]
  BY <1>1, <1>3, <1>4 DEF Balancer!Call, Balancer!OnSwap
<1>6. PICK e \in Balancer!Pull(c, k.token_in, in) : d = [e EXCEPT !.balance[k.token_out] = @ + out]
  BY <1>5
<1>7. BalancerPulls(tokens, c, e, k.token_in, in)
  BY BalancerPull
<1>8. PICK balance : /\ balance = [c.balance EXCEPT ![k.token_in] = @ - in]
                     /\ e \in Balancer!States(tokens) /\ e.now = c.now /\ e.balance = balance
  BY <1>7 DEF BalancerPulls, BalancerBecomes
<1>9. /\ c.balance \in [BalancerCoins -> Int] /\ c.now \in Nat
      /\ k.token_in \in BalancerCoins /\ k.token_out \in BalancerCoins
  BY BalancerShape DEF BalancerCoins
<1>10. PICK after : after = [balance EXCEPT ![k.token_out] = @ + out]
  OBVIOUS
<1>11. balance \in [BalancerCoins -> Int]
  BY <1>8, <1>9, Changed
<1>12. after \in [BalancerCoins -> Int]
  BY <1>10, <1>11, Changed
<1>13. /\ after[k.token_in] = c.balance[k.token_in] - in
       /\ after[k.token_out] = c.balance[k.token_out] + out
  BY <1>8, <1>9, <1>10, <1>11
<1>14. /\ e = BalancerRecord(e.now, e.pool, e.api, e.indexed, e.balance, e.allowance, e.permit)
       /\ e.pool \in BalancerPools(tokens) /\ e.allowance \in [BalancerCoins -> Int]
       /\ e.permit \in [Balancer!Tokens -> Balancer!Permits]
  BY <1>8, BalancerShape
<1>15. d = [e EXCEPT !.balance = after]
  BY <1>6, <1>8, <1>10
<1>16. d = BalancerRecord(e.now, e.pool, e.api, e.indexed, after, e.allowance, e.permit)
  BY <1>14, <1>15 DEF BalancerRecord
<1>17. BalancerBecomes(tokens, e, d, e.pool, after, e.allowance, e.permit)
  BY <1>8, <1>12, <1>14, <1>16, BalancerMade
<1>18. /\ d \in Balancer!States(tokens) /\ d.now = c.now
       /\ d.balance[k.token_in] = c.balance[k.token_in] - in
       /\ d.balance[k.token_out] = c.balance[k.token_out] + out
  BY <1>8, <1>13, <1>17 DEF BalancerBecomes
<1>19. c.now <= k.deadline
  BY <1>5, <1>9
<1>20. IF k.kind = "exact_in" THEN in = k.amount /\ out >= k.limit ELSE out = k.amount /\ in <= k.limit
  BY <1>4, <1>5
<1>21. QED
  BY <1>18, <1>19, <1>20 DEF BalancerExecutes

\* The numbers of a pool.
LEMMA BalancerShares ==
    ASSUME NEW p \in BalancerPoolStates, NEW amounts \in [1..Len(p.tokens) -> Int]
    PROVE  /\ \A t : Balancer!Share(p, amounts, t) \in Int
           /\ Balancer!Worth(p, amounts) \in Int
           /\ Balancer!Worth(p, Balancer!HeldBy(p)) \in Int
           /\ \A t \in Balancer!Tokens : p.held[t] \in Int
           /\ p.supply \in Int
<1>1. PICK N, tk, T : /\ tk = p.tokens /\ T = Balancer!Tokens /\ tk \in Seq(T) /\ N = Len(tk)
                      /\ p.held \in [T -> Int] /\ p.supply \in Int /\ p.rate \in Nat
  BY DEF BalancerPoolStates
<1>2. N \in Nat /\ DOMAIN tk = 1..N /\ (\A i \in 1..N : tk[i] \in T) /\ amounts \in [1..N -> Int]
  BY <1>1
<1>3. ASSUME NEW t
      PROVE  Balancer!Share(p, amounts, t) \in Int
  <2>1. PICK s : s = [i \in 1..N |-> IF tk[i] = t THEN amounts[i] ELSE 0]
    OBVIOUS
  <2>2. Balancer!Share(p, amounts, t) = Balancer!Total(s)
    BY <1>1, <1>2, <2>1 DEF Balancer!Share
  <2>3. \A i \in 1..N : s[i] \in Int
    BY <1>2, <2>1
  <2>4. s \in [1..N -> Int]
    BY <2>1, <2>3
  <2>5. QED
    BY <1>2, <2>2, <2>4, BalancerTotal
<1>4. ASSUME NEW a \in [1..N -> Int]
      PROVE  Balancer!Worth(p, a) \in Int
  <2>1. PICK s : s = [i \in 1..N |-> a[i] * (IF tk[i] = "A" THEN p.rate ELSE 10)]
    OBVIOUS
  <2>2. s \in [1..N -> Int]
    <3>1. ASSUME NEW i \in 1..N
          PROVE  a[i] * (IF tk[i] = "A" THEN p.rate ELSE 10) \in Int
      <4>1. PICK x, y : x = a[i] /\ y = (IF tk[i] = "A" THEN p.rate ELSE 10)
        OBVIOUS
      <4>2. x \in Int
        BY <4>1
      <4>3. y \in Int
        BY <1>1, <4>1
      <4>4. QED
        BY <4>1, <4>2, <4>3
    <3>2. QED
      BY <2>1, <3>1
  <2>3. Balancer!Worth(p, a) = Balancer!Total(s)
    BY <1>1, <1>2, <2>1 DEF Balancer!Worth
  <2>4. QED
    BY <1>2, <2>2, <2>3, BalancerTotal
<1>5. Balancer!HeldBy(p) \in [1..N -> Int]
  <2>1. \A i \in 1..N : p.held[tk[i]] \in Int
    BY <1>1, <1>2
  <2>2. Balancer!HeldBy(p) = [i \in 1..N |-> p.held[tk[i]]]
    BY <1>1, <1>2 DEF Balancer!HeldBy
  <2>3. QED
    BY <2>1, <2>2
<1>6. QED
  BY <1>1, <1>2, <1>3, <1>4, <1>5

LEMMA BalancerAddQuoteIs ==
    ASSUME NEW p \in BalancerPoolStates, NEW amounts \in [1..Len(p.tokens) -> Int]
    PROVE  Balancer!AddQuote(p, amounts) \in Int
<1>1. PICK w, v, s \in Int : w = Balancer!Worth(p, amounts) /\ v = Balancer!Worth(p, Balancer!HeldBy(p)) /\ s = p.supply
  BY BalancerShares
<1>2. PICK x \in Int : x = w * s
  OBVIOUS
<1>3. v > 0 => x \div v \in Int
  OBVIOUS
<1>4. QED
  BY <1>1, <1>2, <1>3, BalancerNames DEF Balancer!AddQuote

LEMMA BalancerRemoveQuoteIs ==
    ASSUME NEW p \in BalancerPoolStates, NEW n \in Nat \ {0}, Balancer!RemoveQuote(p, n) # <<>>
    PROVE  Balancer!RemoveQuote(p, n) \in [1..Len(p.tokens) -> Int]
<1>1. PICK N, tk, T : /\ tk = p.tokens /\ T = Balancer!Tokens /\ tk \in Seq(T) /\ N = Len(tk)
                      /\ p.held \in [T -> Int] /\ p.supply \in Int
  BY DEF BalancerPoolStates
<1>2. N \in Nat /\ DOMAIN tk = 1..N /\ \A i \in 1..N : tk[i] \in T
  BY <1>1
<1>3. p.supply > 0 /\ Balancer!RemoveQuote(p, n) = [i \in 1..N |-> (p.held[tk[i]] * n) \div p.supply]
  BY <1>1, <1>2 DEF Balancer!RemoveQuote
<1>4. ASSUME NEW i \in 1..N
      PROVE  (p.held[tk[i]] * n) \div p.supply \in Int
  <2>1. PICK x, s \in Int : x = p.held[tk[i]] * n /\ s = p.supply /\ s > 0
    BY <1>1, <1>2, <1>3
  <2>2. x \div s \in Int
    BY <2>1
  <2>3. QED
    BY <2>1, <2>2
<1>5. QED
  BY <1>1, <1>3, <1>4

\* A pool with another supply and other holdings.
LEMMA BalancerPooled ==
    ASSUME NEW tokens, NEW pools \in BalancerPools(tokens), NEW p \in Balancer!PoolNames,
           NEW supply \in Int, NEW held \in [Balancer!Tokens -> Int], NEW one,
           one = [pools[p] EXCEPT !.supply = supply, !.held = held]
    PROVE  [pools EXCEPT ![p] = one] \in BalancerPools(tokens)
<1>1. PICK S, q, H, L, P : /\ S = BalancerPoolStates /\ q = pools[p] /\ H = [Balancer!Tokens -> Int]
                           /\ L = Seq(Balancer!Tokens) /\ P = Balancer!PoolNames
  OBVIOUS
<1>2. /\ S = [tokens : L, registered : BOOLEAN, initialized : BOOLEAN, paused : BOOLEAN,
              recovery : BOOLEAN, rate : Nat \ {0}, supply : Int, held : H]
      /\ pools \in [P -> S] /\ q \in S /\ p \in P /\ \A x \in P : pools[x].tokens = tokens[x]
  BY <1>1, Zenon DEF BalancerPools, BalancerPoolStates
<1>3. q = [tokens |-> q.tokens, registered |-> q.registered, initialized |-> q.initialized,
           paused |-> q.paused, recovery |-> q.recovery, rate |-> q.rate, supply |-> q.supply, held |-> q.held]
  BY <1>2
<1>4. one = [tokens |-> q.tokens, registered |-> q.registered, initialized |-> q.initialized,
             paused |-> q.paused, recovery |-> q.recovery, rate |-> q.rate, supply |-> supply, held |-> held]
  BY <1>1, <1>3
<1>5. one \in S /\ one.tokens = q.tokens
  BY <1>1, <1>2, <1>4
<1>6. PICK more : more = [pools EXCEPT ![p] = one]
  OBVIOUS
<1>7. more \in [P -> S] /\ \A x \in P : more[x].tokens = tokens[x]
  BY <1>1, <1>2, <1>5, <1>6
<1>8. QED
  BY <1>1, <1>6, <1>7 DEF BalancerPools

BalancerPulling == INSTANCE ProtocolProofs WITH
    Protocol <- "balancer", Requests <- BalancerRequests, Valid <- Balancer!Valid, Reads <- Balancer!Reads,
    Read <- Balancer!Read, Decide <- Balancer!Decide, Call <- Balancer!PullOne, Moves <- Balancer!Moves

LEMMA BalancerPullPath ==
    ASSUME NEW S, NEW c \in S, NEW entries, Len(entries) \in Nat,
           \A i \in 1..Len(entries), x \in S : Balancer!PullOne(x, entries[i]) \subseteq S,
           NEW d \in Balancer!PullAll(c, entries)
    PROVE  \E g : BalancerPulling!Path(g, c, entries, S) /\ g[Len(entries)] = d
<1>1. d \in BalancerPulling!Run(c, entries)
  BY DEF Balancer!PullAll, BalancerPulling!Run
<1>2. QED
  BY <1>1, BalancerPulling!RunPath

LEMMA BalancerPullKeeps ==
    ASSUME NEW S, NEW c, NEW entries, Len(entries) \in Nat, NEW g,
           BalancerPulling!Path(g, c, entries, S), NEW A, c \in A,
           \A i \in 1..Len(entries), x \in A, y \in S :
              x \in S /\ y \in Balancer!PullOne(x, entries[i]) => y \in A,
           NEW m \in 0..Len(entries)
    PROVE  g[m] \in A
<1>1. PICK p \in Int : p = 0
  OBVIOUS
<1>2. p \in 0..Len(entries) /\ m \in p..Len(entries) /\ g[p] \in A
  BY <1>1 DEF BalancerPulling!Path
<1>3. BalancerPulling!Keeps(A, entries, p, m, S)
  BY <1>1 DEF BalancerPulling!Keeps
<1>4. QED
  BY <1>2, <1>3, BalancerPulling!PathKeeps

\* All that a batch adds is pulled while its permits last.
BalancerPullsAll(tokens, c, d, tk, amounts) ==
    /\ d \in Balancer!States(tokens) /\ d.now = c.now /\ d.pool = c.pool
    /\ \A i \in 1..Len(tk) : amounts[i] # 0 => c.now <= c.permit[tk[i]].until

LEMMA BalancerPullAll ==
    ASSUME NEW tokens, NEW c \in Balancer!States(tokens), NEW tk, Len(tk) \in Nat,
           \A i \in 1..Len(tk) : tk[i] \in Balancer!Tokens,
           NEW amounts \in [1..Len(tk) -> Nat], NEW entries,
           Len(entries) = Len(tk),
           \A i \in 1..Len(tk) : entries[i].token = tk[i] /\ entries[i].amount = amounts[i],
           NEW d \in Balancer!PullAll(c, entries)
    PROVE  BalancerPullsAll(tokens, c, d, tk, amounts)
<1>1. PICK N, S, T : N = Len(tk) /\ S = Balancer!States(tokens) /\ T = Balancer!Tokens
  OBVIOUS
<1>2. Len(entries) = N /\ \A i \in 1..N : entries[i].token = tk[i] /\ entries[i].amount = amounts[i]
  BY <1>1
<1>4. ASSUME NEW i \in 1..N, NEW x \in S, NEW y \in Balancer!PullOne(x, entries[i])
      PROVE  /\ y \in S /\ y.now = x.now /\ y.pool = x.pool
             /\ \A u \in T : y.permit[u].until = x.permit[u].until
             /\ amounts[i] # 0 => x.now <= x.permit[tk[i]].until
  <2>1. CASE amounts[i] = 0
    BY <1>2, <1>4, <2>1 DEF Balancer!PullOne
  <2>2. CASE amounts[i] # 0
    <3>1. y \in Balancer!Pull(x, tk[i], amounts[i])
      BY <1>2, <1>4, <2>2 DEF Balancer!PullOne
    <3>2. tk[i] \in Balancer!Tokens /\ amounts[i] \in Int /\ x \in Balancer!States(tokens)
      BY <1>1
    <3>3. BalancerPulls(tokens, x, y, tk[i], amounts[i])
      BY <3>1, <3>2, BalancerPull
    <3>4. QED
      BY <1>1, <3>3 DEF BalancerPulls, BalancerBecomes
  <2>3. QED
    BY <2>1, <2>2
<1>5. /\ c \in S /\ Len(entries) \in Nat
      /\ \A i \in 1..Len(entries), x \in S : Balancer!PullOne(x, entries[i]) \subseteq S
  BY <1>1, <1>2, <1>4
<1>6. PICK g : BalancerPulling!Path(g, c, entries, S) /\ g[Len(entries)] = d
  BY <1>5, BalancerPullPath
<1>7. PICK A : A = {x \in S : /\ x.now = c.now /\ x.pool = c.pool
                              /\ \A u \in T : x.permit[u].until = c.permit[u].until}
  OBVIOUS
<1>8. ASSUME NEW m \in 0..N
      PROVE  g[m] \in A
  <2>1. c \in A
    BY <1>5, <1>7
  <2>2. ASSUME NEW i \in 1..N, NEW x \in A, NEW y \in S, y \in Balancer!PullOne(x, entries[i])
        PROVE  y \in A
    <3>1. x \in S /\ x.now = c.now /\ x.pool = c.pool /\ \A u \in T : x.permit[u].until = c.permit[u].until
      BY <1>7
    <3>2. /\ y.now = x.now /\ y.pool = x.pool /\ \A u \in T : y.permit[u].until = x.permit[u].until
      BY <1>4, <2>2, <3>1
    <3>3. QED
      BY <1>7, <3>1, <3>2
  <2>3. \A i \in 1..Len(entries), x \in A, y \in S :
           x \in S /\ y \in Balancer!PullOne(x, entries[i]) => y \in A
    BY <1>2, <2>2
  <2>4. m \in 0..Len(entries)
    BY <1>2
  <2>5. QED
    BY <1>5, <1>6, <2>1, <2>3, <2>4, BalancerPullKeeps
<1>9. ASSUME NEW i \in 1..N, amounts[i] # 0
      PROVE  c.now <= c.permit[tk[i]].until
  <2>1. i - 1 \in 0..N /\ i \in 1..Len(entries)
    BY <1>1, <1>2
  <2>2. g[i - 1] \in A /\ g[i] \in Balancer!PullOne(g[i - 1], entries[i])
    BY <1>6, <1>8, <2>1 DEF BalancerPulling!Path
  <2>3. g[i - 1] \in S /\ g[i - 1].now = c.now /\ g[i - 1].permit[tk[i]].until = c.permit[tk[i]].until
    BY <1>1, <1>7, <2>2
  <2>4. g[i - 1].now <= g[i - 1].permit[tk[i]].until
    BY <1>4, <1>9, <2>2, <2>3
  <2>5. QED
    BY <2>3, <2>4
<1>10. d \in A
  BY <1>1, <1>2, <1>6, <1>8
<1>11. QED
  BY <1>1, <1>7, <1>9, <1>10 DEF BalancerPullsAll

\* What adding liquidity does.
BalancerPours(tokens, c, d, tk, amounts) ==
    /\ d \in Balancer!States(tokens) /\ d.now = c.now
    /\ \A i \in 1..Len(tk) : amounts[i] # 0 => c.now <= c.permit[tk[i]].until

LEMMA BalancerAdd ==
    ASSUME NEW tokens \in BalancerLists, NEW c \in Balancer!States(tokens), NEW pool \in Balancer!PoolNames,
           NEW tk, tk = tokens[pool], NEW amounts \in [1..Len(tk) -> Nat], NEW min,
           NEW d \in Balancer!Call(c, Balancer!AddLiquidityUnbalanced(pool, amounts, min))
    PROVE  BalancerPours(tokens, c, d, tk, amounts)
<1>1. PICK p, T, N : p = c.pool[pool] /\ T = Balancer!Tokens /\ N = Len(tk)
  OBVIOUS
<1>2. /\ p.tokens = tk /\ N \in Nat /\ DOMAIN tk = 1..N /\ \A i \in 1..N : tk[i] \in T
      /\ c.pool \in BalancerPools(tokens)
  BY <1>1, BalancerTokensOf, BalancerShape
<1>3. p \in BalancerPoolStates /\ DOMAIN p.held = T
  <2>1. p \in BalancerPoolStates
    BY <1>1, <1>2 DEF BalancerPools
  <2>2. QED
    BY <1>1, <2>1 DEF BalancerPoolStates
<1>4. amounts \in [1..Len(p.tokens) -> Int] /\ amounts \in [1..N -> Nat] /\ DOMAIN amounts = 1..N
  BY <1>1, <1>2
<1>5. PICK n \in Int : n = Balancer!AddQuote(p, amounts)
  BY <1>3, <1>4, BalancerAddQuoteIs
<1>6. PICK added : added = [t \in T |-> p.held[t] + Balancer!Share(p, amounts, t)]
  OBVIOUS
<1>7. added \in [T -> Int]
  <2>1. \A t \in T : p.held[t] \in Int /\ Balancer!Share(p, amounts, t) \in Int
    BY <1>1, <1>3, <1>4, BalancerShares
  <2>2. \A t \in T : p.held[t] + Balancer!Share(p, amounts, t) \in Int
    BY <2>1
  <2>3. QED
    BY <1>6, <2>2
<1>8. PICK entries : entries = [i \in 1..N |-> [token |-> tk[i], amount |-> amounts[i]]]
  OBVIOUS
<1>9. PICK e \in Balancer!PullAll(c, entries) :
        d = [e EXCEPT !.balance[pool] = @ + n, !.pool[pool].supply = @ + n, !.pool[pool].held = added]
  <2>1. PICK k : k = Balancer!AddLiquidityUnbalanced(pool, amounts, min)
    OBVIOUS
  <2>2. k.fn = "add" /\ k.pool = pool /\ k.amounts = amounts
    BY <2>1 DEF Balancer!AddLiquidityUnbalanced
  <2>3. d \in Balancer!OnAdd(c, k)
    BY <2>1, <2>2 DEF Balancer!Call
  <2>4. \E e \in Balancer!PullAll(c, [i \in DOMAIN k.amounts |-> [token |-> p.tokens[i], amount |-> k.amounts[i]]]) :
          d = [e EXCEPT !.balance[k.pool] = @ + Balancer!AddQuote(p, k.amounts),
                        !.pool[k.pool].supply = @ + Balancer!AddQuote(p, k.amounts),
                        !.pool[k.pool].held = [t \in DOMAIN p.held |-> p.held[t] + Balancer!Share(p, k.amounts, t)]]
    BY <1>1, <2>2, <2>3 DEF Balancer!OnAdd
  <2>5. QED
    BY <1>2, <1>3, <1>4, <1>5, <1>6, <1>8, <2>2, <2>4
<1>10. /\ Len(entries) = N
       /\ \A i \in 1..N : entries[i].token = tk[i] /\ entries[i].amount = amounts[i]
  BY <1>2, <1>8
<1>11. BalancerPullsAll(tokens, c, e, tk, amounts)
  <2>1. PICK more : more = entries
    OBVIOUS
  <2>2. /\ e \in Balancer!PullAll(c, more) /\ Len(tk) \in Nat /\ Len(more) = Len(tk)
        /\ \A i \in 1..Len(tk) : tk[i] \in Balancer!Tokens
        /\ \A i \in 1..Len(tk) : more[i].token = tk[i] /\ more[i].amount = amounts[i]
    BY <1>1, <1>2, <1>10, <2>1
  <2>3. QED
    BY <2>2, BalancerPullAll
<1>12. e \in Balancer!States(tokens) /\ e.now = c.now /\ e.pool = c.pool
  BY <1>11 DEF BalancerPullsAll
<1>13. /\ e = BalancerRecord(e.now, e.pool, e.api, e.indexed, e.balance, e.allowance, e.permit)
       /\ e.balance \in [BalancerCoins -> Int] /\ e.allowance \in [BalancerCoins -> Int]
       /\ e.permit \in [Balancer!Tokens -> Balancer!Permits]
  BY <1>12, BalancerShape
<1>14. PICK balance, supply : balance = [e.balance EXCEPT ![pool] = @ + n] /\ supply = p.supply + n
  OBVIOUS
<1>15. PICK one : one = [p EXCEPT !.supply = supply, !.held = added]
  OBVIOUS
<1>16. PICK pools : pools = [c.pool EXCEPT ![pool] = one]
  OBVIOUS
<1>17. d = [e EXCEPT !.balance = balance, !.pool = pools]
  <2>1. e.pool[pool] = p
    BY <1>1, <1>12
  <2>2. pool \in DOMAIN e.pool
    BY <1>2, <1>12 DEF BalancerPools
  <2>3. d = [e EXCEPT !.balance = balance,
                      !.pool = [e.pool EXCEPT ![pool] = [[e.pool[pool] EXCEPT !.supply = supply] EXCEPT !.held = added]]]
    BY <1>9, <1>13, <1>14, <2>1, <2>2 DEF BalancerRecord
  <2>4. QED
    BY <1>12, <1>15, <1>16, <2>1, <2>3
<1>18. d = BalancerRecord(e.now, pools, e.api, e.indexed, balance, e.allowance, e.permit)
  BY <1>13, <1>17 DEF BalancerRecord
<1>19. balance \in [BalancerCoins -> Int]
  BY <1>13, <1>14, Changed
<1>20. supply \in Int
  <2>1. p.supply \in Int
    BY <1>3 DEF BalancerPoolStates
  <2>2. QED
    BY <1>14, <2>1
<1>21. pools \in BalancerPools(tokens)
  BY <1>1, <1>2, <1>7, <1>15, <1>16, <1>20, BalancerPooled
<1>22. BalancerBecomes(tokens, e, d, pools, balance, e.allowance, e.permit)
  BY <1>12, <1>13, <1>18, <1>19, <1>21, BalancerMade
<1>23. QED
  BY <1>11, <1>12, <1>22 DEF BalancerBecomes, BalancerPullsAll, BalancerPours

LEMMA BalancerRemove ==
    ASSUME NEW tokens \in BalancerLists, NEW c \in Balancer!States(tokens), NEW pool \in Balancer!PoolNames,
           NEW m \in Nat \ {0}, NEW mins,
           NEW d \in Balancer!Call(c, Balancer!RemoveLiquidityProportional(pool, m, mins))
    PROVE  d \in Balancer!States(tokens)
<1>1. PICK p, T : p = c.pool[pool] /\ T = Balancer!Tokens
  OBVIOUS
<1>2. /\ c = BalancerRecord(c.now, c.pool, c.api, c.indexed, c.balance, c.allowance, c.permit)
      /\ c.balance \in [BalancerCoins -> Int] /\ c.allowance \in [BalancerCoins -> Int]
      /\ c.permit \in [Balancer!Tokens -> Balancer!Permits] /\ c.pool \in BalancerPools(tokens)
  BY BalancerShape
<1>3. p \in BalancerPoolStates /\ p.held \in [T -> Int]
  <2>1. p \in BalancerPoolStates
    BY <1>1, <1>2 DEF BalancerPools
  <2>2. QED
    BY <1>1, <2>1 DEF BalancerPoolStates
<1>4. PICK out : out = Balancer!RemoveQuote(p, m)
  OBVIOUS
<1>5. /\ out # <<>>
      /\ d = [c EXCEPT !.balance = [t \in DOMAIN @ |-> IF t = pool THEN @[t] - m ELSE @[t] + Balancer!Share(p, out, t)],
                       !.allowance[pool] = @ - m,
                       !.pool[pool].supply = @ - m,
                       !.pool[pool].held = [t \in DOMAIN @ |-> @[t] - Balancer!Share(p, out, t)]]
  <2>1. PICK k : k = Balancer!RemoveLiquidityProportional(pool, m, mins)
    OBVIOUS
  <2>2. k.fn = "remove" /\ k.pool = pool /\ k.amount = m
    BY <2>1 DEF Balancer!RemoveLiquidityProportional
  <2>3. d \in Balancer!OnRemove(c, k)
    BY <2>1, <2>2 DEF Balancer!Call
  <2>4. QED
    BY <1>1, <1>4, <2>2, <2>3 DEF Balancer!OnRemove
<1>6. out \in [1..Len(p.tokens) -> Int]
  BY <1>3, <1>4, <1>5, BalancerRemoveQuoteIs
<1>7. (\A t : Balancer!Share(p, out, t) \in Int) /\ p.supply \in Int
  BY <1>3, <1>6, BalancerShares
<1>8. PICK balance, allowance, supply, held :
        /\ balance = [t \in BalancerCoins |-> IF t = pool THEN c.balance[t] - m
                                              ELSE c.balance[t] + Balancer!Share(p, out, t)]
        /\ allowance = [c.allowance EXCEPT ![pool] = @ - m]
        /\ supply = p.supply - m
        /\ held = [t \in T |-> p.held[t] - Balancer!Share(p, out, t)]
  OBVIOUS
<1>9. PICK one : one = [p EXCEPT !.supply = supply, !.held = held]
  OBVIOUS
<1>10. PICK pools : pools = [c.pool EXCEPT ![pool] = one]
  OBVIOUS
<1>11. d = [c EXCEPT !.balance = balance, !.allowance = allowance, !.pool = pools]
  <2>1. pool \in DOMAIN c.pool /\ DOMAIN c.balance = BalancerCoins /\ DOMAIN p.held = T
    BY <1>2, <1>3 DEF BalancerPools
  <2>2. d = [c EXCEPT !.balance = balance, !.allowance = allowance,
                      !.pool = [c.pool EXCEPT ![pool] = [[c.pool[pool] EXCEPT !.supply = supply] EXCEPT !.held = held]]]
    BY <1>1, <1>2, <1>5, <1>8, <2>1 DEF BalancerRecord
  <2>3. QED
    BY <1>1, <1>9, <1>10, <2>2
<1>12. d = BalancerRecord(c.now, pools, c.api, c.indexed, balance, allowance, c.permit)
  BY <1>2, <1>11 DEF BalancerRecord
<1>13. balance \in [BalancerCoins -> Int]
  <2>1. \A t \in BalancerCoins : c.balance[t] - m \in Int /\ c.balance[t] + Balancer!Share(p, out, t) \in Int
    BY <1>2, <1>7
  <2>2. QED
    BY <1>8, <2>1
<1>14. allowance \in [BalancerCoins -> Int]
  <2>1. m \in Int
    OBVIOUS
  <2>2. QED
    BY <1>2, <1>8, <2>1, Changed
<1>15. held \in [T -> Int] /\ supply \in Int
  <2>1. \A t \in T : p.held[t] - Balancer!Share(p, out, t) \in Int
    BY <1>3, <1>7
  <2>2. QED
    BY <1>7, <1>8, <2>1
<1>16. pools \in BalancerPools(tokens)
  BY <1>1, <1>2, <1>9, <1>10, <1>15, BalancerPooled
<1>17. BalancerBecomes(tokens, c, d, pools, balance, allowance, c.permit)
  BY <1>2, <1>12, <1>13, <1>14, <1>16, BalancerMade
<1>18. QED
  BY <1>17 DEF BalancerBecomes

=============================================================================
