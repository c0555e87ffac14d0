---------------------------- MODULE LendingProofs ----------------------------
(***************************************************************************)
(* What is proved of LendingProtocols, for any requests, any number of     *)
(* concurrent handlers, any state of the three markets and any bounds: the *)
(* amounts stay in their range, what is compiled is what was asked for,    *)
(* guarded actions keep the health they were guarded by, "max" leaves      *)
(* nothing behind, and batches use up the allowances they open.            *)
(*                                                                         *)
(* Each adapter has its part: the states of its chain, what each of its    *)
(* calls does to them, what its handler compiles (a batch, with the reason *)
(* for its amount in terms of the chains the handler may have read), and   *)
(* what such a batch does to the chain it meets, however late.             *)
(***************************************************************************)
EXTENDS LendingProtocols, SequenceTheorems, FiniteSetTheorems, TLAPS

\* A function of amounts stays one when a value is changed to an amount.
LEMMA Put ==
    ASSUME NEW T, NEW V, NEW f \in [T -> V], NEW x, NEW v \in V
    PROVE  /\ [f EXCEPT ![x] = v] \in [T -> V]
           /\ x \in T => [f EXCEPT ![x] = v][x] = v
           /\ \A y \in T : y # x => [f EXCEPT ![x] = v][y] = f[y]
OBVIOUS

\* The width of the amounts.
LEMMA AaveWidth == Aave!MaxUint \in Nat
BY DEF Aave!MaxUint
LEMMA CompoundWidth == Compound!MaxUint \in Nat
BY DEF Compound!MaxUint
LEMMA MorphoWidth == Morpho!MaxUint \in Nat
BY DEF Morpho!MaxUint

AaveRuns == INSTANCE ProtocolProofs WITH
    Protocol <- "aave", Requests <- AaveRequests, Valid <- Aave!Valid, Reads <- Aave!Reads,
    Read <- Aave!Read, Decide <- Aave!Decide, Call <- Aave!Call, Moves <- Aave!Moves

LEMMA AaveSame ==
    /\ OnAave!Next => AaveRuns!Next
    /\ \A h \in Handlers : OnAave!Succeeded(h) => AaveRuns!Succeeded(h)
    /\ \A h \in Handlers : OnAave!Executed(h) => AaveRuns!Executed(h)
    /\ \A c, calls : OnAave!Run(c, calls) = AaveRuns!Run(c, calls)
    /\ OnAave!Idle = AaveRuns!Idle
<1>1. \A c, calls : OnAave!Run(c, calls) = AaveRuns!Run(c, calls)
  BY DEF OnAave!Run, AaveRuns!Run
<1>2. \A t, by : OnAave!Overtaken(t, by) = AaveRuns!Overtaken(t, by)
  BY DEF OnAave!Overtaken, AaveRuns!Overtaken
<1>3. OnAave!Here => AaveRuns!Here
  BY DEF OnAave!Here, AaveRuns!Here
<1>4. ASSUME NEW h \in Handlers
      PROVE  /\ OnAave!Begin(h) => AaveRuns!Begin(h)
             /\ OnAave!ReadNext(h) => AaveRuns!ReadNext(h)
             /\ OnAave!Answer(h) => AaveRuns!Answer(h)
             /\ OnAave!Simulate(h) => AaveRuns!Simulate(h)
             /\ OnAave!Submit(h) => AaveRuns!Submit(h)
  <2> USE <1>1, <1>3 DEF OnAave!HasRead, AaveRuns!HasRead, OnAave!Decision, AaveRuns!Decision, OnAave!Left, AaveRuns!Left
  <2>1. OnAave!Begin(h) => AaveRuns!Begin(h)
    BY DEF OnAave!Begin, AaveRuns!Begin
  <2>2. OnAave!ReadNext(h) => AaveRuns!ReadNext(h)
    BY DEF OnAave!ReadNext, AaveRuns!ReadNext
  <2>3. OnAave!Answer(h) => AaveRuns!Answer(h)
    BY DEF OnAave!Answer, AaveRuns!Answer
  <2>4. OnAave!Simulate(h) => AaveRuns!Simulate(h)
    BY DEF OnAave!Simulate, AaveRuns!Simulate
  <2>5. OnAave!Submit(h) => AaveRuns!Submit(h)
    BY DEF OnAave!Submit, AaveRuns!Submit
  <2>6. QED
    BY <2>1, <2>2, <2>3, <2>4, <2>5
<1>5. ASSUME NEW h \in Handlers, OnAave!Mine(h)
      PROVE  AaveRuns!Mine(h)
  <2> USE DEF OnAave!Mine, AaveRuns!Mine
  <2>1. OnAave!Run(chain, task[h].result) = AaveRuns!Run(chain, task[h].result)
    BY <1>1
  <2>2. PICK done : done = [task EXCEPT ![h].runs = @ + 1,
                                        ![h].stage = IF OnAave!Run(chain, task[h].result) = {}
                                                     THEN "reverted" ELSE "mined"]
    OBVIOUS
  <2>3. OnAave!Overtaken(done, "wallet") = AaveRuns!Overtaken(done, "wallet")
    BY <1>2
  <2>4. QED
    BY <1>3, <1>5, <2>1, <2>2, <2>3
<1>6. OnAave!Move => AaveRuns!Move
  BY <1>2, <1>3 DEF OnAave!Move, AaveRuns!Move
<1>7. OnAave!Next => AaveRuns!Next
  BY <1>4, <1>5, <1>6 DEF OnAave!Next, AaveRuns!Next
<1>8. QED
  BY <1>1, <1>7 DEF OnAave!Succeeded, AaveRuns!Succeeded, OnAave!Executed, AaveRuns!Executed,
                    OnAave!Idle, AaveRuns!Idle

CompoundRuns == INSTANCE ProtocolProofs WITH
    Protocol <- "compound", Requests <- CompoundRequests, Valid <- Compound!Valid, Reads <- Compound!Reads,
    Read <- Compound!Read, Decide <- Compound!Decide, Call <- Compound!Call, Moves <- Compound!Moves

LEMMA CompoundSame ==
    /\ OnCompound!Next => CompoundRuns!Next
    /\ \A h \in Handlers : OnCompound!Succeeded(h) => CompoundRuns!Succeeded(h)
    /\ \A h \in Handlers : OnCompound!Executed(h) => CompoundRuns!Executed(h)
    /\ \A c, calls : OnCompound!Run(c, calls) = CompoundRuns!Run(c, calls)
    /\ OnCompound!Idle = CompoundRuns!Idle
<1>1. \A c, calls : OnCompound!Run(c, calls) = CompoundRuns!Run(c, calls)
  BY DEF OnCompound!Run, CompoundRuns!Run
<1>2. \A t, by : OnCompound!Overtaken(t, by) = CompoundRuns!Overtaken(t, by)
  BY DEF OnCompound!Overtaken, CompoundRuns!Overtaken
<1>3. OnCompound!Here => CompoundRuns!Here
  BY DEF OnCompound!Here, CompoundRuns!Here
<1>4. ASSUME NEW h \in Handlers
      PROVE  /\ OnCompound!Begin(h) => CompoundRuns!Begin(h)
             /\ OnCompound!ReadNext(h) => CompoundRuns!ReadNext(h)
             /\ OnCompound!Answer(h) => CompoundRuns!Answer(h)
             /\ OnCompound!Simulate(h) => CompoundRuns!Simulate(h)
             /\ OnCompound!Submit(h) => CompoundRuns!Submit(h)
  <2> USE <1>1, <1>3 DEF OnCompound!HasRead, CompoundRuns!HasRead, OnCompound!Decision, CompoundRuns!Decision, OnCompound!Left, CompoundRuns!Left
  <2>1. OnCompound!Begin(h) => CompoundRuns!Begin(h)
    BY DEF OnCompound!Begin, CompoundRuns!Begin
  <2>2. OnCompound!ReadNext(h) => CompoundRuns!ReadNext(h)
    BY DEF OnCompound!ReadNext, CompoundRuns!ReadNext
  <2>3. OnCompound!Answer(h) => CompoundRuns!Answer(h)
    BY DEF OnCompound!Answer, CompoundRuns!Answer
  <2>4. OnCompound!Simulate(h) => CompoundRuns!Simulate(h)
    BY DEF OnCompound!Simulate, CompoundRuns!Simulate
  <2>5. OnCompound!Submit(h) => CompoundRuns!Submit(h)
    BY DEF OnCompound!Submit, CompoundRuns!Submit
  <2>6. QED
    BY <2>1, <2>2, <2>3, <2>4, <2>5
<1>5. ASSUME NEW h \in Handlers, OnCompound!Mine(h)
      PROVE  CompoundRuns!Mine(h)
  <2> USE DEF OnCompound!Mine, CompoundRuns!Mine
  <2>1. OnCompound!Run(chain, task[h].result) = CompoundRuns!Run(chain, task[h].result)
    BY <1>1
  <2>2. PICK done : done = [task EXCEPT ![h].runs = @ + 1,
                                        ![h].stage = IF OnCompound!Run(chain, task[h].result) = {}
                                                     THEN "reverted" ELSE "mined"]
    OBVIOUS
  <2>3. OnCompound!Overtaken(done, "wallet") = CompoundRuns!Overtaken(done, "wallet")
    BY <1>2
  <2>4. QED
    BY <1>3, <1>5, <2>1, <2>2, <2>3
<1>6. OnCompound!Move => CompoundRuns!Move
  BY <1>2, <1>3 DEF OnCompound!Move, CompoundRuns!Move
<1>7. OnCompound!Next => CompoundRuns!Next
  BY <1>4, <1>5, <1>6 DEF OnCompound!Next, CompoundRuns!Next
<1>8. QED
  BY <1>1, <1>7 DEF OnCompound!Succeeded, CompoundRuns!Succeeded, OnCompound!Executed, CompoundRuns!Executed,
                    OnCompound!Idle, CompoundRuns!Idle

MorphoRuns == INSTANCE ProtocolProofs WITH
    Protocol <- "morpho", Requests <- MorphoRequests, Valid <- Morpho!Valid, Reads <- Morpho!Reads,
    Read <- Morpho!Read, Decide <- Morpho!Decide, Call <- Morpho!Call, Moves <- Morpho!Moves

LEMMA MorphoSame ==
    /\ OnMorpho!Next => MorphoRuns!Next
    /\ \A h \in Handlers : OnMorpho!Succeeded(h) => MorphoRuns!Succeeded(h)
    /\ \A h \in Handlers : OnMorpho!Executed(h) => MorphoRuns!Executed(h)
    /\ \A c, calls : OnMorpho!Run(c, calls) = MorphoRuns!Run(c, calls)
    /\ OnMorpho!Idle = MorphoRuns!Idle
<1>1. \A c, calls : OnMorpho!Run(c, calls) = MorphoRuns!Run(c, calls)
  BY DEF OnMorpho!Run, MorphoRuns!Run
<1>2. \A t, by : OnMorpho!Overtaken(t, by) = MorphoRuns!Overtaken(t, by)
  BY DEF OnMorpho!Overtaken, MorphoRuns!Overtaken
<1>3. OnMorpho!Here => MorphoRuns!Here
  BY DEF OnMorpho!Here, MorphoRuns!Here
<1>4. ASSUME NEW h \in Handlers
      PROVE  /\ OnMorpho!Begin(h) => MorphoRuns!Begin(h)
             /\ OnMorpho!ReadNext(h) => MorphoRuns!ReadNext(h)
             /\ OnMorpho!Answer(h) => MorphoRuns!Answer(h)
             /\ OnMorpho!Simulate(h) => MorphoRuns!Simulate(h)
             /\ OnMorpho!Submit(h) => MorphoRuns!Submit(h)
  <2> USE <1>1, <1>3 DEF OnMorpho!HasRead, MorphoRuns!HasRead, OnMorpho!Decision, MorphoRuns!Decision, OnMorpho!Left, MorphoRuns!Left
  <2>1. OnMorpho!Begin(h) => MorphoRuns!Begin(h)
    BY DEF OnMorpho!Begin, MorphoRuns!Begin
  <2>2. OnMorpho!ReadNext(h) => MorphoRuns!ReadNext(h)
    BY DEF OnMorpho!ReadNext, MorphoRuns!ReadNext
  <2>3. OnMorpho!Answer(h) => MorphoRuns!Answer(h)
    BY DEF OnMorpho!Answer, MorphoRuns!Answer
  <2>4. OnMorpho!Simulate(h) => MorphoRuns!Simulate(h)
    BY DEF OnMorpho!Simulate, MorphoRuns!Simulate
  <2>5. OnMorpho!Submit(h) => MorphoRuns!Submit(h)
    BY DEF OnMorpho!Submit, MorphoRuns!Submit
  <2>6. QED
    BY <2>1, <2>2, <2>3, <2>4, <2>5
<1>5. ASSUME NEW h \in Handlers, OnMorpho!Mine(h)
      PROVE  MorphoRuns!Mine(h)
  <2> USE DEF OnMorpho!Mine, MorphoRuns!Mine
  <2>1. OnMorpho!Run(chain, task[h].result) = MorphoRuns!Run(chain, task[h].result)
    BY <1>1
  <2>2. PICK done : done = [task EXCEPT ![h].runs = @ + 1,
                                        ![h].stage = IF OnMorpho!Run(chain, task[h].result) = {}
                                                     THEN "reverted" ELSE "mined"]
    OBVIOUS
  <2>3. OnMorpho!Overtaken(done, "wallet") = MorphoRuns!Overtaken(done, "wallet")
    BY <1>2
  <2>4. QED
    BY <1>3, <1>5, <2>1, <2>2, <2>3
<1>6. OnMorpho!Move => MorphoRuns!Move
  BY <1>2, <1>3 DEF OnMorpho!Move, MorphoRuns!Move
<1>7. OnMorpho!Next => MorphoRuns!Next
  BY <1>4, <1>5, <1>6 DEF OnMorpho!Next, MorphoRuns!Next
<1>8. QED
  BY <1>1, <1>7 DEF OnMorpho!Succeeded, MorphoRuns!Succeeded, OnMorpho!Executed, MorphoRuns!Executed,
                    OnMorpho!Idle, MorphoRuns!Idle

AaveRecord(price, balance, allowance, supplied, debt) ==
    [price |-> price, balance |-> balance, allowance |-> allowance,
     supplied |-> supplied, debt |-> debt]
AaveDebts == [Aave!Owners -> [Aave!Modes -> [Aave!Assets -> Nat]]]
AaveTyped(price, balance, allowance, supplied, debt) ==
    /\ price \in [Aave!Assets -> Nat] /\ balance \in [Aave!Assets -> Nat]
    /\ allowance \in [Aave!Assets -> 0..Aave!MaxUint]
    /\ supplied \in [Aave!Owners -> [Aave!Assets -> Nat]]
    /\ debt \in AaveDebts

LEMMA AaveShape ==
    ASSUME NEW c \in Aave!States
    PROVE  /\ c = AaveRecord(c.price, c.balance, c.allowance, c.supplied, c.debt)
           /\ AaveTyped(c.price, c.balance, c.allowance, c.supplied, c.debt)
BY DEF Aave!States, AaveRecord, AaveTyped, AaveDebts

LEMMA AaveBuilt ==
    ASSUME NEW price, NEW balance, NEW allowance, NEW supplied, NEW debt,
           AaveTyped(price, balance, allowance, supplied, debt)
    PROVE  AaveRecord(price, balance, allowance, supplied, debt) \in Aave!States
BY DEF Aave!States, AaveRecord, AaveTyped, AaveDebts

\* What the wallet and an owner have after a call.
AaveApproved(c, d, token, n) ==
    /\ d \in Aave!States
    /\ d.price = c.price /\ d.balance = c.balance /\ d.supplied = c.supplied /\ d.debt = c.debt
    /\ token \in Aave!Assets => d.allowance[token] = n

LEMMA AaveApprove ==
    ASSUME NEW c \in Aave!States, NEW token, NEW n \in 0..Aave!MaxUint,
           NEW d \in Aave!Call(c, Aave!Approve(token, n))
    PROVE  AaveApproved(c, d, token, n)
<1>1. d = [c EXCEPT !.allowance[token] = n]
  BY DEF Aave!Call, Aave!Approve
<1>2. PICK allowance : allowance = [c.allowance EXCEPT ![token] = n]
  OBVIOUS
<1>3. /\ c = AaveRecord(c.price, c.balance, c.allowance, c.supplied, c.debt)
      /\ AaveTyped(c.price, c.balance, c.allowance, c.supplied, c.debt)
  BY AaveShape
<1>4. d = AaveRecord(c.price, c.balance, allowance, c.supplied, c.debt)
  BY <1>1, <1>2, <1>3 DEF AaveRecord
<1>5. allowance \in [Aave!Assets -> 0..Aave!MaxUint] /\ (token \in Aave!Assets => allowance[token] = n)
  BY <1>2, <1>3, Put DEF AaveTyped
<1>6. d \in Aave!States
  BY <1>3, <1>4, <1>5, AaveBuilt DEF AaveTyped
<1>7. QED
  BY <1>4, <1>5, <1>6 DEF AaveRecord, AaveApproved

AaveSupplied(c, d, asset, n) ==
    d \in Aave!States /\ d.allowance[asset] = c.allowance[asset] - n

LEMMA AaveSupplies ==
    ASSUME NEW c \in Aave!States, NEW asset \in Aave!Assets, NEW n \in 0..Aave!MaxUint,
           NEW d \in Aave!Call(c, Aave!PoolSupply(asset, n, "wallet"))
    PROVE  AaveSupplied(c, d, asset, n)
<1>1. d \in Aave!OnSupply(c, Aave!PoolSupply(asset, n, "wallet"))
  BY DEF Aave!Call, Aave!PoolSupply
<1>2. /\ n <= c.balance[asset] /\ n <= c.allowance[asset]
      /\ d = [c EXCEPT !.balance[asset] = @ - n, !.allowance[asset] = @ - n,
                       !.supplied["wallet"][asset] = @ + n]
  <2>1. c.balance[asset] \in Nat /\ c.allowance[asset] \in 0..Aave!MaxUint
    BY AaveShape DEF AaveTyped
  <2>2. QED
    BY <1>1, <2>1, AaveWidth DEF Aave!OnSupply, Aave!PoolSupply, Aave!Lesser
<1>3. /\ c = AaveRecord(c.price, c.balance, c.allowance, c.supplied, c.debt)
      /\ AaveTyped(c.price, c.balance, c.allowance, c.supplied, c.debt)
  BY AaveShape
<1>4. PICK balance, allowance, held, supplied :
        /\ balance = [c.balance EXCEPT ![asset] = c.balance[asset] - n]
        /\ allowance = [c.allowance EXCEPT ![asset] = c.allowance[asset] - n]
        /\ held = [c.supplied["wallet"] EXCEPT ![asset] = c.supplied["wallet"][asset] + n]
        /\ supplied = [c.supplied EXCEPT !["wallet"] = held]
  OBVIOUS
<1>5. d = AaveRecord(c.price, balance, allowance, supplied, c.debt)
  BY <1>2, <1>3, <1>4 DEF AaveRecord
<1>6. /\ c.balance[asset] - n \in Nat /\ c.allowance[asset] - n \in 0..Aave!MaxUint
      /\ c.supplied["wallet"] \in [Aave!Assets -> Nat] /\ c.supplied["wallet"][asset] + n \in Nat
  BY <1>2, <1>3, AaveWidth DEF AaveTyped, Aave!Owners
<1>7. balance \in [Aave!Assets -> Nat] /\ held \in [Aave!Assets -> Nat]
  BY <1>3, <1>4, <1>6, Put DEF AaveTyped
<1>8. /\ allowance \in [Aave!Assets -> 0..Aave!MaxUint]
      /\ allowance[asset] = c.allowance[asset] - n
  BY <1>3, <1>4, <1>6, Put DEF AaveTyped
<1>9. supplied \in [Aave!Owners -> [Aave!Assets -> Nat]]
  BY <1>3, <1>4, <1>7, Put DEF AaveTyped
<1>10. d \in Aave!States
  BY <1>3, <1>5, <1>7, <1>8, <1>9, AaveBuilt DEF AaveTyped
<1>11. QED
  BY <1>5, <1>8, <1>10 DEF AaveRecord, AaveSupplied

AaveWithdrawn(c, d, asset, n) ==
    d \in Aave!States /\ (n = Aave!MaxUint => d.supplied["wallet"][asset] = 0)

LEMMA AaveWithdraws ==
    ASSUME NEW c \in Aave!States, NEW asset \in Aave!Assets, NEW n \in 0..Aave!MaxUint, NEW to,
           NEW d \in Aave!Call(c, Aave!PoolWithdraw(asset, n, to))
    PROVE  AaveWithdrawn(c, d, asset, n)
<1>1. d \in Aave!OnWithdraw(c, Aave!PoolWithdraw(asset, n, to))
  BY DEF Aave!Call, Aave!PoolWithdraw
<1>2. PICK all, taken, paid :
        /\ all = c.supplied["wallet"][asset]
        /\ taken = IF n = Aave!MaxUint THEN all ELSE n
        /\ paid = IF to = "wallet" THEN taken ELSE 0
  OBVIOUS
<1>3. /\ ~(taken > all)
      /\ d = [c EXCEPT !.supplied["wallet"][asset] = @ - taken, !.balance[asset] = @ + paid]
  BY <1>1, <1>2 DEF Aave!OnWithdraw, Aave!PoolWithdraw
<1>4. /\ c = AaveRecord(c.price, c.balance, c.allowance, c.supplied, c.debt)
      /\ AaveTyped(c.price, c.balance, c.allowance, c.supplied, c.debt)
  BY AaveShape
<1>5. PICK balance, held, supplied :
        /\ balance = [c.balance EXCEPT ![asset] = c.balance[asset] + paid]
        /\ held = [c.supplied["wallet"] EXCEPT ![asset] = c.supplied["wallet"][asset] - taken]
        /\ supplied = [c.supplied EXCEPT !["wallet"] = held]
  OBVIOUS
<1>6. d = AaveRecord(c.price, balance, c.allowance, supplied, c.debt)
  BY <1>3, <1>4, <1>5 DEF AaveRecord
<1>7. all \in Nat /\ c.balance[asset] \in Nat /\ c.supplied["wallet"] \in [Aave!Assets -> Nat]
  BY <1>2, <1>4 DEF AaveTyped, Aave!Owners
<1>8. taken \in Nat /\ paid \in Nat /\ c.balance[asset] + paid \in Nat /\ all - taken \in Nat
  BY <1>2, <1>3, <1>7, AaveWidth
<1>9. balance \in [Aave!Assets -> Nat] /\ held \in [Aave!Assets -> Nat] /\ held[asset] = all - taken
  BY <1>2, <1>4, <1>5, <1>7, <1>8, Put DEF AaveTyped
<1>10. supplied \in [Aave!Owners -> [Aave!Assets -> Nat]] /\ supplied["wallet"] = held
  BY <1>4, <1>5, <1>9, Put DEF AaveTyped, Aave!Owners
<1>11. d \in Aave!States
  BY <1>4, <1>6, <1>9, <1>10, AaveBuilt DEF AaveTyped
<1>12. n = Aave!MaxUint => d.supplied["wallet"][asset] = 0
  BY <1>2, <1>6, <1>7, <1>9, <1>10 DEF AaveRecord
<1>13. QED
  BY <1>11, <1>12 DEF AaveWithdrawn

\* A payment of what is owed.
AaveRepaid(c, d, asset, n, mode, owner) ==
    LET k == Aave!Lesser(n, c.debt[owner][mode][asset])
    IN /\ d \in Aave!States
       /\ d.allowance[asset] = c.allowance[asset] - k
       /\ d.balance[asset] = c.balance[asset] - k
       /\ d.debt[owner][mode][asset] = c.debt[owner][mode][asset] - k

LEMMA AaveRepays ==
    ASSUME NEW c \in Aave!States, NEW asset \in Aave!Assets, NEW n \in 0..Aave!MaxUint,
           NEW mode \in Aave!Modes, NEW owner \in Aave!Owners,
           NEW d \in Aave!Call(c, Aave!PoolRepay(asset, n, mode, owner))
    PROVE  AaveRepaid(c, d, asset, n, mode, owner)
<1>1. d \in Aave!OnRepay(c, Aave!PoolRepay(asset, n, mode, owner))
  BY DEF Aave!Call, Aave!PoolRepay
<1>2. PICK owed, k : owed = c.debt[owner][mode][asset] /\ k = Aave!Lesser(n, owed)
  OBVIOUS
<1>3. /\ ~(k > Aave!Lesser(c.balance[asset], c.allowance[asset]))
      /\ d = [c EXCEPT !.balance[asset] = @ - k, !.allowance[asset] = @ - k,
                       !.debt[owner][mode][asset] = @ - k]
  BY <1>1, <1>2 DEF Aave!OnRepay, Aave!PoolRepay
<1>4. /\ c = AaveRecord(c.price, c.balance, c.allowance, c.supplied, c.debt)
      /\ AaveTyped(c.price, c.balance, c.allowance, c.supplied, c.debt)
  BY AaveShape
<1>5. PICK balance, allowance, one, held, debt :
        /\ balance = [c.balance EXCEPT ![asset] = c.balance[asset] - k]
        /\ allowance = [c.allowance EXCEPT ![asset] = c.allowance[asset] - k]
        /\ one = [c.debt[owner][mode] EXCEPT ![asset] = owed - k]
        /\ held = [c.debt[owner] EXCEPT ![mode] = one]
        /\ debt = [c.debt EXCEPT ![owner] = held]
  OBVIOUS
<1>6. d = AaveRecord(c.price, balance, allowance, c.supplied, debt)
  BY <1>2, <1>3, <1>4, <1>5 DEF AaveRecord
<1>7. /\ c.debt[owner] \in [Aave!Modes -> [Aave!Assets -> Nat]]
      /\ c.debt[owner][mode] \in [Aave!Assets -> Nat]
      /\ owed \in Nat /\ c.balance[asset] \in Nat /\ c.allowance[asset] \in 0..Aave!MaxUint
  BY <1>2, <1>4 DEF AaveTyped, AaveDebts
<1>8. k \in Nat /\ k <= owed /\ k <= c.balance[asset] /\ k <= c.allowance[asset]
  BY <1>2, <1>3, <1>7, AaveWidth DEF Aave!Lesser
<1>9. /\ owed - k \in Nat /\ c.balance[asset] - k \in Nat
      /\ c.allowance[asset] - k \in 0..Aave!MaxUint
  BY <1>7, <1>8, AaveWidth
<1>10. balance \in [Aave!Assets -> Nat] /\ balance[asset] = c.balance[asset] - k
  BY <1>4, <1>5, <1>9, Put DEF AaveTyped
<1>11. allowance \in [Aave!Assets -> 0..Aave!MaxUint] /\ allowance[asset] = c.allowance[asset] - k
  BY <1>4, <1>5, <1>9, Put DEF AaveTyped
<1>12. one \in [Aave!Assets -> Nat] /\ one[asset] = owed - k
  BY <1>5, <1>7, <1>9, Put
<1>13. held \in [Aave!Modes -> [Aave!Assets -> Nat]] /\ held[mode] = one
  BY <1>5, <1>7, <1>12, Put
<1>14. debt \in AaveDebts /\ debt[owner] = held
  BY <1>4, <1>5, <1>13, Put DEF AaveTyped, AaveDebts
<1>15. d \in Aave!States
  BY <1>4, <1>6, <1>10, <1>11, <1>14, AaveBuilt DEF AaveTyped
<1>16. QED
  BY <1>2, <1>6, <1>10, <1>11, <1>12, <1>13, <1>14, <1>15 DEF AaveRepaid, AaveRecord

AaveBorrowed(c, d, asset, n, mode, owner) ==
    /\ d \in Aave!States
    /\ d.price = c.price /\ d.supplied = c.supplied
    /\ d.debt = [c.debt EXCEPT ![owner][mode][asset] = @ + n]

LEMMA AaveBorrows ==
    ASSUME NEW c \in Aave!States, NEW asset \in Aave!Assets, NEW n \in 0..Aave!MaxUint,
           NEW mode \in Aave!Modes, NEW owner \in Aave!Owners,
           NEW d \in Aave!Call(c, Aave!PoolBorrow(asset, n, mode, owner))
    PROVE  AaveBorrowed(c, d, asset, n, mode, owner)
<1>1. d \in Aave!OnBorrow(c, Aave!PoolBorrow(asset, n, mode, owner))
  BY DEF Aave!Call, Aave!PoolBorrow
<1>2. d = [c EXCEPT !.debt[owner][mode][asset] = @ + n, !.balance[asset] = @ + n]
  BY <1>1 DEF Aave!OnBorrow, Aave!PoolBorrow
<1>3. /\ c = AaveRecord(c.price, c.balance, c.allowance, c.supplied, c.debt)
      /\ AaveTyped(c.price, c.balance, c.allowance, c.supplied, c.debt)
  BY AaveShape
<1>4. PICK balance, one, held, debt :
        /\ balance = [c.balance EXCEPT ![asset] = c.balance[asset] + n]
        /\ one = [c.debt[owner][mode] EXCEPT ![asset] = c.debt[owner][mode][asset] + n]
        /\ held = [c.debt[owner] EXCEPT ![mode] = one]
        /\ debt = [c.debt EXCEPT ![owner] = held]
  OBVIOUS
<1>5. d = AaveRecord(c.price, balance, c.allowance, c.supplied, debt)
  BY <1>2, <1>3, <1>4 DEF AaveRecord
<1>6. /\ c.debt[owner] \in [Aave!Modes -> [Aave!Assets -> Nat]]
      /\ c.debt[owner][mode] \in [Aave!Assets -> Nat]
      /\ c.debt[owner][mode][asset] \in Nat /\ c.balance[asset] \in Nat /\ n \in Nat
  BY <1>3, AaveWidth DEF AaveTyped, AaveDebts
<1>7. c.debt[owner][mode][asset] + n \in Nat /\ c.balance[asset] + n \in Nat
  BY <1>6
<1>8. balance \in [Aave!Assets -> Nat]
  BY <1>3, <1>4, <1>7, Put DEF AaveTyped
<1>9. one \in [Aave!Assets -> Nat]
  BY <1>4, <1>6, <1>7, Put
<1>10. held \in [Aave!Modes -> [Aave!Assets -> Nat]]
  BY <1>4, <1>6, <1>9, Put
<1>11. debt \in AaveDebts
  BY <1>3, <1>4, <1>10, Put DEF AaveTyped, AaveDebts
<1>12. d \in Aave!States
  BY <1>3, <1>5, <1>8, <1>11, AaveBuilt DEF AaveTyped
<1>13. debt = [c.debt EXCEPT ![owner][mode][asset] = @ + n]
  BY <1>4
<1>14. QED
  BY <1>5, <1>12, <1>13 DEF AaveBorrowed, AaveRecord

AaveView == [c \in Aave!States |-> 0]

LEMMA AaveMoves ==
    ASSUME NEW c \in Aave!States, NEW d \in Aave!Moves(c)
    PROVE  d \in Aave!States
<1>1. /\ c = AaveRecord(c.price, c.balance, c.allowance, c.supplied, c.debt)
      /\ AaveTyped(c.price, c.balance, c.allowance, c.supplied, c.debt)
  BY AaveShape
<1>2. ASSUME NEW p \in {8, 12}, d = [c EXCEPT !.price["WETH"] = p]
      PROVE  d \in Aave!States
  <2>1. PICK price : price = [c.price EXCEPT !["WETH"] = p]
    OBVIOUS
  <2>2. d = AaveRecord(price, c.balance, c.allowance, c.supplied, c.debt)
    BY <1>1, <1>2, <2>1 DEF AaveRecord
  <2>3. price \in [Aave!Assets -> Nat]
    BY <1>1, <2>1, Put DEF AaveTyped
  <2>4. QED
    BY <1>1, <2>2, <2>3, AaveBuilt DEF AaveTyped
<1>3. CASE d = [c EXCEPT !.debt["wallet"][2]["USDC"] = @ + 1]
  <2>1. PICK one, held, debt :
          /\ one = [c.debt["wallet"][2] EXCEPT !["USDC"] = c.debt["wallet"][2]["USDC"] + 1]
          /\ held = [c.debt["wallet"] EXCEPT ![2] = one]
          /\ debt = [c.debt EXCEPT !["wallet"] = held]
    OBVIOUS
  <2>2. d = AaveRecord(c.price, c.balance, c.allowance, c.supplied, debt)
    BY <1>1, <1>3, <2>1 DEF AaveRecord
  <2>3. "wallet" \in Aave!Owners /\ 2 \in Aave!Modes /\ "USDC" \in Aave!Assets
    BY DEF Aave!Owners, Aave!Modes, Aave!Assets
  <2>4. /\ c.debt["wallet"] \in [Aave!Modes -> [Aave!Assets -> Nat]]
        /\ c.debt["wallet"][2] \in [Aave!Assets -> Nat]
        /\ c.debt["wallet"][2]["USDC"] + 1 \in Nat
    BY <1>1, <2>3 DEF AaveTyped, AaveDebts
  <2>5. one \in [Aave!Assets -> Nat]
    BY <2>1, <2>4, Put
  <2>6. held \in [Aave!Modes -> [Aave!Assets -> Nat]]
    BY <2>1, <2>4, <2>5, Put
  <2>7. debt \in AaveDebts
    BY <1>1, <2>1, <2>6, Put DEF AaveTyped, AaveDebts
  <2>8. QED
    BY <1>1, <2>2, <2>7, AaveBuilt DEF AaveTyped
<1>4. QED
  BY <1>2, <1>3 DEF Aave!Moves

-----------------------------------------------------------------------------
(* The texts of amounts, which every adapter reads with the same functions. *)

Plain == INSTANCE Amounts

\* The number that digits continue, and the sum of what they stand for.
Appended(base, s) == Plain!FoldLeft(LAMBDA acc, digit : 10 * acc + digit, base, s)
Added(s) == Plain!FoldLeft(LAMBDA acc, n : acc + n, 0, s)
Digits(N) == [1..N -> 0..9]

\* The sets of indices of at most one digit.
LEMMA AtMostOne ==
    ASSUME NEW N \in {0, 1}, NEW t \in SUBSET (1..N), t # {}
    PROVE  N = 1 /\ t = 1..1 /\ Plain!Max(t) = 1 /\ t \ {1} = {} /\ 1 \in t
<1>1. CASE N = 0
  <2>1. 1..N = {}
    BY <1>1
  <2>2. QED
    BY <2>1
<1>2. CASE N = 1
  <2>1. 1..N = {1}
    BY <1>2
  <2>2. t = {1} /\ 1..1 = {1}
    BY <1>2, <2>1
  <2>3. \A y \in t : 1 >= y
    BY <2>2
  <2>4. Plain!Max(t) \in t
    BY <2>2, <2>3 DEF Plain!Max
  <2>5. QED
    BY <1>2, <2>2, <2>4
<1>3. QED
  BY <1>1, <1>2

LEMMA OneDigit ==
    ASSUME NEW N \in {0, 1}, NEW s \in Digits(N), NEW base \in Int
    PROVE  Appended(base, s) = IF N = 0 THEN base ELSE 10 * base + s[1]
<1> DEFINE Rec(i) == i = [t \in SUBSET (DOMAIN s) |->
                            IF t = {} THEN base ELSE LET x == Plain!Max(t) IN 10 * i[t \ {x}] + s[x]]
<1>1. DOMAIN s = 1..N
  BY DEF Digits
<1>2. PICK i : i = [t \in SUBSET (1..N) |-> IF t = {} THEN base ELSE 10 * base + s[1]]
  OBVIOUS
<1>3. \A t \in SUBSET (1..N) : t # {} => Plain!Max(t) = 1 /\ t \ {1} = {}
  BY AtMostOne
<1>4. Rec(i)
  <2>1. i[{}] = base
    BY <1>2
  <2>2. QED
    BY <1>1, <1>2, <1>3, <2>1
<1>5. PICK f : Rec(f) /\ Appended(base, s) = f[DOMAIN s]
  BY <1>4 DEF Appended, Plain!FoldLeft, Plain!MapThenFoldSet
<1>6. f[{}] = base
  BY <1>1, <1>5
<1>7. CASE N = 0
  <2>1. 1..N = {}
    BY <1>7
  <2>2. QED
    BY <1>1, <1>5, <1>6, <1>7, <2>1
<1>8. CASE N = 1
  <2>1. PICK t : t = 1..N
    OBVIOUS
  <2>2. t # {} /\ t \in SUBSET (1..N)
    BY <1>8, <2>1
  <2>3. Plain!Max(t) = 1 /\ t \ {1} = {}
    BY <1>3, <2>2
  <2>4. f[t] = 10 * f[{}] + s[1]
    BY <1>1, <1>5, <2>2, <2>3
  <2>5. QED
    BY <1>1, <1>5, <1>6, <1>8, <2>1, <2>4
<1>9. QED
  BY <1>7, <1>8

LEMMA OneTerm ==
    ASSUME NEW N \in {0, 1}, NEW s \in [1..N -> Int]
    PROVE  Added(s) = IF N = 0 THEN 0 ELSE s[1]
<1> DEFINE Rec(i) == i = [t \in SUBSET (DOMAIN s) |->
                            IF t = {} THEN 0 ELSE LET x == Plain!Max(t) IN i[t \ {x}] + s[x]]
<1>1. DOMAIN s = 1..N
  OBVIOUS
<1>2. PICK i : i = [t \in SUBSET (1..N) |-> IF t = {} THEN 0 ELSE 0 + s[1]]
  OBVIOUS
<1>3. \A t \in SUBSET (1..N) : t # {} => Plain!Max(t) = 1 /\ t \ {1} = {}
  BY AtMostOne
<1>4. Rec(i)
  <2>1. i[{}] = 0
    BY <1>2
  <2>2. QED
    BY <1>1, <1>2, <1>3, <2>1
<1>5. PICK f : Rec(f) /\ Added(s) = f[DOMAIN s]
  BY <1>4 DEF Added, Plain!FoldLeft, Plain!MapThenFoldSet
<1>6. f[{}] = 0
  BY <1>1, <1>5
<1>7. CASE N = 0
  <2>1. 1..N = {}
    BY <1>7
  <2>2. QED
    BY <1>1, <1>5, <1>6, <1>7, <2>1
<1>8. CASE N = 1
  <2>1. PICK t : t = 1..N
    OBVIOUS
  <2>2. t # {} /\ t \in SUBSET (1..N)
    BY <1>8, <2>1
  <2>3. Plain!Max(t) = 1 /\ t \ {1} = {}
    BY <1>3, <2>2
  <2>4. f[t] = f[{}] + s[1]
    BY <1>1, <1>5, <2>2, <2>3
  <2>5. s[1] \in Int
    BY <1>8
  <2>6. QED
    BY <1>1, <1>5, <1>6, <1>8, <2>1, <2>4, <2>5
<1>9. QED
  BY <1>7, <1>8

LEMMA ListOfDigits ==
    ASSUME NEW s \in Seq(0..9)
    PROVE  s \in [1..Len(s) -> 0..9]
OBVIOUS

\* A digit in front of the zeros that fill a number up.
LEMMA FilledUp ==
    ASSUME NEW digits \in Seq(0..9), NEW D \in {0, 1}, Len(digits) <= D,
           NEW s, s = digits \o [i \in 1..D - Len(digits) |-> 0]
    PROVE  /\ s \in Digits(D)
           /\ D = 1 => s[1] = IF Len(digits) = 0 THEN 0 ELSE digits[1]
<1>1. PICK N : N = Len(digits) /\ N \in {0, 1}
  OBVIOUS
<1>2. PICK zeros : zeros = [i \in 1..D - N |-> 0]
  OBVIOUS
<1>3. zeros \in Seq(0..9) /\ Len(zeros) = D - N
  BY <1>1, <1>2
<1>4. s \in Seq(0..9) /\ Len(s) = D
  <2>1. s = digits \o zeros
    BY <1>1, <1>2
  <2>2. s \in Seq(0..9) /\ Len(s) = Len(digits) + Len(zeros)
    BY <1>3, <2>1, ConcatProperties
  <2>3. QED
    BY <1>1, <1>3, <2>2
<1>5. ASSUME D = 1
      PROVE  s[1] = IF N = 0 THEN 0 ELSE digits[1]
  <2>1. s = digits \o zeros
    BY <1>1, <1>2
  <2>2. \A i \in 1..Len(digits) + Len(zeros) :
          s[i] = IF i <= Len(digits) THEN digits[i] ELSE zeros[i - Len(digits)]
    BY <1>3, <2>1, ConcatProperties
  <2>3. 1 \in 1..Len(digits) + Len(zeros)
    BY <1>1, <1>3, <1>5
  <2>4. s[1] = IF 1 <= Len(digits) THEN digits[1] ELSE zeros[1 - Len(digits)]
    BY <2>2, <2>3
  <2>5. CASE N = 0
    <3>1. zeros[1] = 0 /\ ~(1 <= Len(digits)) /\ 1 - Len(digits) = 1
      BY <1>1, <1>2, <1>5, <2>5
    <3>2. QED
      BY <2>4, <2>5, <3>1
  <2>6. CASE N = 1
    <3>1. 1 <= Len(digits)
      BY <1>1, <2>6
    <3>2. s[1] = digits[1]
      BY <2>4, <3>1
    <3>3. N # 0
      BY <2>6
    <3>4. QED
      BY <3>2, <3>3, Zenon
  <2>7. QED
    BY <1>1, <2>5, <2>6
<1>6. s \in Digits(D)
  <2>1. s \in [1..Len(s) -> 0..9]
    BY <1>4, ListOfDigits
  <2>2. QED
    BY <1>4, <2>1 DEF Digits
<1>7. QED
  BY <1>1, <1>5, <1>6

\* What the digits after the point are worth, in base units.
Worth(digits, D) == Added([i \in DOMAIN digits |-> digits[i] * 10 ^ (D - i)])

\* What at most one digit after the point is worth.
LEMMA WorthOfOne ==
    ASSUME NEW digits \in Seq(0..9), NEW D \in {0, 1}, Len(digits) <= D
    PROVE  /\ Worth(digits, D) = IF Len(digits) = 0 THEN 0 ELSE digits[1]
           /\ Len(digits) = 1 => digits[1] \in 0..9
<1>1. PICK N : N = Len(digits) /\ N \in {0, 1}
  OBVIOUS
<1>2. DOMAIN digits = 1..N /\ (N = 1 => digits[1] \in 0..9)
  <2>1. digits \in [1..Len(digits) -> 0..9]
    OBVIOUS
  <2>2. digits \in [1..N -> 0..9]
    BY <1>1, <2>1
  <2>3. QED
    BY <2>2
<1>3. Worth(digits, D) = IF N = 0 THEN 0 ELSE digits[1]
  <2>1. PICK w : w = [i \in DOMAIN digits |-> digits[i] * 10 ^ (D - i)]
    OBVIOUS
  <2>2. ASSUME N = 1
        PROVE  w[1] = digits[1]
    <3>1. D = 1 /\ 1 - 1 = 0 /\ 10 ^ 0 = 1 /\ 1 \in DOMAIN digits
      BY <1>1, <1>2, <2>2
    <3>2. QED
      BY <1>2, <2>1, <2>2, <3>1
  <2>3. w \in [1..N -> Int]
    <3>1. CASE N = 0
      <4>1. 1..N = {}
        BY <3>1
      <4>2. QED
        BY <1>2, <2>1, <4>1
    <3>2. CASE N = 1
      <4>1. 1..N = {1}
        BY <3>2
      <4>2. w[1] \in Int
        BY <1>2, <2>2, <3>2
      <4>3. QED
        BY <1>2, <2>1, <4>1, <4>2
    <3>3. QED
      BY <1>1, <3>1, <3>2
  <2>4. Added(w) = IF N = 0 THEN 0 ELSE w[1]
    BY <1>1, <2>3, OneTerm
  <2>5. QED
    BY <1>1, <2>1, <2>2, <2>4 DEF Worth
<1>4. QED
  BY <1>1, <1>2, <1>3

\* A number that is read as a human amount is what it means.
LEMMA NumberMeans ==
    ASSUME NEW whole \in Nat, NEW digits \in Seq(0..9), NEW D \in {0, 1}, Len(digits) <= D
    PROVE  Appended(whole, digits \o [i \in 1..D - Len(digits) |-> 0])
             = whole * 10 ^ D + Worth(digits, D)
<1>1. PICK N : N = Len(digits) /\ N \in {0, 1}
  OBVIOUS
<1>2. N = 1 => digits[1] \in 0..9
  BY <1>1, WorthOfOne
<1>3. Worth(digits, D) = IF N = 0 THEN 0 ELSE digits[1]
  BY <1>1, WorthOfOne
<1>4. PICK s : s = digits \o [i \in 1..D - Len(digits) |-> 0]
  OBVIOUS
<1>5. s \in Digits(D) /\ (D = 1 => s[1] = IF N = 0 THEN 0 ELSE digits[1])
  BY <1>1, <1>4, FilledUp
<1>6. Appended(whole, s) = IF D = 0 THEN whole ELSE 10 * whole + s[1]
  BY <1>5, OneDigit
<1>7. 10 ^ 0 = 1 /\ 10 ^ 1 = 10
  OBVIOUS
<1>8. CASE D = 0
  BY <1>1, <1>3, <1>4, <1>6, <1>7, <1>8
<1>9. CASE D = 1
  BY <1>1, <1>2, <1>3, <1>4, <1>5, <1>6, <1>7, <1>9
<1>10. QED
  BY <1>8, <1>9

LEMMA Parsed ==
    ASSUME NEW t, Plain!IsText(t), NEW D \in {-1, 0, 1}, NEW n, n = Plain!ParseDecimal(t, D), n # Plain!Err
    PROVE  n \in 0..Plain!MaxUint /\ D # -1 /\ n = t.whole * 10 ^ D + Worth(t.digits, D)
<1>1. t.kind = "number" /\ ~(Len(t.digits) > D)
  BY DEF Plain!ParseDecimal
<1>2. PICK whole, digits : whole = t.whole /\ digits = t.digits
  OBVIOUS
<1>3. whole \in Nat /\ digits \in Seq(0..9)
  BY <1>1, <1>2 DEF Plain!IsText, Plain!Absent, Plain!MaxText, Plain!Malformed
<1>4. Len(digits) \in Nat
  BY <1>3
<1>5. D \in {0, 1} /\ Len(digits) <= D
  BY <1>1, <1>2, <1>4
<1>6. PICK zeros : zeros = [i \in 1..D - Len(digits) |-> 0]
  OBVIOUS
<1>7. Appended(whole, digits \o zeros) = whole * 10 ^ D + Worth(digits, D)
  BY <1>3, <1>5, <1>6, NumberMeans
<1>8. n = Plain!Checked(Appended(whole, digits \o zeros))
  BY <1>1, <1>2, <1>6 DEF Plain!ParseDecimal, Appended
<1>9. n \in 0..Plain!MaxUint /\ n = Appended(whole, digits \o zeros)
  BY <1>8 DEF Plain!Checked
<1>10. QED
  BY <1>2, <1>5, <1>7, <1>9

\* What a handler makes of the two fields of a request.
LEMMA Resolved ==
    ASSUME NEW r, Plain!IsText(r.amount), Plain!IsText(r.amount_raw), NEW D \in {-1, 0, 1}, NEW allow,
           NEW n, n = Plain!ResolveAmount(r, D, allow)
    PROVE  /\ n \in 0..Plain!MaxUint \cup {Plain!Err}
           /\ Plain!IsMax(r) /\ n # Plain!Err => n = Plain!MaxUint
           /\ ~Plain!IsMax(r) /\ n # Plain!Err => n = Plain!Meaning(r, D)
<1>1. Plain!MaxUint \in 0..Plain!MaxUint
  BY DEF Plain!MaxUint
<1>2. ASSUME n # Plain!Err, Plain!IsMax(r)
      PROVE  n = Plain!MaxUint
  BY <1>2 DEF Plain!ResolveAmount
<1>3. ASSUME n # Plain!Err, ~Plain!IsMax(r), r.amount = Plain!Absent
      PROVE  n \in 0..Plain!MaxUint /\ n = Plain!Meaning(r, D)
  <2>1. n = Plain!ParseRaw(r.amount_raw)
    BY <1>3 DEF Plain!ResolveAmount
  <2>2. n \in 0..Plain!MaxUint /\ n = r.amount_raw.whole
    BY <1>3, <2>1 DEF Plain!ParseRaw, Plain!Checked
  <2>3. Plain!Meaning(r, D) = r.amount_raw.whole
    BY <1>3 DEF Plain!Meaning
  <2>4. QED
    BY <2>2, <2>3
<1>4. ASSUME n # Plain!Err, ~Plain!IsMax(r), r.amount # Plain!Absent
      PROVE  n \in 0..Plain!MaxUint /\ n = Plain!Meaning(r, D)
  <2>1. n = Plain!ParseDecimal(r.amount, D)
    BY <1>4 DEF Plain!ResolveAmount
  <2>2. n \in 0..Plain!MaxUint /\ n = r.amount.whole * 10 ^ D + Worth(r.amount.digits, D)
    BY <1>4, <2>1, Parsed
  <2>3. Plain!Meaning(r, D) = r.amount.whole * 10 ^ D + Worth(r.amount.digits, D)
    BY <1>4 DEF Plain!Meaning, Worth, Added
  <2>4. QED
    BY <2>2, <2>3
<1>5. QED
  BY <1>1, <1>2, <1>3, <1>4

AaveAppended(base, s) == Aave!FoldLeft(LAMBDA acc, digit : 10 * acc + digit, base, s)

LEMMA AaveAmounts ==
    /\ Aave!MaxUint = Plain!MaxUint /\ Aave!Err = Plain!Err
    /\ \A t : Aave!IsText(t) <=> Plain!IsText(t)
    /\ \A r : Aave!IsMax(r) <=> Plain!IsMax(r)
    /\ \A r, D, allow : Aave!ResolveAmount(r, D, allow) = Plain!ResolveAmount(r, D, allow)
    /\ \A r, D : Aave!Meaning(r, D) = Plain!Meaning(r, D)
<1>1. /\ Aave!MaxUint = Plain!MaxUint /\ Aave!Err = Plain!Err
      /\ Aave!Absent = Plain!Absent /\ Aave!MaxText = Plain!MaxText /\ Aave!Malformed = Plain!Malformed
      /\ \A n : Aave!Checked(n) = Plain!Checked(n)
      /\ \A whole, digits : Aave!Number(whole, digits) = Plain!Number(whole, digits)
  BY DEF Aave!MaxUint, Plain!MaxUint, Aave!Err, Plain!Err, Aave!Absent, Plain!Absent, Aave!MaxText,
         Plain!MaxText, Aave!Malformed, Plain!Malformed, Aave!Checked, Plain!Checked,
         Aave!Number, Plain!Number
<1>2. \A r : Aave!IsMax(r) <=> Plain!IsMax(r)
  BY <1>1 DEF Aave!IsMax, Plain!IsMax
<1>3. \A t : Aave!IsText(t) <=> Plain!IsText(t)
  BY <1>1 DEF Aave!IsText, Plain!IsText
<1>4. \A t, D : Aave!ParseDecimal(t, D) = Plain!ParseDecimal(t, D)
  <2>1. ASSUME NEW base, NEW s
        PROVE  AaveAppended(base, s) = Appended(base, s)
    BY DEF AaveAppended, Appended, Aave!FoldLeft, Plain!FoldLeft,
           Aave!MapThenFoldSet, Plain!MapThenFoldSet, Aave!Max, Plain!Max
  <2>2. ASSUME NEW t, NEW D
        PROVE  Aave!ParseDecimal(t, D) = Plain!ParseDecimal(t, D)
    <3>1. PICK s : s = t.digits \o [i \in 1..D - Len(t.digits) |-> 0]
      OBVIOUS
    <3>2. Aave!ParseDecimal(t, D) = IF t.kind # "number" \/ Len(t.digits) > D THEN Aave!Err
                                    ELSE Aave!Checked(AaveAppended(t.whole, s))
      BY <3>1 DEF Aave!ParseDecimal, AaveAppended
    <3>3. Plain!ParseDecimal(t, D) = IF t.kind # "number" \/ Len(t.digits) > D THEN Plain!Err
                                     ELSE Plain!Checked(Appended(t.whole, s))
      BY <3>1 DEF Plain!ParseDecimal, Appended
    <3>4. QED
      BY <1>1, <2>1, <3>2, <3>3
  <2>3. QED
    BY <2>2
<1>5. \A t : Aave!ParseRaw(t) = Plain!ParseRaw(t)
  BY <1>1 DEF Aave!ParseRaw, Plain!ParseRaw
<1>6. \A r, D, allow : Aave!ResolveAmount(r, D, allow) = Plain!ResolveAmount(r, D, allow)
  BY <1>1, <1>2, <1>4, <1>5 DEF Aave!ResolveAmount, Plain!ResolveAmount
<1>7. \A r, D : Aave!Meaning(r, D) = Plain!Meaning(r, D)
  BY <1>1 DEF Aave!Meaning, Plain!Meaning, Aave!FoldLeft, Plain!FoldLeft,
              Aave!MapThenFoldSet, Plain!MapThenFoldSet, Aave!Max, Plain!Max
<1>8. QED
  BY <1>1, <1>2, <1>3, <1>6, <1>7

CompoundAppended(base, s) == Compound!FoldLeft(LAMBDA acc, digit : 10 * acc + digit, base, s)

LEMMA CompoundAmounts ==
    /\ Compound!MaxUint = Plain!MaxUint /\ Compound!Err = Plain!Err
    /\ \A t : Compound!IsText(t) <=> Plain!IsText(t)
    /\ \A r : Compound!IsMax(r) <=> Plain!IsMax(r)
    /\ \A r, D, allow : Compound!ResolveAmount(r, D, allow) = Plain!ResolveAmount(r, D, allow)
    /\ \A r, D : Compound!Meaning(r, D) = Plain!Meaning(r, D)
<1>1. /\ Compound!MaxUint = Plain!MaxUint /\ Compound!Err = Plain!Err
      /\ Compound!Absent = Plain!Absent /\ Compound!MaxText = Plain!MaxText /\ Compound!Malformed = Plain!Malformed
      /\ \A n : Compound!Checked(n) = Plain!Checked(n)
      /\ \A whole, digits : Compound!Number(whole, digits) = Plain!Number(whole, digits)
  BY DEF Compound!MaxUint, Plain!MaxUint, Compound!Err, Plain!Err, Compound!Absent, Plain!Absent, Compound!MaxText,
         Plain!MaxText, Compound!Malformed, Plain!Malformed, Compound!Checked, Plain!Checked,
         Compound!Number, Plain!Number
<1>2. \A r : Compound!IsMax(r) <=> Plain!IsMax(r)
  BY <1>1 DEF Compound!IsMax, Plain!IsMax
<1>3. \A t : Compound!IsText(t) <=> Plain!IsText(t)
  BY <1>1 DEF Compound!IsText, Plain!IsText
<1>4. \A t, D : Compound!ParseDecimal(t, D) = Plain!ParseDecimal(t, D)
  <2>1. ASSUME NEW base, NEW s
        PROVE  CompoundAppended(base, s) = Appended(base, s)
    BY DEF CompoundAppended, Appended, Compound!FoldLeft, Plain!FoldLeft,
           Compound!MapThenFoldSet, Plain!MapThenFoldSet, Compound!Max, Plain!Max
  <2>2. ASSUME NEW t, NEW D
        PROVE  Compound!ParseDecimal(t, D) = Plain!ParseDecimal(t, D)
    <3>1. PICK s : s = t.digits \o [i \in 1..D - Len(t.digits) |-> 0]
      OBVIOUS
    <3>2. Compound!ParseDecimal(t, D) = IF t.kind # "number" \/ Len(t.digits) > D THEN Compound!Err
                                    ELSE Compound!Checked(CompoundAppended(t.whole, s))
      BY <3>1 DEF Compound!ParseDecimal, CompoundAppended
    <3>3. Plain!ParseDecimal(t, D) = IF t.kind # "number" \/ Len(t.digits) > D THEN Plain!Err
                                     ELSE Plain!Checked(Appended(t.whole, s))
      BY <3>1 DEF Plain!ParseDecimal, Appended
    <3>4. QED
      BY <1>1, <2>1, <3>2, <3>3
  <2>3. QED
    BY <2>2
<1>5. \A t : Compound!ParseRaw(t) = Plain!ParseRaw(t)
  BY <1>1 DEF Compound!ParseRaw, Plain!ParseRaw
<1>6. \A r, D, allow : Compound!ResolveAmount(r, D, allow) = Plain!ResolveAmount(r, D, allow)
  BY <1>1, <1>2, <1>4, <1>5 DEF Compound!ResolveAmount, Plain!ResolveAmount
<1>7. \A r, D : Compound!Meaning(r, D) = Plain!Meaning(r, D)
  BY <1>1 DEF Compound!Meaning, Plain!Meaning, Compound!FoldLeft, Plain!FoldLeft,
              Compound!MapThenFoldSet, Plain!MapThenFoldSet, Compound!Max, Plain!Max
<1>8. QED
  BY <1>1, <1>2, <1>3, <1>6, <1>7

MorphoAppended(base, s) == Morpho!FoldLeft(LAMBDA acc, digit : 10 * acc + digit, base, s)

LEMMA MorphoAmounts ==
    /\ Morpho!MaxUint = Plain!MaxUint /\ Morpho!Err = Plain!Err
    /\ \A t : Morpho!IsText(t) <=> Plain!IsText(t)
    /\ \A r : Morpho!IsMax(r) <=> Plain!IsMax(r)
    /\ \A r, D, allow : Morpho!ResolveAmount(r, D, allow) = Plain!ResolveAmount(r, D, allow)
    /\ \A r, D : Morpho!Meaning(r, D) = Plain!Meaning(r, D)
    /\ \A t, D : Morpho!ParseDecimal(t, D) = Plain!ParseDecimal(t, D)
    /\ Morpho!Absent = Plain!Absent
<1>1. /\ Morpho!MaxUint = Plain!MaxUint /\ Morpho!Err = Plain!Err
      /\ Morpho!Absent = Plain!Absent /\ Morpho!MaxText = Plain!MaxText /\ Morpho!Malformed = Plain!Malformed
      /\ \A n : Morpho!Checked(n) = Plain!Checked(n)
      /\ \A whole, digits : Morpho!Number(whole, digits) = Plain!Number(whole, digits)
  BY DEF Morpho!MaxUint, Plain!MaxUint, Morpho!Err, Plain!Err, Morpho!Absent, Plain!Absent, Morpho!MaxText,
         Plain!MaxText, Morpho!Malformed, Plain!Malformed, Morpho!Checked, Plain!Checked,
         Morpho!Number, Plain!Number
<1>2. \A r : Morpho!IsMax(r) <=> Plain!IsMax(r)
  BY <1>1 DEF Morpho!IsMax, Plain!IsMax
<1>3. \A t : Morpho!IsText(t) <=> Plain!IsText(t)
  BY <1>1 DEF Morpho!IsText, Plain!IsText
<1>4. \A t, D : Morpho!ParseDecimal(t, D) = Plain!ParseDecimal(t, D)
  <2>1. ASSUME NEW base, NEW s
        PROVE  MorphoAppended(base, s) = Appended(base, s)
    BY DEF MorphoAppended, Appended, Morpho!FoldLeft, Plain!FoldLeft,
           Morpho!MapThenFoldSet, Plain!MapThenFoldSet, Morpho!Max, Plain!Max
  <2>2. ASSUME NEW t, NEW D
        PROVE  Morpho!ParseDecimal(t, D) = Plain!ParseDecimal(t, D)
    <3>1. PICK s : s = t.digits \o [i \in 1..D - Len(t.digits) |-> 0]
      OBVIOUS
    <3>2. Morpho!ParseDecimal(t, D) = IF t.kind # "number" \/ Len(t.digits) > D THEN Morpho!Err
                                    ELSE Morpho!Checked(MorphoAppended(t.whole, s))
      BY <3>1 DEF Morpho!ParseDecimal, MorphoAppended
    <3>3. Plain!ParseDecimal(t, D) = IF t.kind # "number" \/ Len(t.digits) > D THEN Plain!Err
                                     ELSE Plain!Checked(Appended(t.whole, s))
      BY <3>1 DEF Plain!ParseDecimal, Appended
    <3>4. QED
      BY <1>1, <2>1, <3>2, <3>3
  <2>3. QED
    BY <2>2
<1>5. \A t : Morpho!ParseRaw(t) = Plain!ParseRaw(t)
  BY <1>1 DEF Morpho!ParseRaw, Plain!ParseRaw
<1>6. \A r, D, allow : Morpho!ResolveAmount(r, D, allow) = Plain!ResolveAmount(r, D, allow)
  BY <1>1, <1>2, <1>4, <1>5 DEF Morpho!ResolveAmount, Plain!ResolveAmount
<1>7. \A r, D : Morpho!Meaning(r, D) = Plain!Meaning(r, D)
  BY <1>1 DEF Morpho!Meaning, Plain!Meaning, Morpho!FoldLeft, Plain!FoldLeft,
              Morpho!MapThenFoldSet, Plain!MapThenFoldSet, Morpho!Max, Plain!Max
<1>8. QED
  BY <1>1, <1>2, <1>3, <1>4, <1>6, <1>7

\* The amount of an Aave request.
LEMMA AaveAmountIs ==
    ASSUME NEW r \in AaveRequests, Aave!Valid(r), r.op \in Aave!Actions, NEW allow,
           NEW n, n = Aave!Amount(r, allow)
    PROVE  /\ n \in 0..Aave!MaxUint \cup {Aave!Err}
           /\ Aave!IsMax(r) /\ n # Aave!Err => n = Aave!MaxUint
           /\ ~Aave!IsMax(r) /\ n # Aave!Err => n = Aave!Meaning(r, Aave!Decimals[r.asset])
<1>1. Aave!IsText(r.amount) /\ Aave!IsText(r.amount_raw)
  BY AaveAssumption DEF Aave!IsRequest
<1>2. r.asset \in Aave!Assets
  BY DEF Aave!Valid
<1>3. PICK D : D = Aave!Decimals[r.asset]
  OBVIOUS
<1>4. D \in {-1, 0, 1}
  BY <1>2, <1>3 DEF Aave!Assets, Aave!Decimals
<1>5. n = Plain!ResolveAmount(r, D, allow) /\ Plain!IsText(r.amount) /\ Plain!IsText(r.amount_raw)
  BY <1>1, <1>3, AaveAmounts DEF Aave!Amount
<1>6. /\ n \in 0..Plain!MaxUint \cup {Plain!Err}
      /\ Plain!IsMax(r) /\ n # Plain!Err => n = Plain!MaxUint
      /\ ~Plain!IsMax(r) /\ n # Plain!Err => n = Plain!Meaning(r, D)
  BY <1>4, <1>5, Resolved
<1>7. QED
  BY <1>3, <1>6, AaveAmounts

\* The amount that takes the place of "max".
LEMMA AaveRaw ==
    ASSUME NEW r \in AaveRequests, NEW n, NEW q, q = Aave!WithAmountRaw(r, n)
    PROVE  /\ q.op = r.op /\ q.asset = r.asset /\ q.on_behalf_of = r.on_behalf_of
           /\ q.interest_rate_mode = r.interest_rate_mode
           /\ Aave!Amount(q, FALSE) = Aave!Checked(n)
<1>1. DOMAIN r = DOMAIN Aave!Blank
  BY AaveAssumption DEF Aave!IsRequest
<1>2. {"op", "asset", "amount", "amount_raw", "interest_rate_mode", "on_behalf_of"} \subseteq DOMAIN r
  BY <1>1 DEF Aave!Blank
<1>3. PICK raw : raw = Aave!Number(n, <<>>)
  OBVIOUS
<1>4. q = [r EXCEPT !.amount = Aave!Absent, !.amount_raw = raw]
  BY <1>3 DEF Aave!WithAmountRaw
<1>5. /\ q.op = r.op /\ q.asset = r.asset /\ q.on_behalf_of = r.on_behalf_of
      /\ q.interest_rate_mode = r.interest_rate_mode
      /\ q.amount = Aave!Absent /\ q.amount_raw = raw
  BY <1>2, <1>4
<1>6. raw.kind = "number" /\ raw.digits = <<>> /\ raw.whole = n
  BY <1>3 DEF Aave!Number
<1>7. Aave!Absent.kind = "absent" /\ Aave!MaxText.kind = "max"
  BY DEF Aave!Absent, Aave!MaxText
<1>8. ~Aave!IsMax(q) /\ raw # Aave!Absent
  BY <1>5, <1>6, <1>7 DEF Aave!IsMax
<1>9. Aave!ParseRaw(raw) = Aave!Checked(n)
  BY <1>6 DEF Aave!ParseRaw
<1>10. Aave!Amount(q, FALSE) = Aave!ParseRaw(raw)
  BY <1>5, <1>8 DEF Aave!Amount, Aave!ResolveAmount
<1>11. QED
  BY <1>5, <1>9, <1>10

\* The batches of the four requests, and where their amount comes from.
AaveBatch(calls, r, n) ==
    \/ r.op = "supply" /\ calls = <<Aave!Approve(r.asset, n), Aave!PoolSupply(r.asset, n, "wallet")>>
    \/ r.op = "withdraw" /\ calls = <<Aave!PoolWithdraw(r.asset, n, r.to)>>
    \/ r.op = "repay" /\ calls = <<Aave!Approve(r.asset, n),
                                   Aave!PoolRepay(r.asset, n, Aave!Mode(r), r.on_behalf_of)>>
    \/ r.op = "borrow" /\ calls = <<Aave!PoolBorrow(r.asset, n, Aave!Mode(r), r.on_behalf_of)>>

AaveOwed(c, r) == c.debt[r.on_behalf_of][Aave!Mode(r)][r.asset]
AaveGuard(b, c, r, n) ==
    Aave!GuardBorrowHealth(Aave!AccountData(Aave!UserAccountData(b, "wallet")), c.price[r.asset], n, r)
AaveReason(r, n, known) ==
    /\ n \in 1..Aave!MaxUint
    /\ ~Aave!IsMax(r) => n = Aave!Meaning(r, Aave!Decimals[r.asset])
    /\ Aave!IsMax(r) /\ r.op = "withdraw" => n = Aave!MaxUint
    /\ Aave!IsMax(r) /\ r.op = "repay" =>
         \E b, c \in known : n = Aave!Lesser(AaveOwed(b, r), c.balance[r.asset])
    /\ r.op = "borrow" => \E b, c \in known : AaveGuard(b, c, r, n)

\* Calls are refused when one of them carries no amount.
LEMMA AaveCalls ==
    ASSUME NEW calls, Aave!Calls(calls).kind = "calls", NEW i \in DOMAIN calls
    PROVE  Aave!Calls(calls).calls = calls /\ calls[i].amount \notin {Aave!Err, 0}
BY DEF Aave!Calls, Aave!Reject

LEMMA AaveBatches ==
    ASSUME NEW q, NEW n
    PROVE  /\ n = Aave!Amount(q, FALSE) =>
                /\ Aave!CompileSupply(q) = <<Aave!Approve(q.asset, n), Aave!PoolSupply(q.asset, n, "wallet")>>
                /\ Aave!CompileRepay(q) = <<Aave!Approve(q.asset, n),
                                            Aave!PoolRepay(q.asset, n, Aave!Mode(q), q.on_behalf_of)>>
                /\ Aave!CompileBorrow(q) = <<Aave!PoolBorrow(q.asset, n, Aave!Mode(q), q.on_behalf_of)>>
           /\ n = Aave!Amount(q, TRUE) =>
                Aave!CompileWithdraw(q) = <<Aave!PoolWithdraw(q.asset, n, q.to)>>
BY DEF Aave!CompileSupply, Aave!CompileWithdraw, Aave!CompileRepay, Aave!CompileBorrow

\* A batch that is compiled carries an amount that is not zero.
LEMMA AaveSized ==
    ASSUME NEW r, NEW calls, NEW n, AaveBatch(calls, r, n), NEW d, d = Aave!Calls(calls), d.kind = "calls",
           n \in 0..Aave!MaxUint \cup {Aave!Err}
    PROVE  n \in 1..Aave!MaxUint /\ d.calls = calls
<1>1. 1 \in DOMAIN calls /\ calls[1].amount = n
  BY DEF AaveBatch, Aave!Approve, Aave!PoolWithdraw, Aave!PoolBorrow
<1>2. d.calls = calls /\ n \notin {Aave!Err, 0}
  BY <1>1, AaveCalls
<1>3. n \in 0..Aave!MaxUint /\ n # 0
  BY <1>2
<1>4. QED
  BY <1>2, <1>3, AaveWidth

LEMMA AaveSupplyCompiled ==
    ASSUME NEW r \in AaveRequests, Aave!Valid(r), r.op = "supply", NEW known, NEW calls,
           AaveRuns!Compiled(calls, r, known)
    PROVE  \E n : AaveBatch(calls, r, n) /\ AaveReason(r, n, known)
<1>1. PICK seen, d, n : /\ d = Aave!Decide(r, seen) /\ d.kind = "calls" /\ calls = d.calls
                        /\ n = Aave!Amount(r, FALSE)
  BY DEF AaveRuns!Compiled, AaveRuns!Decides
<1>2. d = Aave!Calls(Aave!CompileSupply(r))
  BY <1>1 DEF Aave!Decide
<1>3. r.op \in Aave!Actions
  BY DEF Aave!Actions
<1>4. /\ n \in 0..Aave!MaxUint \cup {Aave!Err}
      /\ ~Aave!IsMax(r) /\ n # Aave!Err => n = Aave!Meaning(r, Aave!Decimals[r.asset])
  <2>1. PICK allow : allow = FALSE /\ n = Aave!Amount(r, allow)
    BY <1>1
  <2>2. QED
    BY <1>3, <2>1, AaveAmountIs
<1>5. ~Aave!IsMax(r)
  BY <1>3 DEF Aave!Valid, Aave!ValidAmount, Aave!Amount, Aave!ResolveAmount
<1>6. AaveBatch(Aave!CompileSupply(r), r, n)
  BY <1>1, AaveBatches DEF AaveBatch
<1>7. n \in 1..Aave!MaxUint /\ calls = Aave!CompileSupply(r)
  BY <1>1, <1>2, <1>4, <1>6, AaveSized
<1>8. n # Aave!Err /\ AaveBatch(calls, r, n)
  BY <1>6, <1>7 DEF Aave!Err
<1>9. AaveReason(r, n, known)
  BY <1>4, <1>5, <1>7, <1>8 DEF AaveReason
<1>10. QED
  BY <1>8, <1>9

LEMMA AaveWithdrawCompiled ==
    ASSUME NEW r \in AaveRequests, Aave!Valid(r), r.op = "withdraw", NEW known, NEW calls,
           AaveRuns!Compiled(calls, r, known)
    PROVE  \E n : AaveBatch(calls, r, n) /\ AaveReason(r, n, known)
<1>1. PICK seen, d, n : /\ d = Aave!Decide(r, seen) /\ d.kind = "calls" /\ calls = d.calls
                        /\ n = Aave!Amount(r, TRUE)
  BY DEF AaveRuns!Compiled, AaveRuns!Decides
<1>2. d = Aave!Calls(Aave!CompileWithdraw(r))
  BY <1>1 DEF Aave!Decide
<1>3. r.op \in Aave!Actions
  BY DEF Aave!Actions
<1>4. /\ n \in 0..Aave!MaxUint \cup {Aave!Err}
      /\ Aave!IsMax(r) /\ n # Aave!Err => n = Aave!MaxUint
      /\ ~Aave!IsMax(r) /\ n # Aave!Err => n = Aave!Meaning(r, Aave!Decimals[r.asset])
  <2>1. PICK allow : allow = TRUE /\ n = Aave!Amount(r, allow)
    BY <1>1
  <2>2. QED
    BY <1>3, <2>1, AaveAmountIs
<1>5. AaveBatch(Aave!CompileWithdraw(r), r, n)
  BY <1>1, AaveBatches DEF AaveBatch
<1>6. n \in 1..Aave!MaxUint /\ calls = Aave!CompileWithdraw(r)
  BY <1>1, <1>2, <1>4, <1>5, AaveSized
<1>7. n # Aave!Err /\ AaveBatch(calls, r, n)
  BY <1>5, <1>6 DEF Aave!Err
<1>8. AaveReason(r, n, known)
  BY <1>4, <1>6, <1>7 DEF AaveReason
<1>9. QED
  BY <1>7, <1>8

\* The amount of the request that the handler compiles.
LEMMA AaveWithRaw ==
    ASSUME NEW r \in AaveRequests, r.op \in {"repay", "borrow"}, NEW n \in Int, n # Aave!Err,
           NEW q, q = Aave!WithAmountRaw(r, n), NEW calls,
           \/ r.op = "repay" /\ calls = Aave!CompileRepay(q)
           \/ r.op = "borrow" /\ calls = Aave!CompileBorrow(q),
           NEW d, d = Aave!Calls(calls), d.kind = "calls"
    PROVE  n \in 1..Aave!MaxUint /\ AaveBatch(d.calls, r, n)
<1>1. /\ q.op = r.op /\ q.asset = r.asset /\ q.on_behalf_of = r.on_behalf_of
      /\ q.interest_rate_mode = r.interest_rate_mode
      /\ Aave!Amount(q, FALSE) = Aave!Checked(n)
  BY AaveRaw
<1>2. PICK m : m = Aave!Amount(q, FALSE) /\ m \in 0..Aave!MaxUint \cup {Aave!Err} /\ (m # Aave!Err => m = n)
  BY <1>1 DEF Aave!Checked
<1>3. Aave!Mode(q) = Aave!Mode(r)
  BY <1>1 DEF Aave!Mode
<1>4. AaveBatch(calls, r, m)
  BY <1>1, <1>2, <1>3, AaveBatches DEF AaveBatch
<1>5. m \in 1..Aave!MaxUint /\ d.calls = calls
  BY <1>2, <1>4, AaveSized
<1>6. m = n
  <2>1. m # Aave!Err
    BY <1>5 DEF Aave!Err
  <2>2. QED
    BY <1>2, <2>1
<1>7. QED
  BY <1>4, <1>5, <1>6

LEMMA AaveReadIs ==
    ASSUME NEW c, NEW r
    PROVE  /\ Aave!Read(c, "account", r) = Aave!UserAccountData(c, "wallet")
           /\ Aave!Read(c, "price", r) = c.price[r.asset]
           /\ Aave!Read(c, "debt", r) = AaveOwed(c, r)
           /\ Aave!Read(c, "balance", r) = c.balance[r.asset]
BY DEF Aave!Read, AaveOwed, Aave!Assets

\* The two reads of a handler, each of a chain it may have seen.
LEMMA AaveSeen ==
    ASSUME NEW r, NEW known, NEW seen, NEW kind, AaveRuns!Decides(seen, r, known, kind),
           NEW x, NEW y, Aave!Reads(r) = <<x, y>>
    PROVE  \E b, c \in known : seen[1] = Aave!Read(b, x, r) /\ seen[2] = Aave!Read(c, y, r)
<1>1. Len(seen) = 2 /\ AaveRuns!WasRead(seen, r, known)
  BY DEF AaveRuns!Decides
<1>2. \A i \in 1..2 : \E c \in known : seen[i] = Aave!Read(c, <<x, y>>[i], r)
  BY <1>1 DEF AaveRuns!WasRead
<1>3. 1 \in 1..2 /\ 2 \in 1..2
  OBVIOUS
<1>4. QED
  BY <1>2, <1>3

LEMMA AaveRepayCompiled ==
    ASSUME NEW r \in AaveRequests, Aave!Valid(r), r.op = "repay", NEW known \in SUBSET Aave!States,
           NEW calls, AaveRuns!Compiled(calls, r, known)
    PROVE  \E n : AaveBatch(calls, r, n) /\ AaveReason(r, n, known)
<1>1. PICK seen, d : /\ AaveRuns!Decides(seen, r, known, "calls")
                     /\ d = Aave!Decide(r, seen) /\ d.kind = "calls" /\ calls = d.calls
  BY DEF AaveRuns!Compiled, AaveRuns!Decides
<1>2. r.op \in Aave!Actions /\ r.asset \in Aave!Assets /\ Aave!Mode(r) \in Aave!Modes
      /\ r.on_behalf_of \in Aave!Owners
  BY AaveAssumption DEF Aave!Actions, Aave!Valid, Aave!IsRequest
<1>3. d = Aave!DecideRepay(r, seen)
  BY <1>1 DEF Aave!Decide
<1>4. CASE ~Aave!IsMax(r)
  <2>1. d = Aave!Calls(Aave!CompileRepay(r))
    BY <1>3, <1>4 DEF Aave!DecideRepay
  <2>2. PICK allow, n : allow = FALSE /\ n = Aave!Amount(r, allow)
    OBVIOUS
  <2>3. /\ n \in 0..Aave!MaxUint \cup {Aave!Err}
        /\ ~Aave!IsMax(r) /\ n # Aave!Err => n = Aave!Meaning(r, Aave!Decimals[r.asset])
    BY <1>2, <2>2, AaveAmountIs
  <2>4. AaveBatch(Aave!CompileRepay(r), r, n)
    BY <2>2, AaveBatches DEF AaveBatch
  <2>5. n \in 1..Aave!MaxUint /\ calls = Aave!CompileRepay(r)
    BY <1>1, <2>1, <2>3, <2>4, AaveSized
  <2>6. n # Aave!Err /\ AaveBatch(calls, r, n)
    BY <2>4, <2>5 DEF Aave!Err
  <2>7. AaveReason(r, n, known)
    BY <1>4, <2>3, <2>5, <2>6 DEF AaveReason
  <2>8. QED
    BY <2>6, <2>7
<1>5. CASE Aave!IsMax(r)
  <2>1. PICK n : n = Aave!ResolveRepay(seen[1], seen[2])
    OBVIOUS
  <2>2. n # Aave!Err /\ d = Aave!Calls(Aave!CompileRepay(Aave!WithAmountRaw(r, n)))
    BY <1>1, <1>3, <1>5, <2>1 DEF Aave!DecideRepay, Aave!Reject
  <2>3. Aave!Reads(r) = <<"debt", "balance">>
    BY <1>5 DEF Aave!Reads
  <2>4. PICK b, c \in known : seen[1] = Aave!Read(b, "debt", r) /\ seen[2] = Aave!Read(c, "balance", r)
    BY <1>1, <2>3, AaveSeen
  <2>5. seen[1] = AaveOwed(b, r) /\ seen[2] = c.balance[r.asset]
    BY <2>4, AaveReadIs
  <2>6. seen[1] \in Nat /\ seen[2] \in Nat
    <3>1. b \in Aave!States /\ c \in Aave!States
      OBVIOUS
    <3>2. b.debt \in AaveDebts /\ c.balance \in [Aave!Assets -> Nat]
      BY <3>1, AaveShape DEF AaveTyped
    <3>3. QED
      BY <1>2, <2>5, <3>2 DEF AaveDebts, AaveOwed
  <2>7. n = Aave!Lesser(seen[1], seen[2]) /\ n \in Int
    BY <2>1, <2>2, <2>6 DEF Aave!ResolveRepay, Aave!Lesser
  <2>8. PICK q, batch : q = Aave!WithAmountRaw(r, n) /\ batch = Aave!CompileRepay(q) /\ d = Aave!Calls(batch)
    BY <2>2
  <2>9. n \in 1..Aave!MaxUint /\ AaveBatch(d.calls, r, n)
    BY <1>1, <2>2, <2>7, <2>8, AaveWithRaw
  <2>10. n = Aave!Lesser(AaveOwed(b, r), c.balance[r.asset])
    BY <2>5, <2>7
  <2>11. AaveReason(r, n, known)
    BY <1>5, <2>4, <2>9, <2>10 DEF AaveReason
  <2>12. QED
    BY <1>1, <2>9, <2>11
<1>6. QED
  BY <1>4, <1>5

LEMMA AaveBorrowCompiled ==
    ASSUME NEW r \in AaveRequests, Aave!Valid(r), r.op = "borrow", NEW known \in SUBSET Aave!States,
           NEW calls, AaveRuns!Compiled(calls, r, known)
    PROVE  \E n : AaveBatch(calls, r, n) /\ AaveReason(r, n, known)
<1>1. PICK seen, d : /\ AaveRuns!Decides(seen, r, known, "calls")
                     /\ d = Aave!Decide(r, seen) /\ d.kind = "calls" /\ calls = d.calls
  BY DEF AaveRuns!Compiled, AaveRuns!Decides
<1>2. r.op \in Aave!Actions /\ r.asset \in Aave!Assets
  BY DEF Aave!Actions, Aave!Valid
<1>3. Aave!Reads(r) = <<"account", "price">>
  BY DEF Aave!Reads
<1>4. PICK b, c \in known : seen[1] = Aave!Read(b, "account", r) /\ seen[2] = Aave!Read(c, "price", r)
  BY <1>1, <1>3, AaveSeen
<1>5. PICK account, price : account = Aave!AccountData(Aave!UserAccountData(b, "wallet")) /\ price = c.price[r.asset]
  OBVIOUS
<1>6. d = Aave!DecideBorrow(r, account, price)
  BY <1>1, <1>4, <1>5, AaveReadIs DEF Aave!Decide
<1>7. PICK n : n = Aave!ResolveBorrow(account, price, r)
  OBVIOUS
<1>8. /\ n \notin {Aave!Err, 0} /\ Aave!GuardBorrowHealth(account, price, n, r)
      /\ d = Aave!Calls(Aave!CompileBorrow(Aave!WithAmountRaw(r, n)))
  BY <1>1, <1>6, <1>7 DEF Aave!DecideBorrow, Aave!Reject
<1>9. n \in Int /\ (~Aave!IsMax(r) => n = Aave!Meaning(r, Aave!Decimals[r.asset]))
  <2>1. CASE ~Aave!IsMax(r)
    <3>1. PICK allow : allow = TRUE /\ n = Aave!Amount(r, allow)
      BY <1>7, <2>1 DEF Aave!ResolveBorrow
    <3>2. /\ n \in 0..Aave!MaxUint \cup {Aave!Err}
          /\ ~Aave!IsMax(r) /\ n # Aave!Err => n = Aave!Meaning(r, Aave!Decimals[r.asset])
      BY <1>2, <3>1, AaveAmountIs
    <3>3. n \in 0..Aave!MaxUint
      BY <1>8, <3>2
    <3>4. QED
      BY <1>8, <2>1, <3>2, <3>3
  <2>2. CASE Aave!IsMax(r)
    <3>1. n = Aave!MaxBorrow(account, price, r)
      BY <1>7, <2>2 DEF Aave!ResolveBorrow
    <3>2. PICK least : n = Aave!BaseToTokenFloor(least, price, r.asset)
      BY <1>8, <3>1 DEF Aave!MaxBorrow
    <3>3. PICK m : m = Aave!CheckedMul(least, Aave!Unit(r.asset)) /\ n = Aave!CheckedDiv(m, price)
      BY <3>2 DEF Aave!BaseToTokenFloor
    <3>4. m # Aave!Err /\ price # 0 /\ n = m \div price
      BY <1>8, <3>3 DEF Aave!CheckedDiv
    <3>5. m \in 0..Aave!MaxUint
      BY <3>3, <3>4 DEF Aave!CheckedMul, Aave!Checked
    <3>6. price \in Nat
      <4>1. c \in Aave!States
        OBVIOUS
      <4>2. c.price \in [Aave!Assets -> Nat]
        BY <4>1, AaveShape DEF AaveTyped
      <4>3. QED
        BY <1>2, <1>5, <4>2
    <3>7. n \in Int
      BY <3>4, <3>5, <3>6, AaveWidth
    <3>8. QED
      BY <2>2, <3>7
  <2>3. QED
    BY <2>1, <2>2
<1>10. PICK q, batch : q = Aave!WithAmountRaw(r, n) /\ batch = Aave!CompileBorrow(q) /\ d = Aave!Calls(batch)
  BY <1>8
<1>11. n \in 1..Aave!MaxUint /\ AaveBatch(d.calls, r, n)
  BY <1>1, <1>8, <1>9, <1>10, AaveWithRaw
<1>12. AaveGuard(b, c, r, n)
  BY <1>5, <1>8 DEF AaveGuard
<1>13. AaveReason(r, n, known)
  BY <1>4, <1>9, <1>11, <1>12 DEF AaveReason
<1>14. QED
  BY <1>1, <1>11, <1>13

LEMMA AaveCompiled ==
    ASSUME NEW r \in AaveRequests, Aave!Valid(r), NEW known \in SUBSET Aave!States,
           NEW calls, AaveRuns!Compiled(calls, r, known)
    PROVE  /\ r.op \in Aave!Actions
           /\ \E n : AaveBatch(calls, r, n) /\ AaveReason(r, n, known)
<1>1. PICK seen, d : d = Aave!Decide(r, seen) /\ d.kind = "calls"
  BY DEF AaveRuns!Compiled, AaveRuns!Decides
<1>2. r.op \in Aave!Actions \cup {"position", "balances"}
  BY AaveAssumption DEF Aave!IsRequest
<1>3. r.op \notin {"position", "balances"}
  BY <1>1 DEF Aave!Decide
<1>4. r.op \in {"supply", "withdraw", "repay", "borrow"}
  BY <1>2, <1>3 DEF Aave!Actions
<1>5. QED
  BY <1>2, <1>3, <1>4, AaveSupplyCompiled, AaveWithdrawCompiled, AaveRepayCompiled, AaveBorrowCompiled

\* The effect of a batch that succeeds.
AaveEffects(c, d, r, n) ==
    LET owed == AaveOwed(c, r)
        paid == Aave!Lesser(n, owed)
    IN /\ r.op = "supply" => d.allowance[r.asset] = 0
       /\ r.op = "withdraw" /\ n = Aave!MaxUint => d.supplied["wallet"][r.asset] = 0
       /\ r.op = "repay" => /\ d.allowance[r.asset] = n - paid
                            /\ d.balance[r.asset] = c.balance[r.asset] - paid
                            /\ AaveOwed(d, r) = owed - paid
       /\ r.op = "borrow" => AaveBorrowed(c, d, r.asset, n, Aave!Mode(r), r.on_behalf_of)

\* The terms of a valid request.
LEMMA AaveTerms ==
    ASSUME NEW r \in AaveRequests, Aave!Valid(r), r.op \in Aave!Actions, NEW n \in 1..Aave!MaxUint
    PROVE  /\ r.asset \in Aave!Assets /\ r.on_behalf_of \in Aave!Owners /\ n \in 0..Aave!MaxUint
           /\ r.op \in {"repay", "borrow"} => Aave!Mode(r) \in Aave!Modes
BY AaveAssumption, AaveWidth DEF Aave!Valid, Aave!IsRequest

LEMMA AaveKeeps ==
    ASSUME NEW r \in AaveRequests, Aave!Valid(r), r.op \in Aave!Actions, NEW n \in 1..Aave!MaxUint,
           NEW calls, AaveBatch(calls, r, n)
    PROVE  /\ Len(calls) \in Nat
           /\ \A i \in 1..Len(calls), c \in Aave!States : Aave!Call(c, calls[i]) \subseteq Aave!States
<1>1. /\ r.asset \in Aave!Assets /\ r.on_behalf_of \in Aave!Owners /\ n \in 0..Aave!MaxUint
      /\ r.op \in {"repay", "borrow"} => Aave!Mode(r) \in Aave!Modes
  BY AaveTerms
<1>2. ASSUME NEW c \in Aave!States, NEW d,
             \/ d \in Aave!Call(c, Aave!Approve(r.asset, n))
             \/ d \in Aave!Call(c, Aave!PoolSupply(r.asset, n, "wallet"))
             \/ d \in Aave!Call(c, Aave!PoolWithdraw(r.asset, n, r.to))
      PROVE  d \in Aave!States
  BY <1>1, <1>2, AaveApprove, AaveSupplies, AaveWithdraws DEF AaveApproved, AaveSupplied, AaveWithdrawn
<1>3. ASSUME NEW c \in Aave!States, NEW d, r.op \in {"repay", "borrow"},
             \/ d \in Aave!Call(c, Aave!PoolRepay(r.asset, n, Aave!Mode(r), r.on_behalf_of))
             \/ d \in Aave!Call(c, Aave!PoolBorrow(r.asset, n, Aave!Mode(r), r.on_behalf_of))
      PROVE  d \in Aave!States
  BY <1>1, <1>3, AaveRepays, AaveBorrows DEF AaveRepaid, AaveBorrowed
<1>4. CASE r.op = "supply" /\ calls = <<Aave!Approve(r.asset, n), Aave!PoolSupply(r.asset, n, "wallet")>>
  BY <1>2, <1>4
<1>5. CASE r.op = "withdraw" /\ calls = <<Aave!PoolWithdraw(r.asset, n, r.to)>>
  BY <1>2, <1>5
<1>6. CASE r.op = "repay" /\ calls = <<Aave!Approve(r.asset, n),
                                       Aave!PoolRepay(r.asset, n, Aave!Mode(r), r.on_behalf_of)>>
  BY <1>2, <1>3, <1>6
<1>7. CASE r.op = "borrow" /\ calls = <<Aave!PoolBorrow(r.asset, n, Aave!Mode(r), r.on_behalf_of)>>
  BY <1>3, <1>7
<1>8. QED
  BY <1>4, <1>5, <1>6, <1>7 DEF AaveBatch

LEMMA AaveBatchDoes ==
    ASSUME NEW r \in AaveRequests, Aave!Valid(r), r.op \in Aave!Actions, NEW n \in 1..Aave!MaxUint,
           NEW calls, AaveBatch(calls, r, n),
           NEW c \in Aave!States, NEW d \in AaveRuns!Run(c, calls)
    PROVE  AaveEffects(c, d, r, n)
<1>1. /\ Len(calls) \in Nat
      /\ \A i \in 1..Len(calls), e \in Aave!States : Aave!Call(e, calls[i]) \subseteq Aave!States
  BY AaveKeeps
<1>2. PICK g : AaveRuns!Path(g, c, calls, Aave!States) /\ g[Len(calls)] = d
  <2>1. PICK S : S = Aave!States
    OBVIOUS
  <2>2. \E g : AaveRuns!Path(g, c, calls, S) /\ g[Len(calls)] = d
    BY <1>1, <2>1, AaveRuns!RunPath
  <2>3. QED
    BY <2>1, <2>2
<1>3. /\ g \in [0..Len(calls) -> Aave!States] /\ g[0] = c
      /\ \A i \in 1..Len(calls) : g[i] \in Aave!Call(g[i - 1], calls[i])
  BY <1>2 DEF AaveRuns!Path
<1>4. /\ r.asset \in Aave!Assets /\ r.on_behalf_of \in Aave!Owners /\ n \in 0..Aave!MaxUint
      /\ r.op \in {"repay", "borrow"} => Aave!Mode(r) \in Aave!Modes
  BY AaveTerms
<1>5. ASSUME NEW k1, NEW k2, calls = <<k1, k2>>
      PROVE  \E s \in Aave!States : s \in Aave!Call(c, k1) /\ d \in Aave!Call(s, k2)
  BY <1>2, <1>3, <1>5
<1>6. ASSUME NEW k1, calls = <<k1>>
      PROVE  d \in Aave!Call(c, k1)
  BY <1>2, <1>3, <1>6
<1>7. ASSUME r.op = "supply", calls = <<Aave!Approve(r.asset, n), Aave!PoolSupply(r.asset, n, "wallet")>>
      PROVE  d.allowance[r.asset] = 0
  <2>1. PICK s \in Aave!States : /\ s \in Aave!Call(c, Aave!Approve(r.asset, n))
                                 /\ d \in Aave!Call(s, Aave!PoolSupply(r.asset, n, "wallet"))
    BY <1>5, <1>7
  <2>2. s.allowance[r.asset] = n
    BY <1>4, <2>1, AaveApprove DEF AaveApproved
  <2>3. d.allowance[r.asset] = s.allowance[r.asset] - n
    BY <1>4, <2>1, AaveSupplies DEF AaveSupplied
  <2>4. QED
    BY <1>4, <2>2, <2>3, AaveWidth
<1>8. ASSUME r.op = "withdraw", calls = <<Aave!PoolWithdraw(r.asset, n, r.to)>>, n = Aave!MaxUint
      PROVE  d.supplied["wallet"][r.asset] = 0
  <2>1. d \in Aave!Call(c, Aave!PoolWithdraw(r.asset, n, r.to))
    BY <1>6, <1>8
  <2>2. QED
    BY <1>4, <1>8, <2>1, AaveWithdraws DEF AaveWithdrawn
<1>9. ASSUME r.op = "repay", calls = <<Aave!Approve(r.asset, n),
                                       Aave!PoolRepay(r.asset, n, Aave!Mode(r), r.on_behalf_of)>>
      PROVE  LET paid == Aave!Lesser(n, AaveOwed(c, r))
             IN /\ d.allowance[r.asset] = n - paid
                /\ d.balance[r.asset] = c.balance[r.asset] - paid
                /\ AaveOwed(d, r) = AaveOwed(c, r) - paid
  <2>1. PICK s \in Aave!States :
          /\ s \in Aave!Call(c, Aave!Approve(r.asset, n))
          /\ d \in Aave!Call(s, Aave!PoolRepay(r.asset, n, Aave!Mode(r), r.on_behalf_of))
    BY <1>5, <1>9
  <2>2. s.allowance[r.asset] = n /\ s.balance = c.balance /\ s.debt = c.debt
    BY <1>4, <2>1, AaveApprove DEF AaveApproved
  <2>3. AaveRepaid(s, d, r.asset, n, Aave!Mode(r), r.on_behalf_of)
    BY <1>4, <1>9, <2>1, AaveRepays
  <2>4. QED
    BY <2>2, <2>3 DEF AaveRepaid, AaveOwed
<1>10. ASSUME r.op = "borrow", calls = <<Aave!PoolBorrow(r.asset, n, Aave!Mode(r), r.on_behalf_of)>>
       PROVE  AaveBorrowed(c, d, r.asset, n, Aave!Mode(r), r.on_behalf_of)
  <2>1. d \in Aave!Call(c, Aave!PoolBorrow(r.asset, n, Aave!Mode(r), r.on_behalf_of))
    BY <1>6, <1>10
  <2>2. QED
    BY <1>4, <1>10, <2>1, AaveBorrows
<1>11. QED
  BY <1>7, <1>8, <1>9, <1>10 DEF AaveBatch, AaveEffects

LEMMA AaveClosed ==
    AaveRuns!Closed(Aave!States, AaveView)
<1>1. ASSUME NEW r \in AaveRequests, Aave!Valid(r)
      PROVE  Len(Aave!Reads(r)) \in Nat
  <2>1. Aave!Reads(r) \in {<<"account", "price">>, <<"debt", "balance">>, <<"account">>,
                           <<"WETH", "USDC">>, <<>>}
    BY DEF Aave!Reads
  <2>2. QED
    BY <2>1
<1>2. ASSUME NEW c \in Aave!States, NEW d \in Aave!Moves(c)
      PROVE  d \in Aave!States /\ AaveView[d] = AaveView[c]
  BY <1>2, AaveMoves DEF AaveView
<1>3. ASSUME NEW r \in AaveRequests, NEW calls, Aave!Valid(r),
             AaveRuns!Compiled(calls, r, Aave!States)
      PROVE  /\ Len(calls) \in Nat
             /\ \A i \in 1..Len(calls), c \in Aave!States : Aave!Call(c, calls[i]) \subseteq Aave!States
  <2>1. PICK known : known = Aave!States
    OBVIOUS
  <2>2. r.op \in Aave!Actions /\ \E n : AaveBatch(calls, r, n) /\ AaveReason(r, n, known)
    BY <1>3, <2>1, AaveCompiled
  <2>3. PICK n : AaveBatch(calls, r, n) /\ n \in 1..Aave!MaxUint
    BY <2>2 DEF AaveReason
  <2>4. QED
    BY <1>3, <2>2, <2>3, AaveKeeps
<1>4. QED
  BY <1>1, <1>2, <1>3 DEF AaveRuns!Closed

AaveInv == AaveRuns!HandlerInv(Aave!States, AaveView)

LEMMA AaveStart ==
    ASSUME Init, protocol = "aave"
    PROVE  AaveInv
<1>1. chain \in Aave!States /\ task = [h \in Handlers |-> AaveRuns!Idle]
  BY AaveAssumption, AaveSame DEF Init
<1>2. QED
  BY <1>1, AaveRuns!HandlerStart DEF AaveInv

LEMMA AaveStep ==
    ASSUME AaveInv, OnAave!Next
    PROVE  AaveInv'
<1>1. AaveRuns!Next /\ AaveRuns!HandlerInv(Aave!States, AaveView)
  BY AaveSame DEF AaveInv
<1>2. AaveRuns!HandlerInv(Aave!States, AaveView)'
  BY <1>1, AaveClosed, AaveRuns!HandlerStep
<1>3. QED
  BY <1>2 DEF AaveInv

LEMMA AaveStays ==
    ASSUME AaveInv, UNCHANGED vars
    PROVE  AaveInv'
BY DEF AaveInv, vars, AaveRuns!HandlerInv, AaveRuns!TaskOK, AaveRuns!Known

\* What a batch that takes effect was compiled from, and what it does.
LEMMA AaveTakesEffect ==
    ASSUME AaveInv, OnAave!Next, NEW h \in Handlers, OnAave!Succeeded(h)
    PROVE  /\ task[h].req \in AaveRequests /\ Aave!Valid(task[h].req) /\ task[h].req.op \in Aave!Actions
           /\ chain \in Aave!States
           /\ \E n, known : /\ AaveBatch(task[h].result, task[h].req, n) /\ AaveReason(task[h].req, n, known)
                            /\ AaveEffects(chain, chain', task[h].req, n)
                            /\ OnAave!Fresh(h) => known = {chain}
<1>1. AaveRuns!Next /\ AaveRuns!Succeeded(h) /\ AaveRuns!HandlerInv(Aave!States, AaveView)
  BY AaveSame DEF AaveInv
<1>2. /\ task[h] # AaveRuns!Idle /\ AaveRuns!TaskOK(task[h], Aave!States, AaveView)
      /\ task[h].stage \in AaveRuns!Compiling
      /\ chain' \in AaveRuns!Run(chain, task[h].result)
  BY <1>1, AaveRuns!TakesEffect
<1>3. PICK r, calls, known, c, d :
        /\ r = task[h].req /\ calls = task[h].result /\ c = chain /\ d = chain'
        /\ known = AaveRuns!Known(task[h], Aave!States, AaveView)
  OBVIOUS
<1>4. r \in AaveRequests /\ Aave!Valid(r) /\ AaveRuns!Compiled(calls, r, known)
  BY <1>2, <1>3 DEF AaveRuns!TaskOK, AaveRuns!Compiling
<1>5. known \in SUBSET Aave!States /\ c \in Aave!States /\ d \in AaveRuns!Run(c, calls)
  BY <1>1, <1>2, <1>3 DEF AaveRuns!Known, AaveRuns!HandlerInv
<1>6. r.op \in Aave!Actions /\ \E n : AaveBatch(calls, r, n) /\ AaveReason(r, n, known)
  BY <1>4, <1>5, AaveCompiled
<1>7. PICK n : AaveBatch(calls, r, n) /\ AaveReason(r, n, known)
  BY <1>6
<1>8. n \in 1..Aave!MaxUint
  BY <1>7 DEF AaveReason
<1>9. AaveEffects(c, d, r, n)
  BY <1>4, <1>5, <1>6, <1>7, <1>8, AaveBatchDoes
<1>10. OnAave!Fresh(h) => known = {chain}
  BY <1>1, <1>3, <1>5 DEF OnAave!Fresh, OnAave!Since, AaveRuns!Known, AaveRuns!HandlerInv
<1>11. QED
  BY <1>3, <1>4, <1>5, <1>6, <1>7, <1>9, <1>10

\* What an amount of an asset is worth, in the unit of an account.
AaveWorth(c, amounts, a) == (amounts[a] * c.price[a]) \div Aave!Unit(a)

LEMMA AaveUnits == Aave!Unit("WETH") = 10 /\ Aave!Unit("USDC") = 1
<1>1. 10 ^ 1 = 10 /\ 10 ^ 0 = 1
  OBVIOUS
<1>2. QED
  BY <1>1 DEF Aave!Unit, Aave!Decimals

LEMMA AaveWorthIs ==
    ASSUME NEW c \in Aave!States, NEW amounts \in [Aave!Assets -> Nat], NEW a \in Aave!Assets
    PROVE  AaveWorth(c, amounts, a) \in Nat /\ amounts[a] * c.price[a] \in Nat
<1>1. amounts[a] \in Nat /\ c.price[a] \in Nat
  BY AaveShape DEF AaveTyped
<1>2. PICK x : x = amounts[a] * c.price[a] /\ x \in Nat
  BY <1>1
<1>3. x \div 10 \in Nat /\ x \div 1 \in Nat
  BY <1>2
<1>4. QED
  BY <1>2, <1>3, AaveUnits DEF AaveWorth, Aave!Assets

AaveSummed(c, amounts, s) ==
    Aave!FoldLeft(LAMBDA acc, a : acc + (amounts[a] * c.price[a]) \div Aave!Unit(a), 0, s)

\* The value of an account is that of its two assets.
LEMMA AaveValue ==
    ASSUME NEW c \in Aave!States, NEW amounts \in [Aave!Assets -> Nat]
    PROVE  Aave!InBase(c, amounts) = AaveWorth(c, amounts, "WETH") + AaveWorth(c, amounts, "USDC")
<1>1. PICK s : s = <<"WETH", "USDC">>
  OBVIOUS
<1>2. DOMAIN s = 1..2 /\ s[1] = "WETH" /\ s[2] = "USDC" /\ \A i \in 1..2 : s[i] \in Aave!Assets
  BY <1>1 DEF Aave!Assets
<1> DEFINE step == [i \in 1..2 |-> [b \in Int |-> b + AaveWorth(c, amounts, s[i])]]
           Rec(i) == i = [t \in SUBSET (DOMAIN s) |->
                            IF t = {} THEN 0
                            ELSE LET x == Aave!Max(t)
                                 IN i[t \ {x}] + (amounts[s[x]] * c.price[s[x]]) \div Aave!Unit(s[x])]
<1>3. \A t : Aave!Max(t) = AaveRuns!Largest(t)
  BY DEF Aave!Max, AaveRuns!Largest
<1>4. PICK it : AaveRuns!Folds(it, Int, 0, 2, step)
  <2>1. PICK V, base, N, st : V = Int /\ base = 0 /\ N = 2 /\ st = step
    OBVIOUS
  <2>2. base \in V /\ N \in Nat /\ st \in [1..N -> [V -> V]]
    <3>1. \A i \in 1..2 : AaveWorth(c, amounts, s[i]) \in Int
      BY <1>2, AaveWorthIs
    <3>2. QED
      BY <2>1, <3>1
  <2>3. \E it : AaveRuns!Folds(it, V, base, N, st)
    BY <2>2, AaveRuns!FoldExists
  <2> HIDE DEF step
  <2>4. QED
    BY <2>1, <2>3
<1>5. ASSUME NEW t \in SUBSET (1..2), t # {}
      PROVE  it[t] = it[t \ {Aave!Max(t)}] + AaveWorth(c, amounts, s[Aave!Max(t)])
  <2>1. PICK x \in 1..2 : x = AaveRuns!Largest(t) /\ x = Aave!Max(t)
    BY <1>3, <1>5, AaveRuns!LargestIn
  <2>2. PICK b \in Int : b = it[t \ {x}]
    <3>1. t \ {x} \in SUBSET (1..2)
      OBVIOUS
    <3>2. QED
      BY <1>4, <3>1 DEF AaveRuns!Folds
  <2>3. it[t] = step[x][b]
    <3> HIDE DEF step
    <3>1. QED
      BY <1>4, <1>5, <2>1, <2>2 DEF AaveRuns!Folds
  <2>4. step[x][b] = b + AaveWorth(c, amounts, s[x])
    BY <2>1, <2>2
  <2>5. QED
    BY <2>1, <2>2, <2>3, <2>4
<1>6. Rec(it)
  <2>1. \A t \in SUBSET (1..2) :
          it[t] = IF t = {} THEN 0
                  ELSE LET x == Aave!Max(t)
                       IN it[t \ {x}] + (amounts[s[x]] * c.price[s[x]]) \div Aave!Unit(s[x])
    BY <1>4, <1>5 DEF AaveRuns!Folds, AaveWorth
  <2>2. it = [t \in SUBSET (1..2) |-> it[t]]
    BY <1>4 DEF AaveRuns!Folds
  <2> HIDE DEF step
  <2>3. QED
    BY <1>2, <2>1, <2>2
<1>7. PICK f : Rec(f) /\ Aave!InBase(c, amounts) = f[DOMAIN s]
  <2> HIDE DEF step
  <2>1. PICK f : Rec(f) /\ AaveSummed(c, amounts, s) = f[DOMAIN s]
    BY <1>6 DEF AaveSummed, Aave!FoldLeft, Aave!MapThenFoldSet
  <2>2. Aave!InBase(c, amounts) = AaveSummed(c, amounts, s)
    BY <1>1 DEF Aave!InBase, AaveSummed
  <2>3. QED
    BY <2>1, <2>2
<1>8. \A t \in SUBSET (1..2) :
        f[t] = IF t = {} THEN 0
               ELSE f[t \ {AaveRuns!Largest(t)}] + AaveWorth(c, amounts, s[AaveRuns!Largest(t)])
  BY <1>2, <1>3, <1>7 DEF AaveWorth
<1>9. f[1..2] = AaveWorth(c, amounts, "WETH") + AaveWorth(c, amounts, "USDC")
  <2>1. PICK e, one, two : e = {} /\ one = {1} /\ two = {1, 2}
    OBVIOUS
  <2>2. /\ e \in SUBSET (1..2) /\ one \in SUBSET (1..2) /\ two \in SUBSET (1..2) /\ one # {} /\ two # {}
        /\ two = 1..2 /\ one \ {1} = e /\ two \ {2} = one
    BY <2>1
  <2>3. AaveRuns!Largest(one) = 1 /\ AaveRuns!Largest(two) = 2
    <3>1. 2 \in Nat /\ 2 \in two /\ one \in SUBSET (1..1) /\ 1 \in one
      BY <2>1
    <3>2. QED
      BY <2>2, <3>1, AaveRuns!LargestIs
  <2>4. f[e] = 0
    BY <1>8, <2>1, <2>2
  <2>5. f[one] = f[e] + AaveWorth(c, amounts, s[1])
    BY <1>8, <2>2, <2>3
  <2>6. f[two] = f[one] + AaveWorth(c, amounts, s[2])
    BY <1>8, <2>2, <2>3
  <2>7. AaveWorth(c, amounts, "WETH") \in Int /\ AaveWorth(c, amounts, "USDC") \in Int
    BY AaveWorthIs DEF Aave!Assets
  <2>8. QED
    BY <1>2, <2>2, <2>4, <2>5, <2>6, <2>7
<1>10. QED
  BY <1>2, <1>7, <1>9

\* All that an owner owes of each asset.
AaveDue(c) == [a \in Aave!Assets |-> c.debt["wallet"][1][a] + c.debt["wallet"][2][a]]

LEMMA AaveDueIs ==
    ASSUME NEW c \in Aave!States
    PROVE  /\ AaveDue(c) \in [Aave!Assets -> Nat] /\ c.supplied["wallet"] \in [Aave!Assets -> Nat]
           /\ Aave!DebtBase(c, "wallet") = AaveWorth(c, AaveDue(c), "WETH") + AaveWorth(c, AaveDue(c), "USDC")
           /\ Aave!CollateralBase(c, "wallet") = AaveWorth(c, c.supplied["wallet"], "WETH")
                                                 + AaveWorth(c, c.supplied["wallet"], "USDC")
           /\ Aave!DebtBase(c, "wallet") \in Nat /\ Aave!CollateralBase(c, "wallet") \in Nat
<1>1. "wallet" \in Aave!Owners /\ 1 \in Aave!Modes /\ 2 \in Aave!Modes
      /\ "WETH" \in Aave!Assets /\ "USDC" \in Aave!Assets
  BY DEF Aave!Owners, Aave!Modes, Aave!Assets
<1>2. c.debt \in AaveDebts /\ c.supplied \in [Aave!Owners -> [Aave!Assets -> Nat]]
  BY AaveShape DEF AaveTyped
<1>3. \A a \in Aave!Assets : c.debt["wallet"][1][a] \in Nat /\ c.debt["wallet"][2][a] \in Nat
  <2>1. c.debt["wallet"] \in [Aave!Modes -> [Aave!Assets -> Nat]]
    BY <1>1, <1>2 DEF AaveDebts
  <2>2. c.debt["wallet"][1] \in [Aave!Assets -> Nat] /\ c.debt["wallet"][2] \in [Aave!Assets -> Nat]
    BY <1>1, <2>1
  <2>3. QED
    BY <2>2
<1>4. AaveDue(c) \in [Aave!Assets -> Nat]
  BY <1>3 DEF AaveDue
<1>5. c.supplied["wallet"] \in [Aave!Assets -> Nat]
  BY <1>1, <1>2
<1>6. Aave!DebtBase(c, "wallet") = Aave!InBase(c, AaveDue(c))
  BY DEF Aave!DebtBase, AaveDue
<1>7. Aave!CollateralBase(c, "wallet") = Aave!InBase(c, c.supplied["wallet"])
  BY DEF Aave!CollateralBase
<1>8. \A a \in Aave!Assets : /\ AaveWorth(c, AaveDue(c), a) \in Nat
                             /\ AaveWorth(c, c.supplied["wallet"], a) \in Nat
  BY <1>4, <1>5, AaveWorthIs
<1>9. /\ AaveWorth(c, AaveDue(c), "WETH") \in Nat /\ AaveWorth(c, AaveDue(c), "USDC") \in Nat
      /\ AaveWorth(c, c.supplied["wallet"], "WETH") \in Nat
      /\ AaveWorth(c, c.supplied["wallet"], "USDC") \in Nat
  BY <1>1, <1>8
<1>10. /\ Aave!InBase(c, AaveDue(c)) = AaveWorth(c, AaveDue(c), "WETH") + AaveWorth(c, AaveDue(c), "USDC")
       /\ Aave!InBase(c, c.supplied["wallet"]) = AaveWorth(c, c.supplied["wallet"], "WETH")
                                                 + AaveWorth(c, c.supplied["wallet"], "USDC")
  BY <1>4, <1>5, AaveValue
<1>11. QED
  BY <1>4, <1>5, <1>6, <1>7, <1>9, <1>10

\* Rounding two parts down on their own loses at most one unit.
LEMMA RoundedParts ==
    ASSUME NEW x \in Nat, NEW y \in Nat, NEW u \in {1, 10}
    PROVE  (x + y) \div u <= x \div u + y \div u + 1 /\ x \div u \in Nat /\ y \div u \in Nat
<1>1. CASE u = 1
  BY <1>1
<1>2. CASE u = 10
  BY <1>2
<1>3. QED
  BY <1>1, <1>2

\* What a loan adds to the debt of the wallet: its own worth and a unit at most.
LEMMA AaveOwesMore ==
    ASSUME NEW c \in Aave!States, NEW asset \in Aave!Assets, NEW n \in Nat, NEW mode \in Aave!Modes,
           NEW d, AaveBorrowed(c, d, asset, n, mode, "wallet"),
           NEW requested, requested = (n * c.price[asset]) \div Aave!Unit(asset)
    PROVE  /\ requested \in Nat
           /\ Aave!CollateralBase(d, "wallet") = Aave!CollateralBase(c, "wallet")
           /\ Aave!DebtBase(d, "wallet") <= Aave!DebtBase(c, "wallet") + requested + 1
<1>1. d \in Aave!States /\ d.price = c.price /\ d.supplied = c.supplied
      /\ d.debt = [c.debt EXCEPT !["wallet"][mode][asset] = @ + n]
  BY DEF AaveBorrowed
<1>2. \A amounts, a : AaveWorth(d, amounts, a) = AaveWorth(c, amounts, a)
  BY <1>1 DEF AaveWorth
<1>3. Aave!CollateralBase(d, "wallet") = Aave!CollateralBase(c, "wallet")
  BY <1>1, <1>2, AaveDueIs
<1>4. PICK x, y : x = AaveDue(c) /\ y = AaveDue(d)
  OBVIOUS
<1>5. x \in [Aave!Assets -> Nat] /\ y \in [Aave!Assets -> Nat]
  BY <1>1, <1>4, AaveDueIs
<1>6. \A a \in Aave!Assets : y[a] = IF a = asset THEN x[a] + n ELSE x[a]
  <2>1. "wallet" \in Aave!Owners /\ 1 \in Aave!Modes /\ 2 \in Aave!Modes
    BY DEF Aave!Owners, Aave!Modes
  <2>2. c.debt \in AaveDebts
    BY AaveShape DEF AaveTyped
  <2>3. c.debt["wallet"] \in [Aave!Modes -> [Aave!Assets -> Nat]]
    BY <2>1, <2>2 DEF AaveDebts
  <2>4. c.debt["wallet"][1] \in [Aave!Assets -> Nat] /\ c.debt["wallet"][2] \in [Aave!Assets -> Nat]
    BY <2>1, <2>3
  <2>5. PICK one, held : /\ one = [c.debt["wallet"][mode] EXCEPT ![asset] = c.debt["wallet"][mode][asset] + n]
                         /\ held = [c.debt["wallet"] EXCEPT ![mode] = one]
    OBVIOUS
  <2>6. d.debt = [c.debt EXCEPT !["wallet"] = held]
    BY <1>1, <2>5
  <2>7. d.debt["wallet"] = held
    BY <2>1, <2>2, <2>6 DEF AaveDebts
  <2>8. /\ held[1] = IF mode = 1 THEN one ELSE c.debt["wallet"][1]
        /\ held[2] = IF mode = 2 THEN one ELSE c.debt["wallet"][2]
    BY <2>1, <2>3, <2>5
  <2>9. \A a \in Aave!Assets : one[a] = IF a = asset THEN c.debt["wallet"][mode][a] + n ELSE c.debt["wallet"][mode][a]
    <3>1. c.debt["wallet"][mode] \in [Aave!Assets -> Nat]
      BY <2>3
    <3>2. QED
      BY <2>5, <3>1
  <2>10. ASSUME NEW a \in Aave!Assets
         PROVE  y[a] = IF a = asset THEN x[a] + n ELSE x[a]
    <3>1. /\ x[a] = c.debt["wallet"][1][a] + c.debt["wallet"][2][a]
          /\ y[a] = held[1][a] + held[2][a]
      BY <1>4, <2>7 DEF AaveDue
    <3>2. c.debt["wallet"][1][a] \in Nat /\ c.debt["wallet"][2][a] \in Nat
      BY <2>4
    <3>3. mode = 1 \/ mode = 2
      BY DEF Aave!Modes
    <3>4. CASE mode = 1
      BY <2>8, <2>9, <3>1, <3>2, <3>4
    <3>5. CASE mode = 2
      BY <2>8, <2>9, <3>1, <3>2, <3>5
    <3>6. QED
      BY <3>3, <3>4, <3>5
  <2>11. QED
    BY <2>10
<1>7. PICK u : u = Aave!Unit(asset) /\ u \in {1, 10}
  BY AaveUnits DEF Aave!Assets
<1>8. AaveWorth(d, y, asset) <= AaveWorth(c, x, asset) + requested + 1 /\ requested \in Nat
  <2>1. x[asset] \in Nat /\ c.price[asset] \in Nat /\ n \in Nat
    BY <1>5, AaveShape DEF AaveTyped
  <2>2. PICK p, q, s : p = x[asset] * c.price[asset] /\ q = n * c.price[asset] /\ s = (x[asset] + n) * c.price[asset]
    OBVIOUS
  <2>3. p \in Nat /\ q \in Nat /\ s = p + q
    BY <2>1, <2>2
  <2>4. (p + q) \div u <= p \div u + q \div u + 1 /\ p \div u \in Nat /\ q \div u \in Nat
    BY <1>7, <2>3, RoundedParts
  <2>5. AaveWorth(c, x, asset) = p \div u /\ requested = q \div u
    BY <1>7, <2>2 DEF AaveWorth
  <2>6. AaveWorth(d, y, asset) = s \div u
    <3>1. y[asset] = x[asset] + n
      BY <1>6
    <3>2. QED
      BY <1>1, <1>7, <2>2, <3>1 DEF AaveWorth
  <2>7. QED
    BY <2>3, <2>4, <2>5, <2>6
<1>9. ASSUME NEW a \in Aave!Assets, a # asset
      PROVE  AaveWorth(d, y, a) = AaveWorth(c, x, a)
  <2>1. y[a] = x[a]
    BY <1>6, <1>9
  <2>2. QED
    BY <1>1, <2>1 DEF AaveWorth
<1>10. \A a \in Aave!Assets : AaveWorth(d, y, a) \in Nat /\ AaveWorth(c, x, a) \in Nat
  BY <1>1, <1>5, AaveWorthIs
<1>11. /\ Aave!DebtBase(d, "wallet") = AaveWorth(d, y, "WETH") + AaveWorth(d, y, "USDC")
       /\ Aave!DebtBase(c, "wallet") = AaveWorth(c, x, "WETH") + AaveWorth(c, x, "USDC")
  BY <1>1, <1>4, AaveDueIs
<1>12. "WETH" \in Aave!Assets /\ "USDC" \in Aave!Assets /\ asset \in {"WETH", "USDC"}
  BY DEF Aave!Assets
<1>13. Aave!DebtBase(d, "wallet") <= Aave!DebtBase(c, "wallet") + requested + 1
  <2>1. CASE asset = "WETH"
    <3>1. AaveWorth(d, y, "USDC") = AaveWorth(c, x, "USDC")
      BY <1>9, <1>12, <2>1
    <3>2. QED
      BY <1>8, <1>10, <1>11, <1>12, <2>1, <3>1
  <2>2. CASE asset = "USDC"
    <3>1. AaveWorth(d, y, "WETH") = AaveWorth(c, x, "WETH")
      BY <1>9, <1>12, <2>2
    <3>2. QED
      BY <1>8, <1>10, <1>11, <1>12, <2>2, <3>1
  <2>3. QED
    BY <1>12, <2>1, <2>2
<1>14. QED
  BY <1>3, <1>8, <1>13

\* The arithmetic of the guard: a threshold's part, rounded down twice.
LEMMA RoundedHealth ==
    ASSUME NEW C \in Nat, NEW D \in Nat, NEW min \in Nat, NEW most, NEW p \in Nat, p > 0,
           most = (C * 8) \div 10, (most * 100) \div p >= min, D - 1 <= p
    PROVE  C * 8 * 100 >= min * (D - 1) * 10
<1>1. most \in Nat /\ most * 10 <= C * 8
  OBVIOUS
<1>2. PICK q : q = (most * 100) \div p
  OBVIOUS
<1>3. q \in Int /\ p * q <= most * 100
  BY <1>1, <1>2
<1>4. p * min <= p * q
  BY <1>2, <1>3
<1>5. p * min <= most * 100
  <2>1. p * min \in Int /\ p * q \in Int
    BY <1>3
  <2>2. QED
    BY <1>1, <1>3, <1>4, <2>1
<1>6. min * (D - 1) <= min * p
  OBVIOUS
<1>7. PICK a, b : a = min * (D - 1) /\ b = p * min
  OBVIOUS
<1>8. a \in Int /\ b \in Int /\ a <= b /\ min * p = b
  BY <1>6, <1>7
<1>9. a * 10 <= C * 8 * 100
  BY <1>1, <1>5, <1>7, <1>8
<1>10. QED
  BY <1>7, <1>9

LEMMA AaveMinimum ==
    ASSUME NEW r, r.op = "borrow", Aave!Valid(r)
    PROVE  Aave!MinHealthFactor(r) \in Nat
<1>1. Aave!MinHealthFactor(r) >= 100
  BY DEF Aave!Valid, Aave!Actions, Aave!Wad
<1>2. Aave!MinHealthFactor(r) \in Int
  <2>1. ASSUME NEW t, NEW N
        PROVE  Aave!ParseDecimal(t, N) \in Int
    <3>1. PICK s : s = t.digits \o [i \in 1..N - Len(t.digits) |-> 0]
      OBVIOUS
    <3>2. \/ Aave!ParseDecimal(t, N) = Aave!Err
          \/ Aave!ParseDecimal(t, N) = Aave!Checked(AaveAppended(t.whole, s))
      BY <3>1 DEF Aave!ParseDecimal, AaveAppended
    <3>3. QED
      BY <3>2, AaveWidth DEF Aave!Checked, Aave!Err
  <2>2. QED
    BY <2>1 DEF Aave!MinHealthFactor
<1>3. QED
  BY <1>1, <1>2

\* A loan that passes the guard on the chain it is made on.
LEMMA AaveKeepsHealth ==
    ASSUME NEW c \in Aave!States, NEW d, NEW r, r.op = "borrow", Aave!Valid(r), NEW n \in 1..Aave!MaxUint,
           AaveGuard(c, c, r, n), AaveBorrowed(c, d, r.asset, n, Aave!Mode(r), "wallet")
    PROVE  AaveHealthy(d, Aave!MinHealthFactor(r))
<1>1. r.asset \in Aave!Assets /\ Aave!Mode(r) \in Aave!Modes /\ n \in Nat
  BY AaveWidth DEF Aave!Valid, Aave!Actions
<1>2. PICK C, D, E, min, price, requested :
        /\ C = Aave!CollateralBase(c, "wallet") /\ D = Aave!DebtBase(c, "wallet")
        /\ E = Aave!DebtBase(d, "wallet") /\ min = Aave!MinHealthFactor(r)
        /\ price = c.price[r.asset] /\ requested = (n * price) \div Aave!Unit(r.asset)
  OBVIOUS
<1>3. C \in Nat /\ D \in Nat /\ min \in Nat
  BY <1>2, AaveDueIs, AaveMinimum
<1>4. requested \in Nat /\ E <= D + requested + 1 /\ C = Aave!CollateralBase(d, "wallet")
  BY <1>1, <1>2, AaveOwesMore
<1>5. E \in Nat
  BY <1>2, AaveDueIs DEF AaveBorrowed
<1>6. PICK account : /\ account = Aave!AccountData(Aave!UserAccountData(c, "wallet"))
                     /\ account.collateral = C /\ account.debt = D /\ account.threshold = 8
  <2>1. PICK words : words = Aave!UserAccountData(c, "wallet")
    OBVIOUS
  <2>2. words[1] = C /\ words[2] = D /\ words[4] = 8
    BY <1>2, <2>1 DEF Aave!UserAccountData, Aave!Threshold
  <2>3. PICK account : account = Aave!AccountData(words)
    OBVIOUS
  <2>4. account.collateral = words[1] /\ account.debt = words[2] /\ account.threshold = words[4]
    BY <2>3 DEF Aave!AccountData
  <2>5. QED
    BY <2>1, <2>2, <2>3, <2>4
<1>7. Aave!GuardBorrowHealth(account, price, n, r)
  BY <1>2, <1>6 DEF AaveGuard
<1>8. PICK asked, projected, health :
        /\ asked = Aave!TokenToBase(n, price, r.asset) /\ asked # Aave!Err
        /\ projected = Aave!CheckedAdd(D, asked) /\ projected # Aave!Err
        /\ health = Aave!CheckedMulDiv(Aave!CollateralAtThreshold(account), 100, projected)
        /\ health # Aave!Err /\ health >= min
  BY <1>2, <1>6, <1>7 DEF Aave!GuardBorrowHealth, Aave!Wad
<1>9. asked = requested
  BY <1>2, <1>8 DEF Aave!TokenToBase, Aave!CheckedDiv, Aave!CheckedMul, Aave!Checked
<1>10. projected = D + requested
  BY <1>8, <1>9 DEF Aave!CheckedAdd, Aave!Checked
<1>11. PICK most : most = Aave!CollateralAtThreshold(account)
  OBVIOUS
<1>12. projected # 0 /\ most # Aave!Err /\ health = (most * 100) \div projected
  BY <1>8, <1>11 DEF Aave!CheckedMulDiv, Aave!CheckedDiv, Aave!CheckedMul, Aave!Checked
<1>13. most = (C * 8) \div 10
  BY <1>6, <1>11, <1>12
     DEF Aave!CollateralAtThreshold, Aave!CheckedMulDiv, Aave!CheckedDiv, Aave!CheckedMul, Aave!Checked, Aave!Bps
<1>14. projected \in Nat /\ projected > 0 /\ E - 1 <= projected
  BY <1>3, <1>4, <1>5, <1>10, <1>12
<1>15. (most * 100) \div projected >= min
  BY <1>8, <1>12
<1>16. C * 8 * 100 >= min * (E - 1) * 10
  BY <1>3, <1>5, <1>13, <1>14, <1>15, RoundedHealth
<1>17. QED
  BY <1>2, <1>4, <1>16 DEF AaveHealthy, Aave!Threshold, Aave!Wad, Aave!Bps

\* What the wallet owes and has of the asset of a repayment.
LEMMA AaveHas ==
    ASSUME NEW r \in AaveRequests, Aave!Valid(r), r.op = "repay", NEW c \in Aave!States
    PROVE  AaveOwed(c, r) \in Nat /\ c.balance[r.asset] \in Nat
<1>1. r.asset \in Aave!Assets /\ Aave!Mode(r) \in Aave!Modes /\ r.on_behalf_of \in Aave!Owners
  BY AaveAssumption DEF Aave!Valid, Aave!Actions, Aave!IsRequest
<1>2. c.balance \in [Aave!Assets -> Nat] /\ c.debt \in [Aave!Owners -> [Aave!Modes -> [Aave!Assets -> Nat]]]
  BY AaveShape DEF AaveTyped, AaveDebts
<1>3. QED
  BY <1>1, <1>2 DEF AaveOwed

\* A repayment of all that is owed, as far as the balance reaches.
LEMMA AaveRepaysAll ==
    ASSUME NEW r \in AaveRequests, Aave!Valid(r), r.op = "repay", Aave!IsMax(r), NEW c \in Aave!States,
           NEW d, NEW n, AaveReason(r, n, {c}), AaveEffects(c, d, r, n)
    PROVE  /\ n <= AaveOwed(c, r)
           /\ d.balance[r.asset] = 0 \/ AaveOwed(d, r) = 0
<1>1. PICK owed, balance : /\ owed = AaveOwed(c, r) /\ balance = c.balance[r.asset]
                           /\ owed \in Nat /\ balance \in Nat
  BY AaveHas
<1>2. n = Aave!Lesser(owed, balance)
  BY <1>1 DEF AaveReason
<1>3. n \in Nat /\ n <= owed /\ (n = owed \/ n = balance)
  BY <1>1, <1>2 DEF Aave!Lesser
<1>4. Aave!Lesser(n, owed) = n
  BY <1>1, <1>3 DEF Aave!Lesser
<1>5. d.balance[r.asset] = balance - n /\ AaveOwed(d, r) = owed - n
  BY <1>1, <1>4 DEF AaveEffects
<1>6. QED
  BY <1>1, <1>3, <1>5

\* A batch uses its allowance up, unless it names more than is owed.
LEMMA AaveUsesUp ==
    ASSUME NEW r \in AaveRequests, Aave!Valid(r), NEW c \in Aave!States, NEW d,
           NEW n \in 1..Aave!MaxUint, NEW calls, AaveBatch(calls, r, n), AaveEffects(c, d, r, n),
           NEW i \in DOMAIN calls, calls[i].fn = "approve"
    PROVE  \/ d.allowance[calls[i].token] = 0
           \/ r.op = "repay" /\ calls[i].amount = n /\ n > AaveOwed(c, r)
<1>1. ASSUME NEW k, k.fn # "approve", calls = <<Aave!Approve(r.asset, n), k>>
      PROVE  calls[i].token = r.asset /\ calls[i].amount = n
  <2>1. i = 1
    BY <1>1
  <2>2. calls[i] = Aave!Approve(r.asset, n)
    BY <1>1, <2>1
  <2>3. QED
    BY <2>2 DEF Aave!Approve
<1>2. ASSUME NEW k, k.fn # "approve", calls = <<k>>
      PROVE  FALSE
  BY <1>2
<1>3. CASE r.op = "supply" /\ calls = <<Aave!Approve(r.asset, n), Aave!PoolSupply(r.asset, n, "wallet")>>
  <2>1. Aave!PoolSupply(r.asset, n, "wallet").fn # "approve"
    BY DEF Aave!PoolSupply
  <2>2. QED
    BY <1>1, <1>3, <2>1 DEF AaveEffects
<1>4. CASE r.op = "withdraw" /\ calls = <<Aave!PoolWithdraw(r.asset, n, r.to)>>
  <2>1. Aave!PoolWithdraw(r.asset, n, r.to).fn # "approve"
    BY DEF Aave!PoolWithdraw
  <2>2. QED
    BY <1>2, <1>4, <2>1
<1>5. CASE r.op = "borrow" /\ calls = <<Aave!PoolBorrow(r.asset, n, Aave!Mode(r), r.on_behalf_of)>>
  <2>1. Aave!PoolBorrow(r.asset, n, Aave!Mode(r), r.on_behalf_of).fn # "approve"
    BY DEF Aave!PoolBorrow
  <2>2. QED
    BY <1>2, <1>5, <2>1
<1>6. CASE /\ r.op = "repay"
           /\ calls = <<Aave!Approve(r.asset, n), Aave!PoolRepay(r.asset, n, Aave!Mode(r), r.on_behalf_of)>>
  <2>1. Aave!PoolRepay(r.asset, n, Aave!Mode(r), r.on_behalf_of).fn # "approve"
    BY DEF Aave!PoolRepay
  <2>2. calls[i].token = r.asset /\ calls[i].amount = n
    BY <1>1, <1>6, <2>1
  <2>3. PICK owed : owed = AaveOwed(c, r) /\ owed \in Nat
    BY <1>6, AaveHas
  <2>4. d.allowance[r.asset] = n - Aave!Lesser(n, owed)
    BY <1>6, <2>3 DEF AaveEffects
  <2>5. n \in Nat
    BY AaveWidth
  <2>6. n > owed \/ n - Aave!Lesser(n, owed) = 0
    BY <2>3, <2>5 DEF Aave!Lesser
  <2>7. QED
    BY <1>6, <2>2, <2>3, <2>4, <2>6
<1>7. QED
  BY <1>3, <1>4, <1>5, <1>6 DEF AaveBatch

\* The last call of a batch names the amount.
LEMMA AaveNames ==
    ASSUME NEW r, NEW n, NEW calls, AaveBatch(calls, r, n)
    PROVE  calls[Len(calls)].amount = n
BY DEF AaveBatch, Aave!PoolSupply, Aave!PoolWithdraw, Aave!PoolRepay, Aave!PoolBorrow

-----------------------------------------------------------------------------
(* Compound III. *)

CompoundRecord(reported, price, balance, allowance, base, collateral) ==
    [reported |-> reported, price |-> price, balance |-> balance,
     allowance |-> allowance, base |-> base, collateral |-> collateral]
CometNames == {"usdc", "weth"}
CometTokens == {"USDC", "WETH", "CBETH"}
CompoundTyped(reported, price, balance, allowance, base, collateral) ==
    /\ reported \in [CometNames -> CometTokens \cup {"OTHER"}] /\ price \in [CometTokens -> Nat]
    /\ balance \in [CometTokens -> Nat] /\ allowance \in [CometTokens -> 0..Compound!MaxUint]
    /\ base \in [CometNames -> Int] /\ collateral \in [CometNames -> Nat]

LEMMA CometSets ==
    /\ Compound!Range(Compound!Markets) = CometNames /\ Compound!Tokens = CometTokens
    /\ \A m \in CometNames : Compound!BaseToken[m] \in CometTokens
<1>1. Compound!Range(Compound!Markets) = CometNames
  <2>1. PICK s : s = Compound!Markets
    OBVIOUS
  <2>2. DOMAIN s = {1, 2} /\ s[1] = "usdc" /\ s[2] = "weth"
    BY <2>1 DEF Compound!Markets
  <2>3. QED
    BY <2>1, <2>2 DEF Compound!Range, CometNames
<1>2. Compound!Tokens = CometTokens
  BY DEF Compound!Tokens, Compound!TokenDecimals, CometTokens
<1>3. QED
  BY <1>1, <1>2 DEF Compound!BaseToken, CometNames, CometTokens

LEMMA CompoundShape ==
    ASSUME NEW c \in Compound!States
    PROVE  /\ c = CompoundRecord(c.reported, c.price, c.balance, c.allowance, c.base, c.collateral)
           /\ CompoundTyped(c.reported, c.price, c.balance, c.allowance, c.base, c.collateral)
BY CometSets DEF Compound!States, CompoundRecord, CompoundTyped

LEMMA CompoundBuilt ==
    ASSUME NEW reported, NEW price, NEW balance, NEW allowance, NEW base, NEW collateral,
           CompoundTyped(reported, price, balance, allowance, base, collateral)
    PROVE  CompoundRecord(reported, price, balance, allowance, base, collateral) \in Compound!States
BY CometSets DEF Compound!States, CompoundRecord, CompoundTyped

CompoundApproved(c, d, token, n) ==
    /\ d \in Compound!States
    /\ d.balance = c.balance /\ d.base = c.base /\ d.allowance[token] = n

LEMMA CompoundApprove ==
    ASSUME NEW c \in Compound!States, NEW token \in CometTokens, NEW m, NEW n \in 0..Compound!MaxUint,
           NEW d \in Compound!Call(c, Compound!Approve(token, m, n))
    PROVE  CompoundApproved(c, d, token, n)
<1>1. d = [c EXCEPT !.allowance[token] = n]
  BY DEF Compound!Call, Compound!Approve
<1>2. PICK allowance : allowance = [c.allowance EXCEPT ![token] = n]
  OBVIOUS
<1>3. /\ c = CompoundRecord(c.reported, c.price, c.balance, c.allowance, c.base, c.collateral)
      /\ CompoundTyped(c.reported, c.price, c.balance, c.allowance, c.base, c.collateral)
  BY CompoundShape
<1>4. d = CompoundRecord(c.reported, c.price, c.balance, allowance, c.base, c.collateral)
  BY <1>1, <1>2, <1>3 DEF CompoundRecord
<1>5. allowance \in [CometTokens -> 0..Compound!MaxUint] /\ allowance[token] = n
  BY <1>2, <1>3, Put DEF CompoundTyped
<1>6. d \in Compound!States
  BY <1>3, <1>4, <1>5, CompoundBuilt DEF CompoundTyped
<1>7. QED
  BY <1>4, <1>5, <1>6 DEF CompoundRecord, CompoundApproved

\* Comet takes the greatest number for all that is owed, or all there is.
CometPays(c, m, token, n) ==
    IF token = Compound!BaseToken[m] /\ n = Compound!MaxUint
    THEN Compound!SaturatingSub(-c.base[m], 0) ELSE n
CometGives(c, m, token, n) ==
    IF token = Compound!BaseToken[m] /\ n = Compound!MaxUint
    THEN Compound!SaturatingSub(c.base[m], 0) ELSE n

CompoundSupplied(c, d, m, token, n) ==
    LET k == CometPays(c, m, token, n)
    IN /\ d \in Compound!States
       /\ k <= c.allowance[token]
       /\ d.allowance[token] = c.allowance[token] - k
       /\ token = Compound!BaseToken[m] => d.base[m] = c.base[m] + k

LEMMA CompoundSupplies ==
    ASSUME NEW c \in Compound!States, NEW m \in CometNames, NEW token \in CometTokens,
           NEW n \in 0..Compound!MaxUint,
           NEW d \in Compound!Call(c, Compound!CometSupply(m, token, n))
    PROVE  CompoundSupplied(c, d, m, token, n)
<1>1. d \in Compound!OnSupply(c, Compound!CometSupply(m, token, n))
  BY DEF Compound!Call, Compound!CometSupply
<1>2. PICK k, e, paid :
        /\ k = CometPays(c, m, token, n) /\ e = Compound!BaseToken[m]
        /\ paid = [c EXCEPT !.balance[token] = @ - k, !.allowance[token] = @ - k]
  OBVIOUS
<1>3. /\ ~(k > Compound!Lesser(c.balance[token], c.allowance[token]))
      /\ d = IF token = e THEN [paid EXCEPT !.base[m] = @ + k]
             ELSE [paid EXCEPT !.collateral[m] = @ + k]
  BY <1>1, <1>2 DEF Compound!OnSupply, Compound!CometSupply, CometPays
<1>4. /\ c = CompoundRecord(c.reported, c.price, c.balance, c.allowance, c.base, c.collateral)
      /\ CompoundTyped(c.reported, c.price, c.balance, c.allowance, c.base, c.collateral)
  BY CompoundShape
<1>5. PICK balance, allowance, base, collateral :
        /\ balance = [c.balance EXCEPT ![token] = c.balance[token] - k]
        /\ allowance = [c.allowance EXCEPT ![token] = c.allowance[token] - k]
        /\ base = [c.base EXCEPT ![m] = c.base[m] + k]
        /\ collateral = [c.collateral EXCEPT ![m] = c.collateral[m] + k]
  OBVIOUS
<1>6. paid = CompoundRecord(c.reported, c.price, balance, allowance, c.base, c.collateral)
  BY <1>2, <1>4, <1>5 DEF CompoundRecord
<1>7. /\ token = e => d = CompoundRecord(c.reported, c.price, balance, allowance, base, c.collateral)
      /\ token # e => d = CompoundRecord(c.reported, c.price, balance, allowance, c.base, collateral)
  BY <1>3, <1>5, <1>6 DEF CompoundRecord
<1>8. /\ c.balance[token] \in Nat /\ c.allowance[token] \in 0..Compound!MaxUint
      /\ c.base[m] \in Int /\ c.collateral[m] \in Nat
  BY <1>4 DEF CompoundTyped
<1>9. k \in Nat
  BY <1>2, <1>8, CompoundWidth DEF CometPays, Compound!SaturatingSub
<1>10. k <= c.balance[token] /\ k <= c.allowance[token]
  BY <1>3, <1>8, <1>9, CompoundWidth DEF Compound!Lesser
<1>11. /\ c.balance[token] - k \in Nat /\ c.allowance[token] - k \in 0..Compound!MaxUint
       /\ c.base[m] + k \in Int /\ c.collateral[m] + k \in Nat
  BY <1>8, <1>9, <1>10, CompoundWidth
<1>12. balance \in [CometTokens -> Nat]
  BY <1>4, <1>5, <1>11, Put DEF CompoundTyped
<1>13. allowance \in [CometTokens -> 0..Compound!MaxUint] /\ allowance[token] = c.allowance[token] - k
  BY <1>4, <1>5, <1>11, Put DEF CompoundTyped
<1>14. base \in [CometNames -> Int] /\ base[m] = c.base[m] + k
  BY <1>4, <1>5, <1>11, Put DEF CompoundTyped
<1>15. collateral \in [CometNames -> Nat]
  BY <1>4, <1>5, <1>11, Put DEF CompoundTyped
<1>16. d \in Compound!States
  BY <1>4, <1>7, <1>12, <1>13, <1>14, <1>15, CompoundBuilt DEF CompoundTyped
<1>17. d.allowance = allowance /\ (token = e => d.base = base)
  BY <1>7 DEF CompoundRecord
<1>18. QED
  BY <1>2, <1>10, <1>13, <1>14, <1>16, <1>17 DEF CompoundSupplied

CompoundWithdrawn(c, d, m, token, n) ==
    /\ d \in Compound!States
    /\ token = Compound!BaseToken[m] => d.base[m] = c.base[m] - CometGives(c, m, token, n)

LEMMA CompoundWithdraws ==
    ASSUME NEW c \in Compound!States, NEW m \in CometNames, NEW token \in CometTokens,
           NEW n \in 0..Compound!MaxUint,
           NEW d \in Compound!Call(c, Compound!CometWithdraw(m, token, n))
    PROVE  CompoundWithdrawn(c, d, m, token, n)
<1>1. d \in Compound!OnWithdraw(c, Compound!CometWithdraw(m, token, n))
  BY DEF Compound!Call, Compound!CometWithdraw
<1>2. PICK k, e, received :
        /\ k = CometGives(c, m, token, n) /\ e = Compound!BaseToken[m]
        /\ received = [c EXCEPT !.balance[token] = @ + k]
  OBVIOUS
<1>3. /\ token # e => ~(k > c.collateral[m])
      /\ d = IF token = e THEN [received EXCEPT !.base[m] = @ - k]
             ELSE [received EXCEPT !.collateral[m] = @ - k]
  BY <1>1, <1>2 DEF Compound!OnWithdraw, Compound!CometWithdraw, CometGives
<1>4. /\ c = CompoundRecord(c.reported, c.price, c.balance, c.allowance, c.base, c.collateral)
      /\ CompoundTyped(c.reported, c.price, c.balance, c.allowance, c.base, c.collateral)
  BY CompoundShape
<1>5. PICK balance, base, collateral :
        /\ balance = [c.balance EXCEPT ![token] = c.balance[token] + k]
        /\ base = [c.base EXCEPT ![m] = c.base[m] - k]
        /\ collateral = [c.collateral EXCEPT ![m] = c.collateral[m] - k]
  OBVIOUS
<1>6. received = CompoundRecord(c.reported, c.price, balance, c.allowance, c.base, c.collateral)
  BY <1>2, <1>4, <1>5 DEF CompoundRecord
<1>7. /\ token = e => d = CompoundRecord(c.reported, c.price, balance, c.allowance, base, c.collateral)
      /\ token # e => d = CompoundRecord(c.reported, c.price, balance, c.allowance, c.base, collateral)
  BY <1>3, <1>5, <1>6 DEF CompoundRecord
<1>8. c.balance[token] \in Nat /\ c.base[m] \in Int /\ c.collateral[m] \in Nat
  BY <1>4 DEF CompoundTyped
<1>9. k \in Nat
  BY <1>2, <1>8, CompoundWidth DEF CometGives, Compound!SaturatingSub
<1>10. c.balance[token] + k \in Nat /\ c.base[m] - k \in Int /\ (token # e => c.collateral[m] - k \in Nat)
  BY <1>3, <1>8, <1>9
<1>11. balance \in [CometTokens -> Nat]
  BY <1>4, <1>5, <1>10, Put DEF CompoundTyped
<1>12. base \in [CometNames -> Int] /\ base[m] = c.base[m] - k
  BY <1>4, <1>5, <1>10, Put DEF CompoundTyped
<1>13. token # e => collateral \in [CometNames -> Nat]
  BY <1>4, <1>5, <1>10, Put DEF CompoundTyped
<1>14. d \in Compound!States
  BY <1>4, <1>7, <1>11, <1>12, <1>13, CompoundBuilt DEF CompoundTyped
<1>15. token = e => d.base = base
  BY <1>7 DEF CompoundRecord
<1>16. QED
  BY <1>2, <1>12, <1>14, <1>15 DEF CompoundWithdrawn

\* The market only makes a debt grow: what is supplied stays.
CompoundView == [c \in Compound!States |-> [m \in CometNames |-> Compound!SaturatingSub(c.base[m], 0)]]

LEMMA CompoundMoves ==
    ASSUME NEW c \in Compound!States, NEW d \in Compound!Moves(c)
    PROVE  d \in Compound!States /\ CompoundView[d] = CompoundView[c]
<1>1. /\ c = CompoundRecord(c.reported, c.price, c.balance, c.allowance, c.base, c.collateral)
      /\ CompoundTyped(c.reported, c.price, c.balance, c.allowance, c.base, c.collateral)
  BY CompoundShape
<1>2. ASSUME NEW p \in {7, 12}, d = [c EXCEPT !.price["WETH"] = p]
      PROVE  d \in Compound!States /\ CompoundView[d] = CompoundView[c]
  <2>1. PICK price : price = [c.price EXCEPT !["WETH"] = p]
    OBVIOUS
  <2>2. d = CompoundRecord(c.reported, price, c.balance, c.allowance, c.base, c.collateral)
    BY <1>1, <1>2, <2>1 DEF CompoundRecord
  <2>3. price \in [CometTokens -> Nat]
    BY <1>1, <2>1, Put DEF CompoundTyped
  <2>4. d \in Compound!States
    BY <1>1, <2>2, <2>3, CompoundBuilt DEF CompoundTyped
  <2>5. d.base = c.base
    BY <2>2 DEF CompoundRecord
  <2>6. QED
    BY <2>4, <2>5 DEF CompoundView
<1>3. CASE c.base["usdc"] < 0 /\ d = [c EXCEPT !.base["usdc"] = @ - 1]
  <2>1. PICK base : base = [c.base EXCEPT !["usdc"] = c.base["usdc"] - 1]
    OBVIOUS
  <2>2. d = CompoundRecord(c.reported, c.price, c.balance, c.allowance, base, c.collateral)
    BY <1>1, <1>3, <2>1 DEF CompoundRecord
  <2>3. "usdc" \in CometNames /\ c.base["usdc"] \in Int /\ c.base["usdc"] - 1 \in Int
    BY <1>1 DEF CompoundTyped, CometNames
  <2>4. base \in [CometNames -> Int] /\ base["usdc"] = c.base["usdc"] - 1
        /\ \A m \in CometNames : m # "usdc" => base[m] = c.base[m]
    BY <1>1, <2>1, <2>3, Put DEF CompoundTyped
  <2>5. d \in Compound!States /\ d.base = base
    BY <1>1, <2>2, <2>4, CompoundBuilt DEF CompoundTyped, CompoundRecord
  <2>6. ASSUME NEW m \in CometNames
        PROVE  Compound!SaturatingSub(base[m], 0) = Compound!SaturatingSub(c.base[m], 0)
    BY <1>3, <2>3, <2>4 DEF Compound!SaturatingSub
  <2>7. QED
    BY <2>5, <2>6 DEF CompoundView
<1>4. QED
  BY <1>2, <1>3 DEF Compound!Moves

CompoundAlike(q, r) ==
    q.op = r.op /\ Compound!Market(q) = Compound!Market(r) /\ Compound!Token(q) = Compound!Token(r)

LEMMA CompoundAsset ==
    ASSUME NEW asset, NEW m \in CometNames
    PROVE  /\ Compound!ResolveAsset(asset, m).address \in CometTokens \cup {"none"}
           /\ Compound!ResolveAsset(asset, m).decimals \in {-1, 0, 1}
<1>1. /\ Compound!BaseToken[m] \in CometTokens
      /\ \A t \in CometTokens : Compound!TokenDecimals[t] \in {-1, 0, 1}
  BY CometSets DEF Compound!TokenDecimals, CometTokens
<1>2. CASE asset = "BASE"
  <2>1. PICK token : token = Compound!BaseToken[m] /\ token \in CometTokens
    BY <1>1
  <2>2. Compound!ResolveAsset(asset, m) = [address |-> token, decimals |-> Compound!TokenDecimals[token]]
    BY <1>2, <2>1 DEF Compound!ResolveAsset, Compound!Symbols, Compound!Addresses
  <2>3. QED
    BY <1>1, <2>1, <2>2
<1>3. CASE asset # "BASE" /\ asset \in Compound!Symbols
  <2>1. asset \in CometTokens
    BY <1>3 DEF Compound!Symbols, CometTokens
  <2>2. Compound!ResolveAsset(asset, m) = [address |-> asset, decimals |-> Compound!TokenDecimals[asset]]
    BY <1>3 DEF Compound!ResolveAsset, Compound!Symbols, Compound!Addresses
  <2>3. QED
    BY <1>1, <2>1, <2>2
<1>4. CASE asset # "BASE" /\ asset \notin Compound!Symbols /\ asset \in DOMAIN Compound!Addresses
  <2>1. Compound!ResolveAsset(asset, m) = [address |-> Compound!Addresses[asset], decimals |-> Compound!Err]
    BY <1>4 DEF Compound!ResolveAsset
  <2>2. Compound!Addresses[asset] \in CometTokens
    BY <1>4 DEF Compound!Addresses, CometTokens
  <2>3. QED
    BY <2>1, <2>2 DEF Compound!Err
<1>5. CASE asset # "BASE" /\ asset \notin Compound!Symbols /\ asset \notin DOMAIN Compound!Addresses
  <2>1. Compound!ResolveAsset(asset, m) = [address |-> "none", decimals |-> Compound!Err]
    BY <1>5 DEF Compound!ResolveAsset
  <2>2. QED
    BY <2>1 DEF Compound!Err
<1>6. QED
  BY <1>2, <1>3, <1>4, <1>5

\* The terms of a valid request.
LEMMA CompoundTerms ==
    ASSUME NEW r \in CompoundRequests, Compound!Valid(r), r.op \in Compound!Actions
    PROVE  /\ Compound!Market(r) \in CometNames /\ Compound!Token(r) \in CometTokens
           /\ Compound!BaseToken[Compound!Market(r)] \in CometTokens
           /\ r.op \in {"repay", "borrow"} => Compound!Token(r) = Compound!BaseToken[Compound!Market(r)]
           /\ Compound!AmountDecimals(r) \in {-1, 0, 1}
           /\ Compound!IsText(r.amount) /\ Compound!IsText(r.amount_raw)
<1>1. r.op # "markets"
  BY DEF Compound!Actions
<1>2. Compound!Market(r) \in CometNames
  BY <1>1, CometSets DEF Compound!Valid, Compound!ValidMarket
<1>3. Compound!BaseToken[Compound!Market(r)] \in CometTokens
  BY <1>2, CometSets
<1>4. r.op \in {"repay", "borrow"} => Compound!Token(r) = Compound!BaseToken[Compound!Market(r)]
  BY DEF Compound!Valid, Compound!IsBaseAsset
<1>5. /\ Compound!Token(r) \in CometTokens \cup {"none"}
      /\ Compound!ResolveAsset(r.asset, Compound!Market(r)).decimals \in {-1, 0, 1}
  BY <1>2, CompoundAsset DEF Compound!Token
<1>6. Compound!Token(r) \in CometTokens
  <2>1. r.op \notin {"repay", "borrow"} => Compound!Token(r) # "none"
    BY DEF Compound!Valid
  <2>2. QED
    BY <1>3, <1>4, <1>5, <2>1
<1>7. Compound!AmountDecimals(r) \in {-1, 0, 1}
  <2>1. \A t \in CometTokens : Compound!TokenDecimals[t] \in {-1, 0, 1}
    BY DEF Compound!TokenDecimals, CometTokens
  <2>2. QED
    BY <1>3, <1>5, <2>1 DEF Compound!AmountDecimals
<1>8. Compound!IsText(r.amount) /\ Compound!IsText(r.amount_raw)
  BY CompoundAssumption DEF Compound!IsRequest
<1>9. QED
  BY <1>2, <1>3, <1>4, <1>6, <1>7, <1>8

LEMMA CompoundAmountIs ==
    ASSUME NEW r \in CompoundRequests, Compound!Valid(r), r.op \in Compound!Actions, NEW allow,
           NEW n, n = Compound!Amount(r, allow)
    PROVE  /\ n \in 0..Compound!MaxUint \cup {Compound!Err}
           /\ ~Compound!IsMax(r) /\ n # Compound!Err => n = Compound!Meaning(r, Compound!AmountDecimals(r))
<1>1. PICK D : D = Compound!AmountDecimals(r) /\ D \in {-1, 0, 1}
  BY CompoundTerms
<1>2. n = Plain!ResolveAmount(r, D, allow) /\ Plain!IsText(r.amount) /\ Plain!IsText(r.amount_raw)
  BY <1>1, CompoundTerms, CompoundAmounts DEF Compound!Amount
<1>3. /\ n \in 0..Plain!MaxUint \cup {Plain!Err}
      /\ ~Plain!IsMax(r) /\ n # Plain!Err => n = Plain!Meaning(r, D)
  BY <1>1, <1>2, Resolved
<1>4. QED
  BY <1>1, <1>3, CompoundAmounts

\* The amount that takes the place of "max".
LEMMA CompoundRaw ==
    ASSUME NEW r \in CompoundRequests, NEW n, NEW q, q = Compound!WithAmountRaw(r, n)
    PROVE  CompoundAlike(q, r) /\ Compound!Amount(q, FALSE) = Compound!Checked(n)
<1>1. DOMAIN r = DOMAIN Compound!Blank
  BY CompoundAssumption DEF Compound!IsRequest
<1>2. "op" \in DOMAIN r /\ "asset" \in DOMAIN r /\ "market" \in DOMAIN r
      /\ "amount" \in DOMAIN r /\ "amount_raw" \in DOMAIN r
  BY <1>1, Zenon DEF Compound!Blank
<1>3. PICK raw : raw = Compound!Number(n, <<>>)
  OBVIOUS
<1>4. q = [r EXCEPT !.amount = Compound!Absent, !.amount_raw = raw]
  BY <1>3 DEF Compound!WithAmountRaw
<1>5. /\ q.op = r.op /\ q.asset = r.asset /\ q.market = r.market
      /\ q.amount = Compound!Absent /\ q.amount_raw = raw
  BY <1>2, <1>4
<1>6. Compound!Market(q) = Compound!Market(r)
  BY <1>5, Zenon DEF Compound!Market
<1>7. CompoundAlike(q, r)
  BY <1>5, <1>6 DEF CompoundAlike, Compound!Token
<1>8. raw.kind = "number" /\ raw.digits = <<>> /\ raw.whole = n
  BY <1>3 DEF Compound!Number
<1>9. Compound!Absent.kind = "absent" /\ Compound!MaxText.kind = "max"
  BY DEF Compound!Absent, Compound!MaxText
<1>10. ~Compound!IsMax(q) /\ raw # Compound!Absent
  BY <1>5, <1>8, <1>9 DEF Compound!IsMax
<1>11. Compound!ParseRaw(raw) = Compound!Checked(n)
  BY <1>8 DEF Compound!ParseRaw
<1>12. Compound!Amount(q, FALSE) = Compound!ParseRaw(raw)
  BY <1>5, <1>10 DEF Compound!Amount, Compound!ResolveAmount
<1>13. QED
  BY <1>7, <1>11, <1>12

\* The batches of the four requests, and where their amount comes from.
CompoundBatch(calls, r, n) ==
    LET m == Compound!Market(r)
        token == Compound!Token(r)
    IN \/ r.op \in {"supply", "repay"}
          /\ calls = <<Compound!Approve(token, m, n), Compound!CometSupply(m, token, n)>>
       \/ r.op \in {"withdraw", "borrow"} /\ calls = <<Compound!CometWithdraw(m, token, n)>>

CometOwed(c, r) == Compound!SaturatingSub(-c.base[Compound!Market(r)], 0)
CometHeld(c, r) == Compound!SaturatingSub(c.base[Compound!Market(r)], 0)
CompoundReason(r, n, known) ==
    /\ n \in 0..Compound!MaxUint
    /\ ~Compound!IsMax(r) => n = Compound!Meaning(r, Compound!AmountDecimals(r))
    /\ Compound!IsMax(r) /\ r.op = "repay" =>
         \E b, c \in known :
            /\ CometOwed(b, r) # 0
            /\ n = Compound!Lesser(CometOwed(b, r), c.balance[Compound!BaseToken[Compound!Market(r)]])
    /\ Compound!IsMax(r) /\ r.op = "withdraw" /\ Compound!IsBaseAsset(r) =>
         \E c \in known : n # 0 /\ n = CometHeld(c, r)

LEMMA CompoundReadIs ==
    ASSUME NEW c, NEW r
    PROVE  /\ Compound!Read(c, "base_supply", r) = CometHeld(c, r)
           /\ Compound!Read(c, "base_borrow", r) = CometOwed(c, r)
           /\ r.op = "repay" =>
                Compound!Read(c, "wallet_balance", r) = c.balance[Compound!BaseToken[Compound!Market(r)]]
BY DEF Compound!Read, CometHeld, CometOwed

LEMMA CompoundCompiles ==
    ASSUME NEW r \in CompoundRequests, Compound!Valid(r), r.op \in Compound!Actions,
           NEW q, CompoundAlike(q, r), NEW n, n = Compound!Amount(q, FALSE)
    PROVE  CompoundBatch(Compound!Compile(q), r, n)
<1>1. r.op \in {"repay", "borrow"} => Compound!Token(r) = Compound!BaseToken[Compound!Market(r)]
  BY CompoundTerms
<1>2. PICK m, token, base : /\ m = Compound!Market(r) /\ token = Compound!Token(r)
                            /\ base = Compound!BaseToken[Compound!Market(r)]
  OBVIOUS
<1>3. Compound!Market(q) = m /\ Compound!Token(q) = token /\ Compound!BaseToken[Compound!Market(q)] = base /\ q.op = r.op
  BY <1>2 DEF CompoundAlike
<1>4. /\ Compound!CompileSupply(q) = <<Compound!Approve(token, m, n), Compound!CometSupply(m, token, n)>>
      /\ Compound!CompileWithdraw(q) = <<Compound!CometWithdraw(m, token, n)>>
      /\ Compound!CompileRepay(q) = <<Compound!Approve(base, m, n), Compound!CometSupply(m, base, n)>>
      /\ Compound!CompileBorrow(q) = <<Compound!CometWithdraw(m, base, n)>>
  BY <1>3 DEF Compound!CompileSupply, Compound!CompileWithdraw, Compound!CompileRepay, Compound!CompileBorrow
<1>5. CASE r.op = "supply"
  BY <1>2, <1>3, <1>4, <1>5 DEF Compound!Compile, CompoundBatch
<1>6. CASE r.op = "withdraw"
  BY <1>2, <1>3, <1>4, <1>6 DEF Compound!Compile, CompoundBatch
<1>7. CASE r.op = "repay"
  BY <1>1, <1>2, <1>3, <1>4, <1>7 DEF Compound!Compile, CompoundBatch
<1>8. CASE r.op = "borrow"
  BY <1>1, <1>2, <1>3, <1>4, <1>8 DEF Compound!Compile, CompoundBatch
<1>9. QED
  BY <1>5, <1>6, <1>7, <1>8 DEF Compound!Actions

\* Calls are refused when one of them carries no amount.
LEMMA CompoundSized ==
    ASSUME NEW r, NEW calls, NEW n, CompoundBatch(calls, r, n), NEW d, d = Compound!Calls(calls), d.kind = "calls",
           n \in 0..Compound!MaxUint \cup {Compound!Err}
    PROVE  n \in 0..Compound!MaxUint /\ d.calls = calls
<1>1. 1 \in DOMAIN calls /\ calls[1].amount = n
  BY DEF CompoundBatch, Compound!Approve, Compound!CometWithdraw
<1>2. d.calls = calls /\ n # Compound!Err
  BY <1>1 DEF Compound!Calls
<1>3. QED
  BY <1>2

LEMMA AfterTheFirst ==
    ASSUME NEW V, NEW s \in Seq(V), Len(s) >= 2, 0 \notin Compound!Range(Tail(s))
    PROVE  s[2] # 0
<1>1. PICK t : t = Tail(s)
  OBVIOUS
<1>2. 1 \in DOMAIN t /\ t[1] = s[2]
  BY <1>1
<1>3. QED
  BY <1>1, <1>2 DEF Compound!Range

LEMMA CompoundCompiled ==
    ASSUME NEW r \in CompoundRequests, Compound!Valid(r), NEW known \in SUBSET Compound!States,
           NEW calls, CompoundRuns!Compiled(calls, r, known)
    PROVE  /\ r.op \in Compound!Actions
           /\ \E n : CompoundBatch(calls, r, n) /\ CompoundReason(r, n, known)
<1>1. PICK seen, d : /\ CompoundRuns!Decides(seen, r, known, "calls")
                     /\ d = Compound!Decide(r, seen) /\ d.kind = "calls" /\ calls = d.calls
  BY DEF CompoundRuns!Compiled, CompoundRuns!Decides
<1>2. r.op \in Compound!Actions
  <2>1. CASE r.op = "markets"
    <3>1. d = Compound!MarketsAnswer(r, seen[1])
      BY <1>1, <2>1 DEF Compound!Decide, Compound!Actions
    <3>2. QED
      BY <1>1, <3>1 DEF Compound!MarketsAnswer
  <2>2. CASE r.op \notin Compound!Actions /\ r.op # "markets"
    <3>1. d = Compound!DecideQuery(r, seen)
      BY <1>1, <2>2 DEF Compound!Decide
    <3>2. d.kind \in {"rejected", "answer"}
      BY <3>1 DEF Compound!DecideQuery
    <3>3. QED
      BY <1>1, <3>2
  <2>3. QED
    BY <2>1, <2>2
<1>3. d = Compound!DecideAction(r, seen)
  BY <1>1, <1>2 DEF Compound!Decide, Compound!Actions
<1>4. PICK taken : taken = Compound!MaxAmount(r, seen)
  OBVIOUS
<1>5. /\ ~(Compound!IsMax(r) /\ taken = Compound!Err)
      /\ d = Compound!Calls(Compound!Compile(IF Compound!IsMax(r) THEN Compound!WithAmountRaw(r, taken) ELSE r))
  BY <1>1, <1>3, <1>4 DEF Compound!DecideAction
<1>6. CASE ~Compound!IsMax(r)
  <2>1. PICK allow, n : allow = FALSE /\ n = Compound!Amount(r, allow)
    OBVIOUS
  <2>2. /\ n \in 0..Compound!MaxUint \cup {Compound!Err}
        /\ ~Compound!IsMax(r) /\ n # Compound!Err => n = Compound!Meaning(r, Compound!AmountDecimals(r))
    BY <1>2, <2>1, CompoundAmountIs
  <2>3. PICK batch : batch = Compound!Compile(r) /\ d = Compound!Calls(batch)
    BY <1>5, <1>6
  <2>4. CompoundAlike(r, r) /\ n = Compound!Amount(r, FALSE)
    BY <2>1 DEF CompoundAlike
  <2>5. CompoundBatch(batch, r, n)
    BY <1>2, <2>3, <2>4, CompoundCompiles
  <2>6. n \in 0..Compound!MaxUint /\ d.calls = batch
    BY <1>1, <2>2, <2>3, <2>5, CompoundSized
  <2>7. n # Compound!Err
    BY <2>6 DEF Compound!Err
  <2>8. CompoundReason(r, n, known)
    BY <1>6, <2>2, <2>6, <2>7 DEF CompoundReason
  <2>9. QED
    BY <1>1, <1>2, <2>5, <2>6, <2>8
<1>7. CASE Compound!IsMax(r)
  <2>1. PICK q, batch : q = Compound!WithAmountRaw(r, taken) /\ batch = Compound!Compile(q) /\ d = Compound!Calls(batch)
    BY <1>5, <1>7
  <2>2. CompoundAlike(q, r) /\ Compound!Amount(q, FALSE) = Compound!Checked(taken)
    BY <2>1, CompoundRaw
  <2>3. PICK n : n = Compound!Amount(q, FALSE) /\ n \in 0..Compound!MaxUint \cup {Compound!Err}
                 /\ (n # Compound!Err => n = taken)
    BY <2>2 DEF Compound!Checked
  <2>4. CompoundBatch(batch, r, n)
    BY <1>2, <2>1, <2>2, <2>3, CompoundCompiles
  <2>5. n \in 0..Compound!MaxUint /\ d.calls = batch
    BY <1>1, <2>1, <2>3, <2>4, CompoundSized
  <2>6. n = taken
    <3>1. n # Compound!Err
      BY <2>5 DEF Compound!Err
    <3>2. QED
      BY <2>3, <3>1
  <2>7. taken # Compound!Err /\ 0 \notin Compound!Range(Tail(seen))
        /\ taken = IF r.op = "repay" THEN Compound!Lesser(seen[2], seen[3]) ELSE seen[2]
    BY <1>4, <1>5, <1>7 DEF Compound!MaxAmount
  <2>8. PICK V : seen \in Seq(V)
    BY <1>1 DEF CompoundRuns!Decides, CompoundRuns!IsList
  <2>9. /\ Len(seen) = Len(Compound!Reads(r))
        /\ \A i \in 1..Len(seen) : \E c \in known : seen[i] = Compound!Read(c, Compound!Reads(r)[i], r)
    BY <1>1 DEF CompoundRuns!Decides, CompoundRuns!WasRead
  <2>10. ASSUME r.op = "repay"
         PROVE  \E b, c \in known :
                   /\ CometOwed(b, r) # 0
                   /\ n = Compound!Lesser(CometOwed(b, r), c.balance[Compound!BaseToken[Compound!Market(r)]])
    <3>1. Compound!Reads(r) = <<"base_token", "base_borrow", "wallet_balance">>
      BY <1>7, <2>10 DEF Compound!Reads, Compound!ResolveRepayReads
    <3>2. Len(seen) = 3 /\ 2 \in 1..Len(seen) /\ 3 \in 1..Len(seen)
      BY <2>9, <3>1
    <3>3. PICK b, c \in known : /\ seen[2] = Compound!Read(b, "base_borrow", r)
                                /\ seen[3] = Compound!Read(c, "wallet_balance", r)
      BY <2>9, <3>1, <3>2
    <3>4. seen[2] # 0
      <4>1. Len(seen) >= 2 /\ 0 \notin Compound!Range(Tail(seen))
        BY <2>7, <3>2
      <4>2. QED
        BY <2>8, <4>1, AfterTheFirst
    <3>5. /\ seen[2] = CometOwed(b, r)
          /\ seen[3] = c.balance[Compound!BaseToken[Compound!Market(r)]]
      BY <2>10, <3>3, CompoundReadIs
    <3>6. QED
      BY <2>6, <2>7, <2>10, <3>4, <3>5
  <2>11. ASSUME r.op = "withdraw", Compound!IsBaseAsset(r)
         PROVE  \E c \in known : n # 0 /\ n = CometHeld(c, r)
    <3>1. Compound!Reads(r) = <<"base_token", "base_supply">>
      BY <1>7, <2>11 DEF Compound!Reads, Compound!ResolveWithdrawReads
    <3>2. Len(seen) = 2 /\ 2 \in 1..Len(seen)
      BY <2>9, <3>1
    <3>3. PICK c \in known : seen[2] = Compound!Read(c, "base_supply", r)
      BY <2>9, <3>1, <3>2
    <3>4. seen[2] # 0
      <4>1. Len(seen) >= 2 /\ 0 \notin Compound!Range(Tail(seen))
        BY <2>7, <3>2
      <4>2. QED
        BY <2>8, <4>1, AfterTheFirst
    <3>5. seen[2] = CometHeld(c, r)
      BY <3>3, CompoundReadIs
    <3>6. QED
      BY <2>6, <2>7, <2>11, <3>4, <3>5
  <2>12. CompoundReason(r, n, known)
    BY <1>7, <2>5, <2>10, <2>11 DEF CompoundReason
  <2>13. QED
    BY <1>1, <1>2, <2>4, <2>5, <2>12
<1>8. QED
  BY <1>6, <1>7

\* The effect of a batch that succeeds.
CompoundEffects(c, d, r, n) ==
    LET m == Compound!Market(r)
        token == Compound!Token(r)
        paid == CometPays(c, m, token, n)
    IN /\ r.op \in {"supply", "repay"} =>
            /\ paid <= n /\ d.allowance[token] = n - paid
            /\ token = Compound!BaseToken[m] => d.base[m] = c.base[m] + paid
       /\ r.op \in {"withdraw", "borrow"} /\ token = Compound!BaseToken[m] =>
            d.base[m] = c.base[m] - CometGives(c, m, token, n)

LEMMA CompoundKeeps ==
    ASSUME NEW r \in CompoundRequests, Compound!Valid(r), r.op \in Compound!Actions,
           NEW n \in 0..Compound!MaxUint, NEW calls, CompoundBatch(calls, r, n)
    PROVE  /\ Len(calls) \in Nat
           /\ \A i \in 1..Len(calls), c \in Compound!States : Compound!Call(c, calls[i]) \subseteq Compound!States
<1>1. PICK m, token : /\ m = Compound!Market(r) /\ token = Compound!Token(r)
                      /\ m \in CometNames /\ token \in CometTokens
  BY CompoundTerms
<1>2. ASSUME NEW c \in Compound!States, NEW d,
             \/ d \in Compound!Call(c, Compound!Approve(token, m, n))
             \/ d \in Compound!Call(c, Compound!CometSupply(m, token, n))
             \/ d \in Compound!Call(c, Compound!CometWithdraw(m, token, n))
      PROVE  d \in Compound!States
  BY <1>1, <1>2, CompoundApprove, CompoundSupplies, CompoundWithdraws
     DEF CompoundApproved, CompoundSupplied, CompoundWithdrawn
<1>3. CASE calls = <<Compound!Approve(token, m, n), Compound!CometSupply(m, token, n)>>
  BY <1>2, <1>3
<1>4. CASE calls = <<Compound!CometWithdraw(m, token, n)>>
  BY <1>2, <1>4
<1>5. QED
  BY <1>1, <1>3, <1>4 DEF CompoundBatch

LEMMA CompoundBatchDoes ==
    ASSUME NEW r \in CompoundRequests, Compound!Valid(r), r.op \in Compound!Actions,
           NEW n \in 0..Compound!MaxUint, NEW calls, CompoundBatch(calls, r, n),
           NEW c \in Compound!States, NEW d \in CompoundRuns!Run(c, calls)
    PROVE  CompoundEffects(c, d, r, n)
<1>1. /\ Len(calls) \in Nat
      /\ \A i \in 1..Len(calls), e \in Compound!States : Compound!Call(e, calls[i]) \subseteq Compound!States
  BY CompoundKeeps
<1>2. PICK g : CompoundRuns!Path(g, c, calls, Compound!States) /\ g[Len(calls)] = d
  <2>1. PICK S : S = Compound!States
    OBVIOUS
  <2>2. \E g : CompoundRuns!Path(g, c, calls, S) /\ g[Len(calls)] = d
    BY <1>1, <2>1, CompoundRuns!RunPath
  <2>3. QED
    BY <2>1, <2>2
<1>3. /\ g \in [0..Len(calls) -> Compound!States] /\ g[0] = c
      /\ \A i \in 1..Len(calls) : g[i] \in Compound!Call(g[i - 1], calls[i])
  BY <1>2 DEF CompoundRuns!Path
<1>4. PICK m, token : /\ m = Compound!Market(r) /\ token = Compound!Token(r)
                      /\ m \in CometNames /\ token \in CometTokens
  BY CompoundTerms
<1>5. ASSUME NEW k1, NEW k2, calls = <<k1, k2>>
      PROVE  \E s \in Compound!States : s \in Compound!Call(c, k1) /\ d \in Compound!Call(s, k2)
  BY <1>2, <1>3, <1>5
<1>6. ASSUME NEW k1, calls = <<k1>>
      PROVE  d \in Compound!Call(c, k1)
  BY <1>2, <1>3, <1>6
<1>7. ASSUME r.op \in {"supply", "repay"},
             calls = <<Compound!Approve(token, m, n), Compound!CometSupply(m, token, n)>>
      PROVE  LET paid == CometPays(c, m, token, n)
             IN /\ paid <= n /\ d.allowance[token] = n - paid
                /\ token = Compound!BaseToken[m] => d.base[m] = c.base[m] + paid
  <2>1. PICK s \in Compound!States :
          /\ s \in Compound!Call(c, Compound!Approve(token, m, n))
          /\ d \in Compound!Call(s, Compound!CometSupply(m, token, n))
    BY <1>5, <1>7
  <2>2. s.allowance[token] = n /\ s.base = c.base
    BY <1>4, <2>1, CompoundApprove DEF CompoundApproved
  <2>3. CompoundSupplied(s, d, m, token, n)
    BY <1>4, <2>1, CompoundSupplies
  <2>4. CometPays(s, m, token, n) = CometPays(c, m, token, n)
    BY <2>2 DEF CometPays
  <2>5. QED
    BY <2>2, <2>3, <2>4 DEF CompoundSupplied
<1>8. ASSUME r.op \in {"withdraw", "borrow"}, calls = <<Compound!CometWithdraw(m, token, n)>>
      PROVE  token = Compound!BaseToken[m] => d.base[m] = c.base[m] - CometGives(c, m, token, n)
  <2>1. d \in Compound!Call(c, Compound!CometWithdraw(m, token, n))
    BY <1>6, <1>8
  <2>2. QED
    BY <1>4, <2>1, CompoundWithdraws DEF CompoundWithdrawn
<1>9. QED
  BY <1>4, <1>7, <1>8 DEF CompoundBatch, CompoundEffects

LEMMA CompoundClosed ==
    CompoundRuns!Closed(Compound!States, CompoundView)
<1>1. ASSUME NEW r \in CompoundRequests, Compound!Valid(r)
      PROVE  Len(Compound!Reads(r)) \in Nat
  <2>1. r.op \in Compound!Actions \cup {"markets", "position", "balances", "borrow_capacity"}
    BY CompoundAssumption DEF Compound!IsRequest
  <2>2. /\ r.op = "supply" => Compound!Reads(r) = Compound!ResolveSupplyReads(r)
        /\ r.op = "withdraw" => Compound!Reads(r) = Compound!ResolveWithdrawReads(r)
        /\ r.op = "repay" => Compound!Reads(r) = Compound!ResolveRepayReads(r)
        /\ r.op = "borrow" => Compound!Reads(r) = <<"base_token">>
        /\ r.op = "position" => Compound!Reads(r) = <<"base_token", "base_supply", "base_borrow", "collaterals">>
        /\ r.op = "balances" => Compound!Reads(r) = <<"base_token", "wallet_balance", "base_supply", "collaterals">>
        /\ r.op = "borrow_capacity" =>
             Compound!Reads(r) = <<"base_token", "base_price", "base_borrow", "collaterals">>
        /\ r.op = "markets" => Compound!Reads(r) = <<"markets">>
    BY DEF Compound!Reads
  <2>3. Len(Compound!ResolveSupplyReads(r)) \in Nat
    <3>1. Compound!ResolveSupplyReads(r) \in {<<"base_token", "wallet_balance">>, <<"base_token">>}
      BY DEF Compound!ResolveSupplyReads
    <3>2. QED
      BY <3>1
  <2>4. Len(Compound!ResolveWithdrawReads(r)) \in Nat
    <3>1. Compound!ResolveWithdrawReads(r) \in {<<"base_token", "base_supply">>,
                                                <<"base_token", "collateral_balance">>, <<"base_token">>}
      BY DEF Compound!ResolveWithdrawReads
    <3>2. QED
      BY <3>1
  <2>5. Len(Compound!ResolveRepayReads(r)) \in Nat
    <3>1. Compound!ResolveRepayReads(r) \in {<<"base_token", "base_borrow", "wallet_balance">>, <<"base_token">>}
      BY DEF Compound!ResolveRepayReads
    <3>2. QED
      BY <3>1
  <2>6. QED
    BY <2>1, <2>2, <2>3, <2>4, <2>5 DEF Compound!Actions
<1>2. ASSUME NEW c \in Compound!States, NEW d \in Compound!Moves(c)
      PROVE  d \in Compound!States /\ CompoundView[d] = CompoundView[c]
  BY <1>2, CompoundMoves
<1>3. ASSUME NEW r \in CompoundRequests, NEW calls, Compound!Valid(r),
             CompoundRuns!Compiled(calls, r, Compound!States)
      PROVE  /\ Len(calls) \in Nat
             /\ \A i \in 1..Len(calls), c \in Compound!States : Compound!Call(c, calls[i]) \subseteq Compound!States
  <2>1. PICK known : known = Compound!States
    OBVIOUS
  <2>2. r.op \in Compound!Actions /\ \E n : CompoundBatch(calls, r, n) /\ CompoundReason(r, n, known)
    BY <1>3, <2>1, CompoundCompiled
  <2>3. PICK n : CompoundBatch(calls, r, n) /\ n \in 0..Compound!MaxUint
    BY <2>2 DEF CompoundReason
  <2>4. QED
    BY <1>3, <2>2, <2>3, CompoundKeeps
<1>4. QED
  BY <1>1, <1>2, <1>3 DEF CompoundRuns!Closed

CompoundInv == CompoundRuns!HandlerInv(Compound!States, CompoundView)

LEMMA CompoundStart ==
    ASSUME Init, protocol = "compound"
    PROVE  CompoundInv
<1>1. chain \in Compound!States /\ task = [h \in Handlers |-> CompoundRuns!Idle]
  <2>1. OnAave!Idle = CompoundRuns!Idle
    BY DEF OnAave!Idle, CompoundRuns!Idle
  <2>2. QED
    BY <2>1, CompoundAssumption DEF Init
<1>2. QED
  BY <1>1, CompoundRuns!HandlerStart DEF CompoundInv

LEMMA CompoundStep ==
    ASSUME CompoundInv, OnCompound!Next
    PROVE  CompoundInv'
<1>1. CompoundRuns!Next /\ CompoundRuns!HandlerInv(Compound!States, CompoundView)
  BY CompoundSame DEF CompoundInv
<1>2. CompoundRuns!HandlerInv(Compound!States, CompoundView)'
  BY <1>1, CompoundClosed, CompoundRuns!HandlerStep
<1>3. QED
  BY <1>2 DEF CompoundInv

LEMMA CompoundStays ==
    ASSUME CompoundInv, UNCHANGED vars
    PROVE  CompoundInv'
BY DEF CompoundInv, vars, CompoundRuns!HandlerInv, CompoundRuns!TaskOK, CompoundRuns!Known

\* What a batch that takes effect was compiled from, and what it does.
LEMMA CompoundTakesEffect ==
    ASSUME CompoundInv, OnCompound!Next, NEW h \in Handlers, OnCompound!Succeeded(h)
    PROVE  /\ task[h].req \in CompoundRequests /\ Compound!Valid(task[h].req)
           /\ task[h].req.op \in Compound!Actions /\ chain \in Compound!States
           /\ \E n, known : /\ CompoundBatch(task[h].result, task[h].req, n)
                            /\ CompoundReason(task[h].req, n, known)
                            /\ CompoundEffects(chain, chain', task[h].req, n)
                            /\ known \subseteq Compound!States
                            /\ OnCompound!Fresh(h) => known = {chain}
                            /\ task[h].since # "wallet" => \A c \in known : CompoundView[c] = CompoundView[chain]
<1>1. CompoundRuns!Next /\ CompoundRuns!Succeeded(h) /\ CompoundRuns!HandlerInv(Compound!States, CompoundView)
  BY CompoundSame DEF CompoundInv
<1>2. /\ task[h] # CompoundRuns!Idle /\ CompoundRuns!TaskOK(task[h], Compound!States, CompoundView)
      /\ task[h].stage \in CompoundRuns!Compiling
      /\ chain' \in CompoundRuns!Run(chain, task[h].result)
  BY <1>1, CompoundRuns!TakesEffect
<1>3. PICK r, calls, known, c, d :
        /\ r = task[h].req /\ calls = task[h].result /\ c = chain /\ d = chain'
        /\ known = CompoundRuns!Known(task[h], Compound!States, CompoundView)
  OBVIOUS
<1>4. r \in CompoundRequests /\ Compound!Valid(r) /\ CompoundRuns!Compiled(calls, r, known)
  BY <1>2, <1>3 DEF CompoundRuns!TaskOK, CompoundRuns!Compiling
<1>5. known \in SUBSET Compound!States /\ c \in Compound!States /\ d \in CompoundRuns!Run(c, calls)
  BY <1>1, <1>2, <1>3 DEF CompoundRuns!Known, CompoundRuns!HandlerInv
<1>6. r.op \in Compound!Actions /\ \E n : CompoundBatch(calls, r, n) /\ CompoundReason(r, n, known)
  BY <1>4, <1>5, CompoundCompiled
<1>7. PICK n : CompoundBatch(calls, r, n) /\ CompoundReason(r, n, known)
  BY <1>6
<1>8. n \in 0..Compound!MaxUint
  BY <1>7 DEF CompoundReason
<1>9. CompoundEffects(c, d, r, n)
  BY <1>4, <1>5, <1>6, <1>7, <1>8, CompoundBatchDoes
<1>10. OnCompound!Fresh(h) => known = {chain}
  BY <1>1, <1>3, <1>5 DEF OnCompound!Fresh, OnCompound!Since, CompoundRuns!Known, CompoundRuns!HandlerInv
<1>11. task[h].since # "wallet" => \A b \in known : CompoundView[b] = CompoundView[c]
  <2>1. task[h].since \in {"nothing", "market", "wallet"}
    BY <1>2 DEF CompoundRuns!TaskOK
  <2>2. \A b \in known : /\ task[h].since = "nothing" => b = chain
                         /\ task[h].since = "market" => CompoundView[b] = CompoundView[chain]
    BY <1>3 DEF CompoundRuns!Known
  <2>3. QED
    BY <1>3, <2>1, <2>2
<1>12. QED
  BY <1>3, <1>4, <1>5, <1>6, <1>7, <1>9, <1>10, <1>11

\* A repayment of all that is owed, as far as the balance reaches.
LEMMA CompoundRepaysAll ==
    ASSUME NEW r \in CompoundRequests, Compound!Valid(r), r.op = "repay", Compound!IsMax(r),
           NEW c \in Compound!States, NEW d, NEW n, CompoundReason(r, n, {c}), CompoundEffects(c, d, r, n),
           NEW m, m = Compound!Market(r)
    PROVE  d.base[m] = Compound!Lesser(c.base[m] + c.balance[Compound!BaseToken[m]], 0)
<1>1. r.op \in Compound!Actions
  BY DEF Compound!Actions
<1>2. /\ m \in CometNames /\ Compound!BaseToken[m] \in CometTokens
      /\ Compound!Token(r) = Compound!BaseToken[m]
  BY <1>1, CompoundTerms
<1>3. PICK base, balance, paid : /\ base = c.base[m] /\ balance = c.balance[Compound!BaseToken[m]]
                                 /\ paid = CometPays(c, m, Compound!BaseToken[m], n)
  OBVIOUS
<1>4. base \in Int /\ balance \in Nat
  BY <1>2, <1>3, CompoundShape DEF CompoundTyped
<1>5. n \in 0..Compound!MaxUint /\ CometOwed(c, r) # 0 /\ n = Compound!Lesser(CometOwed(c, r), balance)
  BY <1>3 DEF CompoundReason
<1>6. base < 0 /\ CometOwed(c, r) = -base
  BY <1>3, <1>4, <1>5 DEF CometOwed, Compound!SaturatingSub
<1>7. paid <= n /\ d.base[m] = base + paid
  BY <1>2, <1>3 DEF CompoundEffects
<1>8. paid = IF n = Compound!MaxUint THEN -base ELSE n
  BY <1>3, <1>6 DEF CometPays, CometOwed
<1>9. n \in Nat /\ n = IF -base < balance THEN -base ELSE balance
  BY <1>5, <1>6, CompoundWidth DEF Compound!Lesser
<1>10. paid = n
  BY <1>4, <1>6, <1>7, <1>8, <1>9
<1>11. d.base[m] = IF base + balance < 0 THEN base + balance ELSE 0
  BY <1>4, <1>6, <1>7, <1>9, <1>10
<1>12. QED
  BY <1>3, <1>11 DEF Compound!Lesser

\* A withdrawal of all that was supplied opens no debt.
LEMMA CompoundWithdrawsAll ==
    ASSUME NEW r \in CompoundRequests, Compound!Valid(r), r.op = "withdraw", Compound!IsMax(r),
           Compound!IsBaseAsset(r), NEW c \in Compound!States, NEW d, NEW n, NEW known,
           known \subseteq Compound!States, \A b \in known : CompoundView[b] = CompoundView[c],
           CompoundReason(r, n, known), CompoundEffects(c, d, r, n), NEW m, m = Compound!Market(r)
    PROVE  d.base[m] >= 0
<1>1. r.op \in Compound!Actions
  BY DEF Compound!Actions
<1>2. m \in CometNames /\ Compound!Token(r) = Compound!BaseToken[m]
  BY <1>1, CompoundTerms DEF Compound!IsBaseAsset
<1>3. PICK b \in known : n # 0 /\ n = CometHeld(b, r)
  BY DEF CompoundReason
<1>4. CometHeld(b, r) = CometHeld(c, r)
  <2>1. b \in Compound!States /\ CompoundView[b] = CompoundView[c]
    BY <1>3
  <2>2. CompoundView[b][m] = CompoundView[c][m]
    BY <2>1
  <2>3. QED
    BY <1>2, <2>1, <2>2 DEF CompoundView, CometHeld
<1>5. c.base[m] \in Int
  BY <1>2, CompoundShape DEF CompoundTyped
<1>6. n # 0 /\ n = IF c.base[m] > 0 THEN c.base[m] - 0 ELSE 0
  BY <1>3, <1>4 DEF CometHeld, Compound!SaturatingSub
<1>7. CometGives(c, m, Compound!BaseToken[m], n) = n
  BY <1>6 DEF CometGives, Compound!SaturatingSub
<1>8. d.base[m] = c.base[m] - n
  BY <1>2, <1>7 DEF CompoundEffects
<1>9. QED
  BY <1>5, <1>6, <1>8

\* A batch uses its allowance up, unless it names the greatest number.
LEMMA CompoundUsesUp ==
    ASSUME NEW r \in CompoundRequests, Compound!Valid(r), r.op \in Compound!Actions,
           NEW c \in Compound!States, NEW d, NEW n \in 0..Compound!MaxUint, NEW calls,
           CompoundBatch(calls, r, n), CompoundEffects(c, d, r, n),
           NEW i \in DOMAIN calls, calls[i].fn = "approve"
    PROVE  \/ d.allowance[calls[i].token] = 0
           \/ /\ r.op \in {"supply", "repay"} /\ Compound!IsBaseAsset(r)
              /\ calls[i].amount = Compound!MaxUint
<1>1. PICK m, token : m = Compound!Market(r) /\ token = Compound!Token(r)
  OBVIOUS
<1>2. CASE r.op \in {"withdraw", "borrow"} /\ calls = <<Compound!CometWithdraw(m, token, n)>>
  <2>1. calls[i] = Compound!CometWithdraw(m, token, n)
    BY <1>2
  <2>2. QED
    BY <2>1 DEF Compound!CometWithdraw
<1>3. CASE /\ r.op \in {"supply", "repay"}
           /\ calls = <<Compound!Approve(token, m, n), Compound!CometSupply(m, token, n)>>
  <2>1. calls[i] = Compound!Approve(token, m, n)
    <3>1. i = 1 \/ calls[i] = Compound!CometSupply(m, token, n)
      BY <1>3
    <3>2. Compound!CometSupply(m, token, n).fn = "supply"
      BY DEF Compound!CometSupply
    <3>3. i = 1
      BY <3>1, <3>2
    <3>4. QED
      BY <1>3, <3>3
  <2>2. calls[i].token = token /\ calls[i].amount = n
    BY <2>1 DEF Compound!Approve
  <2>3. d.allowance[token] = n - CometPays(c, m, token, n)
    BY <1>1, <1>3 DEF CompoundEffects
  <2>4. n \in Nat
    BY CompoundWidth
  <2>5. CASE CometPays(c, m, token, n) = n
    BY <2>2, <2>3, <2>4, <2>5
  <2>6. CASE CometPays(c, m, token, n) # n
    BY <1>1, <1>3, <2>2, <2>6 DEF CometPays, Compound!IsBaseAsset
  <2>7. QED
    BY <2>5, <2>6
<1>4. QED
  BY <1>1, <1>2, <1>3 DEF CompoundBatch

\* The last call of a batch names the amount.
LEMMA CompoundNames ==
    ASSUME NEW r, NEW n, NEW calls, CompoundBatch(calls, r, n)
    PROVE  calls[Len(calls)].amount = n
BY DEF CompoundBatch, Compound!CometSupply, Compound!CometWithdraw

-----------------------------------------------------------------------------
(* Morpho: the states of a market and of the wallet. *)

MorphoMarkets ==
    [supplyAssets : Int, supplyShares : Int, borrowAssets : Int, borrowShares : Int, fee : Nat]
MorphoPositions ==
    [supplyShares : 0..Morpho!MaxUint, borrowShares : 0..Morpho!MaxUint, collateral : 0..Morpho!MaxUint]
MorphoHoldings == [Morpho!Tokens -> 0..Morpho!MaxUint]

\* The part of a state that no call and no move of the market changes.
MorphoTerms(c) == c.rate \in Nat /\ c.price \in Nat \cup {Morpho!Err} /\ c.lltv \in Nat /\ c.configured \in BOOLEAN
MorphoRecord(c, state, elapsed, position, balance, allowance) ==
    [state |-> state, rate |-> c.rate, elapsed |-> elapsed, price |-> c.price, lltv |-> c.lltv,
     configured |-> c.configured, position |-> position, balance |-> balance, allowance |-> allowance]
MorphoTyped(state, elapsed, position, balance, allowance) ==
    /\ state \in MorphoMarkets /\ elapsed \in Nat /\ position \in MorphoPositions
    /\ balance \in MorphoHoldings /\ allowance \in MorphoHoldings

LEMMA MorphoShape ==
    ASSUME NEW c \in Morpho!States
    PROVE  /\ c = MorphoRecord(c, c.state, c.elapsed, c.position, c.balance, c.allowance)
           /\ MorphoTyped(c.state, c.elapsed, c.position, c.balance, c.allowance) /\ MorphoTerms(c)
BY DEF Morpho!States, MorphoRecord, MorphoTyped, MorphoTerms, MorphoMarkets, MorphoPositions, MorphoHoldings

LEMMA MorphoBuilt ==
    ASSUME NEW c, MorphoTerms(c), NEW state, NEW elapsed, NEW position, NEW balance, NEW allowance,
           MorphoTyped(state, elapsed, position, balance, allowance)
    PROVE  MorphoRecord(c, state, elapsed, position, balance, allowance) \in Morpho!States
BY DEF Morpho!States, MorphoRecord, MorphoTyped, MorphoTerms, MorphoMarkets, MorphoPositions, MorphoHoldings

LEMMA MorphoParts ==
    ASSUME NEW c, NEW state, NEW elapsed, NEW position, NEW balance, NEW allowance,
           NEW d, d = MorphoRecord(c, state, elapsed, position, balance, allowance)
    PROVE  /\ d.state = state /\ d.elapsed = elapsed /\ d.position = position
           /\ d.balance = balance /\ d.allowance = allowance
           /\ d.price = c.price /\ d.lltv = c.lltv /\ d.rate = c.rate /\ d.configured = c.configured
BY DEF MorphoRecord

\* A checked result is an amount or Err, whatever it is a result of.
MorphoResults == 0..Morpho!MaxUint \cup {Morpho!Err}
LEMMA MorphoChecked ==
    /\ \A n : Morpho!Checked(n) \in MorphoResults
    /\ \A a, b : Morpho!CheckedAdd(a, b) \in MorphoResults
    /\ \A x, y, d : Morpho!MulDivDown(x, y, d) \in MorphoResults
    /\ \A x, y, d : Morpho!MulDivUp(x, y, d) \in MorphoResults
    /\ MorphoResults \subseteq Int
<1>1. \A n : Morpho!Checked(n) \in MorphoResults
  BY DEF Morpho!Checked, MorphoResults
<1>2. Morpho!Err \in MorphoResults
  BY DEF MorphoResults
<1>3. MorphoResults \subseteq Int
  BY MorphoWidth DEF MorphoResults, Morpho!Err
<1>4. QED
  BY <1>1, <1>2, <1>3 DEF Morpho!CheckedAdd, Morpho!MulDivDown, Morpho!MulDivUp

LEMMA MorphoConversions ==
    /\ \A x, y, z : Morpho!ToAssetsDown(x, y, z) \in MorphoResults
    /\ \A x, y, z : Morpho!ToAssetsUp(x, y, z) \in MorphoResults
    /\ \A x, y, z : Morpho!ToSharesDown(x, y, z) \in MorphoResults
    /\ \A x, y, z : Morpho!ToSharesUp(x, y, z) \in MorphoResults
BY MorphoChecked DEF Morpho!ToAssetsDown, Morpho!ToAssetsUp, Morpho!ToSharesDown, Morpho!ToSharesUp

LEMMA MorphoAccrues ==
    ASSUME NEW m \in MorphoMarkets, NEW rate, NEW elapsed
    PROVE  Morpho!AccrueMarketStateAt(m, rate, elapsed) \in MorphoMarkets
<1>1. PICK interest, supplied, shares, borrowed, held :
        /\ interest = Morpho!MulDivDown(m.borrowAssets, Morpho!TaylorCompounded(rate, elapsed), Morpho!Wad)
        /\ supplied = Morpho!CheckedAdd(m.supplyAssets, interest)
        /\ shares = Morpho!ToSharesDown(Morpho!MulDivDown(interest, m.fee, Morpho!Wad),
                      Morpho!SaturatingSub(supplied, Morpho!MulDivDown(interest, m.fee, Morpho!Wad)), m.supplyShares)
        /\ borrowed = Morpho!CheckedAdd(m.borrowAssets, interest)
        /\ held = IF 0 \in {m.fee, interest} THEN m.supplyShares ELSE Morpho!CheckedAdd(m.supplyShares, shares)
  OBVIOUS
<1>2. supplied \in Int /\ borrowed \in Int /\ held \in Int
  BY <1>1, MorphoChecked DEF MorphoMarkets
<1>3. \/ Morpho!AccrueMarketStateAt(m, rate, elapsed) = m
      \/ Morpho!AccrueMarketStateAt(m, rate, elapsed)
           = [m EXCEPT !.borrowAssets = borrowed, !.supplyAssets = supplied, !.supplyShares = held]
  BY <1>1 DEF Morpho!AccrueMarketStateAt
<1>4. [m EXCEPT !.borrowAssets = borrowed, !.supplyAssets = supplied, !.supplyShares = held] \in MorphoMarkets
  BY <1>2 DEF MorphoMarkets
<1>5. QED
  BY <1>3, <1>4

\* The accrual changes the state of the market alone.
LEMMA MorphoAccrued ==
    ASSUME NEW c \in Morpho!States, NEW e, e = Morpho!Accrued(c)
    PROVE  /\ e \in Morpho!States
           /\ e.state = Morpho!AccrueMarketStateAt(c.state, c.rate, c.elapsed)
           /\ e.position = c.position /\ e.balance = c.balance /\ e.allowance = c.allowance
           /\ e.price = c.price /\ e.lltv = c.lltv
<1>1. PICK state : state = Morpho!AccrueMarketStateAt(c.state, c.rate, c.elapsed)
  OBVIOUS
<1>2. /\ c = MorphoRecord(c, c.state, c.elapsed, c.position, c.balance, c.allowance)
      /\ MorphoTyped(c.state, c.elapsed, c.position, c.balance, c.allowance) /\ MorphoTerms(c)
  BY MorphoShape
<1>3. state \in MorphoMarkets
  BY <1>1, <1>2, MorphoAccrues DEF MorphoTyped
<1>4. e = [c EXCEPT !.state = state, !.elapsed = 0]
  BY <1>1 DEF Morpho!Accrued
<1>5. e = MorphoRecord(c, state, 0, c.position, c.balance, c.allowance)
  BY <1>2, <1>4 DEF MorphoRecord
<1>6. MorphoTyped(state, 0, c.position, c.balance, c.allowance)
  BY <1>2, <1>3 DEF MorphoTyped
<1>7. e \in Morpho!States
  BY <1>2, <1>5, <1>6, MorphoBuilt
<1>8. QED
  BY <1>1, <1>5, <1>7, MorphoParts

-----------------------------------------------------------------------------
(* Morpho: what a call does. *)

MorphoLoose == [supplyShares : Nat, borrowShares : Nat, collateral : Nat]

\* What is not negative, and fits, is a state.
LEMMA MorphoFitting ==
    ASSUME NEW c, MorphoTerms(c), NEW state \in MorphoMarkets, NEW elapsed \in Nat,
           NEW position \in MorphoLoose, NEW balance \in [Morpho!Tokens -> Nat],
           NEW allowance \in MorphoHoldings, NEW d,
           d = MorphoRecord(c, state, elapsed, position, balance, allowance), Morpho!Fits(d)
    PROVE  d \in Morpho!States
<1>1. d.position = position /\ d.balance = balance
  BY MorphoParts
<1>2. /\ \A x \in DOMAIN balance : balance[x] <= Morpho!MaxUint
      /\ \A x \in DOMAIN position : position[x] <= Morpho!MaxUint
  BY <1>1 DEF Morpho!Fits
<1>3. balance \in MorphoHoldings
  <2>1. \A x \in Morpho!Tokens : balance[x] \in 0..Morpho!MaxUint
    BY <1>2, MorphoWidth
  <2>2. QED
    BY <2>1 DEF MorphoHoldings
<1>4. position \in MorphoPositions
  <2>1. "supplyShares" \in DOMAIN position /\ "borrowShares" \in DOMAIN position /\ "collateral" \in DOMAIN position
    BY DEF MorphoLoose
  <2>2. /\ position.supplyShares <= Morpho!MaxUint /\ position.borrowShares <= Morpho!MaxUint
        /\ position.collateral <= Morpho!MaxUint
    BY <1>2, <2>1
  <2>3. position.supplyShares \in Nat /\ position.borrowShares \in Nat /\ position.collateral \in Nat
    BY DEF MorphoLoose
  <2>4. QED
    BY <2>2, <2>3, MorphoWidth DEF MorphoLoose, MorphoPositions
<1>5. MorphoTyped(state, elapsed, position, balance, allowance)
  BY <1>3, <1>4 DEF MorphoTyped
<1>6. QED
  BY <1>5, MorphoBuilt

LEMMA MorphoLooser ==
    ASSUME NEW c \in Morpho!States
    PROVE  /\ c = MorphoRecord(c, c.state, c.elapsed, c.position, c.balance, c.allowance)
           /\ MorphoTerms(c) /\ c.state \in MorphoMarkets /\ c.elapsed \in Nat
           /\ c.position \in MorphoLoose /\ c.balance \in [Morpho!Tokens -> Nat] /\ c.allowance \in MorphoHoldings
           /\ \A x \in Morpho!Tokens : c.balance[x] \in Nat /\ c.allowance[x] \in 0..Morpho!MaxUint
<1>1. /\ c = MorphoRecord(c, c.state, c.elapsed, c.position, c.balance, c.allowance)
      /\ MorphoTyped(c.state, c.elapsed, c.position, c.balance, c.allowance) /\ MorphoTerms(c)
  BY MorphoShape
<1>2. 0..Morpho!MaxUint \subseteq Nat
  BY MorphoWidth
<1>3. c.position \in MorphoLoose /\ c.balance \in [Morpho!Tokens -> Nat]
  BY <1>1, <1>2 DEF MorphoTyped, MorphoPositions, MorphoLoose, MorphoHoldings
<1>4. \A x \in Morpho!Tokens : c.balance[x] \in Nat /\ c.allowance[x] \in 0..Morpho!MaxUint
  BY <1>1, <1>3 DEF MorphoTyped, MorphoHoldings
<1>5. QED
  BY <1>1, <1>3, <1>4 DEF MorphoTyped

\* A call that does not revert has an outcome of an accrued state.
LEMMA MorphoCalled ==
    ASSUME NEW c, NEW k, NEW d \in Morpho!Call(c, k)
    PROVE  /\ Morpho!Fits(d)
           /\ k.fn = "approve" => d = [c EXCEPT !.allowance[k.token] = k.amount]
           /\ k.fn = "supply" => d \in Morpho!OnSupply(Morpho!Accrued(c), k.assets)
           /\ k.fn = "withdraw" => d \in Morpho!OnWithdraw(Morpho!Accrued(c), k)
           /\ k.fn = "borrow" => d \in Morpho!OnBorrow(Morpho!Accrued(c), k.assets)
           /\ k.fn = "repay" => d \in Morpho!OnRepay(Morpho!Accrued(c), k)
           /\ k.fn = "supply_collateral" => d \in Morpho!OnSupplyCollateral(c, k.assets)
           /\ k.fn = "withdraw_collateral" => d \in Morpho!OnWithdrawCollateral(Morpho!Accrued(c), k.assets)
<1>1. d \in Morpho!Outcomes(c, k) /\ Morpho!Fits(d)
  BY DEF Morpho!Call
<1>2. QED
  BY <1>1 DEF Morpho!Outcomes, Morpho!Accruing

MorphoApproved(c, d, token, n) ==
    /\ d \in Morpho!States
    /\ d.allowance[token] = n /\ d.position = c.position /\ d.balance = c.balance

LEMMA MorphoApproves ==
    ASSUME NEW c \in Morpho!States, NEW token \in Morpho!Tokens, NEW n \in 0..Morpho!MaxUint,
           NEW d \in Morpho!Call(c, Morpho!Approve(token, n))
    PROVE  MorphoApproved(c, d, token, n)
<1>1. d = [c EXCEPT !.allowance[token] = n]
  BY MorphoCalled DEF Morpho!Approve
<1>2. PICK allowance : allowance = [c.allowance EXCEPT ![token] = n]
  OBVIOUS
<1>3. /\ c = MorphoRecord(c, c.state, c.elapsed, c.position, c.balance, c.allowance)
      /\ MorphoTyped(c.state, c.elapsed, c.position, c.balance, c.allowance) /\ MorphoTerms(c)
  BY MorphoShape
<1>4. d = MorphoRecord(c, c.state, c.elapsed, c.position, c.balance, allowance)
  BY <1>1, <1>2, <1>3 DEF MorphoRecord
<1>5. allowance \in MorphoHoldings /\ allowance[token] = n
  BY <1>2, <1>3, Put DEF MorphoTyped, MorphoHoldings
<1>6. MorphoTyped(c.state, c.elapsed, c.position, c.balance, allowance)
  BY <1>3, <1>5 DEF MorphoTyped
<1>7. d \in Morpho!States
  BY <1>3, <1>4, <1>6, MorphoBuilt
<1>8. QED
  BY <1>4, <1>5, <1>7, MorphoParts DEF MorphoApproved

\* Tokens pulled from the wallet.
LEMMA MorphoPulls ==
    ASSUME NEW c \in Morpho!States, NEW token \in Morpho!Tokens, NEW n \in 0..Morpho!MaxUint,
           NEW d \in Morpho!Pays(c, token, n)
    PROVE  \E balance \in [Morpho!Tokens -> Nat], allowance \in MorphoHoldings :
             d = MorphoRecord(c, c.state, c.elapsed, c.position, balance, allowance)
<1>1. /\ c = MorphoRecord(c, c.state, c.elapsed, c.position, c.balance, c.allowance)
      /\ c.balance \in [Morpho!Tokens -> Nat] /\ c.allowance \in MorphoHoldings
      /\ c.balance[token] \in Nat /\ c.allowance[token] \in 0..Morpho!MaxUint
  BY MorphoLooser
<1>2. n <= c.balance[token] /\ n <= c.allowance[token] /\ n \in Nat
  BY <1>1, MorphoWidth DEF Morpho!Pays, Morpho!Lesser
<1>3. d = [c EXCEPT !.balance[token] = @ - n, !.allowance[token] = @ - n]
  BY DEF Morpho!Pays
<1>4. PICK balance, allowance :
        /\ balance = [c.balance EXCEPT ![token] = c.balance[token] - n]
        /\ allowance = [c.allowance EXCEPT ![token] = c.allowance[token] - n]
  OBVIOUS
<1>5. c.balance[token] - n \in Nat /\ c.allowance[token] - n \in 0..Morpho!MaxUint
  BY <1>1, <1>2, MorphoWidth
<1>6. balance \in [Morpho!Tokens -> Nat] /\ allowance \in MorphoHoldings
  BY <1>1, <1>4, <1>5, Put DEF MorphoHoldings
<1>7. d = MorphoRecord(c, c.state, c.elapsed, c.position, balance, allowance)
  BY <1>1, <1>3, <1>4 DEF MorphoRecord
<1>8. QED
  BY <1>6, <1>7

LEMMA MorphoSupplied ==
    ASSUME NEW m \in MorphoMarkets, NEW x \in Int, NEW y \in Int,
           NEW q, q = [m EXCEPT !.supplyAssets = x, !.supplyShares = y]
    PROVE  q \in MorphoMarkets
BY DEF MorphoMarkets

LEMMA MorphoOwing ==
    ASSUME NEW m \in MorphoMarkets, NEW x \in Int, NEW y \in Int,
           NEW q, q = [m EXCEPT !.borrowAssets = x, !.borrowShares = y]
    PROVE  q \in MorphoMarkets
BY DEF MorphoMarkets

LEMMA MorphoSupplyPlaced ==
    ASSUME NEW p \in MorphoLoose, NEW v \in Nat, NEW q, q = [p EXCEPT !.supplyShares = v]
    PROVE  q \in MorphoLoose /\ q.supplyShares = v
BY DEF MorphoLoose

LEMMA MorphoBorrowPlaced ==
    ASSUME NEW p \in MorphoLoose, NEW v \in Nat, NEW q, q = [p EXCEPT !.borrowShares = v]
    PROVE  q \in MorphoLoose /\ q.borrowShares = v /\ q.collateral = p.collateral
BY DEF MorphoLoose

LEMMA MorphoCollateralPlaced ==
    ASSUME NEW p \in MorphoLoose, NEW v \in Nat, NEW q, q = [p EXCEPT !.collateral = v]
    PROVE  q \in MorphoLoose /\ q.collateral = v /\ q.borrowShares = p.borrowShares
BY DEF MorphoLoose

LEMMA MorphoFields ==
    ASSUME NEW c \in Morpho!States
    PROVE  /\ c.state.supplyAssets \in Int /\ c.state.supplyShares \in Int
           /\ c.state.borrowAssets \in Int /\ c.state.borrowShares \in Int
           /\ c.position.supplyShares \in Nat /\ c.position.borrowShares \in Nat /\ c.position.collateral \in Nat
<1>1. c.state \in MorphoMarkets /\ c.position \in MorphoLoose
  BY MorphoLooser
<1>2. QED
  BY <1>1 DEF MorphoMarkets, MorphoLoose

LEMMA MorphoSupplies ==
    ASSUME NEW c \in Morpho!States, NEW n \in 0..Morpho!MaxUint,
           NEW d \in Morpho!Call(c, Morpho!MorphoCall("supply", n, 0))
    PROVE  d \in Morpho!States
<1>1. PICK e : e = Morpho!Accrued(c) /\ e \in Morpho!States
  BY MorphoAccrued
<1>2. Morpho!Fits(d) /\ d \in Morpho!OnSupply(e, n)
  BY <1>1, MorphoCalled DEF Morpho!MorphoCall
<1>3. PICK shares : /\ shares = Morpho!ToSharesDown(n, e.state.supplyAssets, e.state.supplyShares)
                    /\ shares # Morpho!Err
  BY <1>2 DEF Morpho!OnSupply
<1>4. shares \in Nat
  BY <1>3, MorphoConversions, MorphoWidth DEF MorphoResults
<1>5. PICK b \in Morpho!Pays(e, "loan", n) :
        d = [b EXCEPT !.state.supplyAssets = @ + n, !.state.supplyShares = @ + shares,
                      !.position.supplyShares = @ + shares]
  BY <1>2, <1>3 DEF Morpho!OnSupply
<1>6. PICK balance \in [Morpho!Tokens -> Nat], allowance \in MorphoHoldings :
        b = MorphoRecord(e, e.state, e.elapsed, e.position, balance, allowance)
  BY <1>1, MorphoPulls DEF Morpho!Tokens
<1>7. MorphoTerms(e) /\ e.state \in MorphoMarkets /\ e.elapsed \in Nat /\ e.position \in MorphoLoose
  BY <1>1, MorphoLooser
<1>8. PICK x, y, v, state, position :
        /\ x = e.state.supplyAssets + n /\ y = e.state.supplyShares + shares
        /\ v = e.position.supplyShares + shares
        /\ state = [e.state EXCEPT !.supplyAssets = x, !.supplyShares = y]
        /\ position = [e.position EXCEPT !.supplyShares = v]
  OBVIOUS
<1>9. d = MorphoRecord(e, state, e.elapsed, position, balance, allowance)
  BY <1>5, <1>6, <1>8 DEF MorphoRecord
<1>10. n \in Nat
  BY MorphoWidth
<1>11. x \in Int /\ y \in Int /\ v \in Nat
  BY <1>1, <1>4, <1>8, <1>10, MorphoFields
<1>12. state \in MorphoMarkets /\ position \in MorphoLoose
  BY <1>7, <1>8, <1>11, MorphoSupplied, MorphoSupplyPlaced
<1>13. QED
  BY <1>2, <1>6, <1>7, <1>9, <1>12, MorphoFitting

LEMMA MorphoWithdraws ==
    ASSUME NEW c \in Morpho!States, NEW assets \in 0..Morpho!MaxUint, NEW s \in 0..Morpho!MaxUint,
           NEW d \in Morpho!Call(c, Morpho!MorphoCall("withdraw", assets, s))
    PROVE  /\ d \in Morpho!States
           /\ s # 0 => d.position.supplyShares = c.position.supplyShares - s
<1>1. PICK e : e = Morpho!Accrued(c) /\ e \in Morpho!States /\ e.position = c.position
  BY MorphoAccrued
<1>2. PICK k : k = Morpho!MorphoCall("withdraw", assets, s)
  OBVIOUS
<1>3. k.fn = "withdraw" /\ k.assets = assets /\ k.shares = s
  BY <1>2 DEF Morpho!MorphoCall
<1>4. Morpho!Fits(d) /\ d \in Morpho!OnWithdraw(e, k)
  BY <1>1, <1>2, <1>3, MorphoCalled
<1>5. PICK n, shares :
        /\ n = IF k.shares = 0 THEN k.assets
               ELSE Morpho!ToAssetsDown(k.shares, e.state.supplyAssets, e.state.supplyShares)
        /\ shares = IF k.shares # 0 THEN k.shares
                    ELSE Morpho!ToSharesUp(k.assets, e.state.supplyAssets, e.state.supplyShares)
  OBVIOUS
<1>6. /\ n # Morpho!Err /\ shares # Morpho!Err /\ ~(shares > e.position.supplyShares)
      /\ d = [e EXCEPT !.state.supplyAssets = @ - n, !.state.supplyShares = @ - shares,
                       !.position.supplyShares = @ - shares, !.balance["loan"] = @ + n]
  BY <1>4, <1>5 DEF Morpho!OnWithdraw
<1>7. n \in Nat /\ shares \in Nat
  <2>1. n \in 0..Morpho!MaxUint /\ shares \in 0..Morpho!MaxUint
    BY <1>3, <1>5, <1>6, MorphoConversions DEF MorphoResults
  <2>2. QED
    BY <2>1, MorphoWidth
<1>8. /\ e = MorphoRecord(e, e.state, e.elapsed, e.position, e.balance, e.allowance)
      /\ MorphoTerms(e) /\ e.state \in MorphoMarkets /\ e.elapsed \in Nat
      /\ e.position \in MorphoLoose /\ e.balance \in [Morpho!Tokens -> Nat] /\ e.allowance \in MorphoHoldings
      /\ e.balance["loan"] \in Nat
  BY <1>1, MorphoLooser DEF Morpho!Tokens
<1>9. PICK x, y, v, b, state, position, balance :
        /\ x = e.state.supplyAssets - n /\ y = e.state.supplyShares - shares
        /\ v = e.position.supplyShares - shares /\ b = e.balance["loan"] + n
        /\ state = [e.state EXCEPT !.supplyAssets = x, !.supplyShares = y]
        /\ position = [e.position EXCEPT !.supplyShares = v]
        /\ balance = [e.balance EXCEPT !["loan"] = b]
  OBVIOUS
<1>10. d = MorphoRecord(e, state, e.elapsed, position, balance, e.allowance)
  BY <1>6, <1>8, <1>9 DEF MorphoRecord
<1>11. x \in Int /\ y \in Int /\ v \in Nat /\ b \in Nat
  BY <1>1, <1>6, <1>7, <1>8, <1>9, MorphoFields
<1>12. /\ state \in MorphoMarkets /\ position \in MorphoLoose /\ position.supplyShares = v
       /\ balance \in [Morpho!Tokens -> Nat]
  <2>1. state \in MorphoMarkets
    BY <1>8, <1>9, <1>11, MorphoSupplied
  <2>2. position \in MorphoLoose /\ position.supplyShares = v
    BY <1>8, <1>9, <1>11, MorphoSupplyPlaced
  <2>3. balance \in [Morpho!Tokens -> Nat]
    BY <1>8, <1>9, <1>11, Put
  <2>4. QED
    BY <2>1, <2>2, <2>3
<1>13. d \in Morpho!States
  BY <1>4, <1>8, <1>10, <1>12, MorphoFitting
<1>14. s # 0 => d.position.supplyShares = c.position.supplyShares - s
  <2>1. d.position = position
    BY <1>10, MorphoParts
  <2>2. QED
    BY <1>1, <1>3, <1>5, <1>9, <1>12, <2>1
<1>15. QED
  BY <1>13, <1>14

LEMMA MorphoRepays ==
    ASSUME NEW c \in Morpho!States, NEW assets \in 0..Morpho!MaxUint, NEW s \in 0..Morpho!MaxUint,
           NEW d \in Morpho!Call(c, Morpho!MorphoCall("repay", assets, s))
    PROVE  /\ d \in Morpho!States
           /\ s # 0 => d.position.borrowShares = c.position.borrowShares - s
<1>1. PICK e : e = Morpho!Accrued(c) /\ e \in Morpho!States /\ e.position = c.position
  BY MorphoAccrued
<1>2. PICK k : k = Morpho!MorphoCall("repay", assets, s)
  OBVIOUS
<1>3. k.fn = "repay" /\ k.assets = assets /\ k.shares = s
  BY <1>2 DEF Morpho!MorphoCall
<1>4. Morpho!Fits(d) /\ d \in Morpho!OnRepay(e, k)
  BY <1>1, <1>2, <1>3, MorphoCalled
<1>5. PICK n, shares :
        /\ n = IF k.shares = 0 THEN k.assets
               ELSE Morpho!ToAssetsUp(k.shares, e.state.borrowAssets, e.state.borrowShares)
        /\ shares = IF k.shares # 0 THEN k.shares
                    ELSE Morpho!ToSharesDown(k.assets, e.state.borrowAssets, e.state.borrowShares)
  OBVIOUS
<1>6. /\ n # Morpho!Err /\ shares # Morpho!Err /\ ~(shares > e.position.borrowShares)
      /\ \E b \in Morpho!Pays(e, "loan", n) :
           d = [b EXCEPT !.state.borrowAssets = Morpho!SaturatingSub(@, n),
                         !.state.borrowShares = @ - shares, !.position.borrowShares = @ - shares]
  BY <1>4, <1>5 DEF Morpho!OnRepay
<1>7. n \in 0..Morpho!MaxUint /\ n \in Nat /\ shares \in Nat
  <2>1. n \in 0..Morpho!MaxUint /\ shares \in 0..Morpho!MaxUint
    BY <1>3, <1>5, <1>6, MorphoConversions DEF MorphoResults
  <2>2. QED
    BY <2>1, MorphoWidth
<1>8. PICK b \in Morpho!Pays(e, "loan", n) :
        d = [b EXCEPT !.state.borrowAssets = Morpho!SaturatingSub(@, n),
                      !.state.borrowShares = @ - shares, !.position.borrowShares = @ - shares]
  BY <1>6
<1>9. PICK balance \in [Morpho!Tokens -> Nat], allowance \in MorphoHoldings :
        b = MorphoRecord(e, e.state, e.elapsed, e.position, balance, allowance)
  BY <1>1, <1>7, MorphoPulls DEF Morpho!Tokens
<1>10. MorphoTerms(e) /\ e.state \in MorphoMarkets /\ e.elapsed \in Nat /\ e.position \in MorphoLoose
  BY <1>1, MorphoLooser
<1>11. PICK x, y, v, state, position :
        /\ x = Morpho!SaturatingSub(e.state.borrowAssets, n) /\ y = e.state.borrowShares - shares
        /\ v = e.position.borrowShares - shares
        /\ state = [e.state EXCEPT !.borrowAssets = x, !.borrowShares = y]
        /\ position = [e.position EXCEPT !.borrowShares = v]
  OBVIOUS
<1>12. d = MorphoRecord(e, state, e.elapsed, position, balance, allowance)
  BY <1>8, <1>9, <1>11 DEF MorphoRecord
<1>13. x \in Int /\ y \in Int /\ v \in Nat
  BY <1>1, <1>6, <1>7, <1>11, MorphoFields DEF Morpho!SaturatingSub
<1>14. state \in MorphoMarkets /\ position \in MorphoLoose /\ position.borrowShares = v
  <2>1. state \in MorphoMarkets
    BY <1>10, <1>11, <1>13, MorphoOwing
  <2>2. position \in MorphoLoose /\ position.borrowShares = v
    BY <1>10, <1>11, <1>13, MorphoBorrowPlaced
  <2>3. QED
    BY <2>1, <2>2
<1>15. d \in Morpho!States
  BY <1>4, <1>9, <1>10, <1>12, <1>14, MorphoFitting
<1>16. s # 0 => d.position.borrowShares = c.position.borrowShares - s
  <2>1. d.position = position
    BY <1>12, MorphoParts
  <2>2. QED
    BY <1>1, <1>3, <1>5, <1>11, <1>14, <2>1
<1>17. QED
  BY <1>15, <1>16

LEMMA MorphoSuppliesCollateral ==
    ASSUME NEW c \in Morpho!States, NEW n \in 0..Morpho!MaxUint,
           NEW d \in Morpho!Call(c, Morpho!MorphoCall("supply_collateral", n, 0))
    PROVE  d \in Morpho!States
<1>1. Morpho!Fits(d) /\ d \in Morpho!OnSupplyCollateral(c, n)
  BY MorphoCalled DEF Morpho!MorphoCall
<1>2. PICK b \in Morpho!Pays(c, "collateral", n) : d = [b EXCEPT !.position.collateral = @ + n]
  BY <1>1 DEF Morpho!OnSupplyCollateral
<1>3. PICK balance \in [Morpho!Tokens -> Nat], allowance \in MorphoHoldings :
        b = MorphoRecord(c, c.state, c.elapsed, c.position, balance, allowance)
  BY MorphoPulls DEF Morpho!Tokens
<1>4. MorphoTerms(c) /\ c.state \in MorphoMarkets /\ c.elapsed \in Nat /\ c.position \in MorphoLoose
  BY MorphoLooser
<1>5. PICK v, position : /\ v = c.position.collateral + n
                         /\ position = [c.position EXCEPT !.collateral = v]
  OBVIOUS
<1>6. d = MorphoRecord(c, c.state, c.elapsed, position, balance, allowance)
  BY <1>2, <1>3, <1>5 DEF MorphoRecord
<1>7. v \in Nat
  BY <1>5, MorphoFields, MorphoWidth
<1>8. position \in MorphoLoose
  BY <1>4, <1>5, <1>7, MorphoCollateralPlaced
<1>9. QED
  BY <1>1, <1>3, <1>4, <1>6, <1>8, MorphoFitting

\* A loan: what the wallet owes by then, in the accrued market.
MorphoBorrowed(c, d, n) ==
    LET m == Morpho!Accrued(c).state
        shares == Morpho!ToSharesUp(n, m.borrowAssets, m.borrowShares)
    IN /\ d \in Morpho!States /\ d.price = c.price /\ d.lltv = c.lltv
       /\ shares \in Nat
       /\ d.state.borrowAssets = m.borrowAssets + n /\ d.state.borrowShares = m.borrowShares + shares
       /\ d.position.borrowShares = c.position.borrowShares + shares
       /\ d.position.collateral = c.position.collateral
       /\ Morpho!HealthyAt(d, Morpho!Wad)

LEMMA MorphoBorrows ==
    ASSUME NEW c \in Morpho!States, NEW n \in 0..Morpho!MaxUint,
           NEW d \in Morpho!Call(c, Morpho!MorphoCall("borrow", n, 0))
    PROVE  MorphoBorrowed(c, d, n)
<1>1. PICK e : /\ e = Morpho!Accrued(c) /\ e \in Morpho!States /\ e.position = c.position
               /\ e.price = c.price /\ e.lltv = c.lltv
  BY MorphoAccrued
<1>2. Morpho!Fits(d) /\ d \in Morpho!OnBorrow(e, n)
  BY <1>1, MorphoCalled DEF Morpho!MorphoCall
<1>3. PICK shares : shares = Morpho!ToSharesUp(n, e.state.borrowAssets, e.state.borrowShares)
  OBVIOUS
<1>4. /\ shares # Morpho!Err /\ Morpho!HealthyAt(d, Morpho!Wad)
      /\ d = [e EXCEPT !.state.borrowAssets = @ + n, !.state.borrowShares = @ + shares,
                       !.position.borrowShares = @ + shares, !.balance["loan"] = @ + n]
  BY <1>2, <1>3 DEF Morpho!OnBorrow
<1>5. shares \in Nat /\ n \in Nat
  BY <1>3, <1>4, MorphoConversions, MorphoWidth DEF MorphoResults
<1>6. /\ e = MorphoRecord(e, e.state, e.elapsed, e.position, e.balance, e.allowance)
      /\ MorphoTerms(e) /\ e.state \in MorphoMarkets /\ e.elapsed \in Nat
      /\ e.position \in MorphoLoose /\ e.balance \in [Morpho!Tokens -> Nat] /\ e.allowance \in MorphoHoldings
      /\ e.balance["loan"] \in Nat
  BY <1>1, MorphoLooser DEF Morpho!Tokens
<1>7. PICK x, y, v, b, state, position, balance :
        /\ x = e.state.borrowAssets + n /\ y = e.state.borrowShares + shares
        /\ v = e.position.borrowShares + shares /\ b = e.balance["loan"] + n
        /\ state = [e.state EXCEPT !.borrowAssets = x, !.borrowShares = y]
        /\ position = [e.position EXCEPT !.borrowShares = v]
        /\ balance = [e.balance EXCEPT !["loan"] = b]
  OBVIOUS
<1>8. d = MorphoRecord(e, state, e.elapsed, position, balance, e.allowance)
  BY <1>4, <1>6, <1>7 DEF MorphoRecord
<1>9. x \in Int /\ y \in Int /\ v \in Nat /\ b \in Nat
  BY <1>1, <1>5, <1>6, <1>7, MorphoFields
<1>10. /\ state \in MorphoMarkets /\ state.borrowAssets = x /\ state.borrowShares = y
       /\ position \in MorphoLoose /\ position.borrowShares = v /\ position.collateral = e.position.collateral
       /\ balance \in [Morpho!Tokens -> Nat]
  <2>1. state \in MorphoMarkets
    BY <1>6, <1>7, <1>9, MorphoOwing
  <2>0. state.borrowAssets = x /\ state.borrowShares = y
    BY <1>6, <1>7 DEF MorphoMarkets
  <2>2. position \in MorphoLoose /\ position.borrowShares = v /\ position.collateral = e.position.collateral
    BY <1>6, <1>7, <1>9, MorphoBorrowPlaced
  <2>3. balance \in [Morpho!Tokens -> Nat]
    BY <1>6, <1>7, <1>9, Put
  <2>4. QED
    BY <2>0, <2>1, <2>2, <2>3
<1>11. d \in Morpho!States
  BY <1>2, <1>6, <1>8, <1>10, MorphoFitting
<1>12. /\ d.state = state /\ d.position = position /\ d.price = e.price /\ d.lltv = e.lltv
  BY <1>8, MorphoParts
<1>13. QED
  BY <1>1, <1>3, <1>4, <1>5, <1>7, <1>10, <1>11, <1>12 DEF MorphoBorrowed

\* Collateral withdrawn: less of it covers what is owed by then.
MorphoUncovered(c, d, n) ==
    LET m == Morpho!Accrued(c).state
    IN /\ d \in Morpho!States /\ d.price = c.price /\ d.lltv = c.lltv /\ d.state = m
       /\ d.position.borrowShares = c.position.borrowShares
       /\ d.position.collateral = c.position.collateral - n
       /\ Morpho!HealthyAt(d, Morpho!Wad)

LEMMA MorphoWithdrawsCollateral ==
    ASSUME NEW c \in Morpho!States, NEW n \in 0..Morpho!MaxUint,
           NEW d \in Morpho!Call(c, Morpho!MorphoCall("withdraw_collateral", n, 0))
    PROVE  MorphoUncovered(c, d, n)
<1>1. PICK e : /\ e = Morpho!Accrued(c) /\ e \in Morpho!States /\ e.position = c.position
               /\ e.price = c.price /\ e.lltv = c.lltv
  BY MorphoAccrued
<1>2. Morpho!Fits(d) /\ d \in Morpho!OnWithdrawCollateral(e, n)
  BY <1>1, MorphoCalled DEF Morpho!MorphoCall
<1>3. /\ ~(n > e.position.collateral) /\ Morpho!HealthyAt(d, Morpho!Wad)
      /\ d = [e EXCEPT !.position.collateral = @ - n, !.balance["collateral"] = @ + n]
  BY <1>2 DEF Morpho!OnWithdrawCollateral
<1>4. /\ e = MorphoRecord(e, e.state, e.elapsed, e.position, e.balance, e.allowance)
      /\ MorphoTerms(e) /\ e.state \in MorphoMarkets /\ e.elapsed \in Nat
      /\ e.position \in MorphoLoose /\ e.balance \in [Morpho!Tokens -> Nat] /\ e.allowance \in MorphoHoldings
      /\ e.balance["collateral"] \in Nat
  BY <1>1, MorphoLooser DEF Morpho!Tokens
<1>5. PICK v, b, position, balance :
        /\ v = e.position.collateral - n /\ b = e.balance["collateral"] + n
        /\ position = [e.position EXCEPT !.collateral = v]
        /\ balance = [e.balance EXCEPT !["collateral"] = b]
  OBVIOUS
<1>6. d = MorphoRecord(e, e.state, e.elapsed, position, balance, e.allowance)
  BY <1>3, <1>4, <1>5 DEF MorphoRecord
<1>7. n \in Nat
  BY MorphoWidth
<1>8. v \in Nat /\ b \in Nat
  BY <1>1, <1>3, <1>4, <1>5, <1>7, MorphoFields
<1>9. /\ position \in MorphoLoose /\ position.collateral = v /\ position.borrowShares = e.position.borrowShares
      /\ balance \in [Morpho!Tokens -> Nat]
  <2>1. position \in MorphoLoose /\ position.collateral = v /\ position.borrowShares = e.position.borrowShares
    BY <1>4, <1>5, <1>8, MorphoCollateralPlaced
  <2>2. balance \in [Morpho!Tokens -> Nat]
    BY <1>4, <1>5, <1>8, Put
  <2>3. QED
    BY <2>1, <2>2
<1>10. d \in Morpho!States
  BY <1>2, <1>4, <1>6, <1>9, MorphoFitting
<1>11. d.state = e.state /\ d.position = position /\ d.price = e.price /\ d.lltv = e.lltv
  BY <1>6, MorphoParts
<1>12. QED
  BY <1>1, <1>3, <1>5, <1>9, <1>10, <1>11 DEF MorphoUncovered

\* Moves of the market leave the position as it is.
MorphoView == [c \in Morpho!States |-> c.position]
LEMMA MorphoMoves ==
    ASSUME NEW c \in Morpho!States, NEW d \in Morpho!Moves(c)
    PROVE  d \in Morpho!States /\ MorphoView[d] = MorphoView[c]
<1>1. c.elapsed \in Nat /\ c.price \in Nat \cup {Morpho!Err}
  BY MorphoShape DEF MorphoTyped, MorphoTerms
<1>2. ASSUME NEW p \in Nat \cup {Morpho!Err}, d = [c EXCEPT !.price = p]
      PROVE  d \in Morpho!States /\ d.position = c.position
  BY <1>2 DEF Morpho!States
<1>3. ASSUME NEW t \in Nat, d = [c EXCEPT !.elapsed = t]
      PROVE  d \in Morpho!States /\ d.position = c.position
  BY <1>3 DEF Morpho!States
<1>4. d \in Morpho!States /\ d.position = c.position
  <2>1. CASE d = [c EXCEPT !.elapsed = @ + 1]
    <3>1. PICK t : t = c.elapsed + 1 /\ t \in Nat
      BY <1>1
    <3>2. QED
      BY <1>3, <2>1, <3>1
  <2>2. CASE d = [c EXCEPT !.price = IF @ = 2 THEN 1 ELSE 2]
    <3>1. PICK p : p = IF c.price = 2 THEN 1 ELSE 2
      OBVIOUS
    <3>2. p \in Nat \cup {Morpho!Err}
      BY <3>1
    <3>3. QED
      BY <1>2, <2>2, <3>1, <3>2
  <2>3. CASE d = [c EXCEPT !.price = Morpho!Err]
    BY <1>2, <2>3
  <2>4. QED
    BY <2>1, <2>2, <2>3 DEF Morpho!Moves
<1>5. QED
  BY <1>4 DEF MorphoView

-----------------------------------------------------------------------------
(* Morpho: the amount of a request, and its minimal health. *)

LEMMA MorphoDecimal ==
    ASSUME NEW t, NEW D
    PROVE  Morpho!ParseDecimal(t, D) \in MorphoResults
<1>1. PICK s : s = t.digits \o [i \in 1..D - Len(t.digits) |-> 0]
  OBVIOUS
<1>2. \/ Morpho!ParseDecimal(t, D) = Morpho!Err
      \/ Morpho!ParseDecimal(t, D) = Morpho!Checked(MorphoAppended(t.whole, s))
  BY <1>1 DEF Morpho!ParseDecimal, MorphoAppended
<1>3. Morpho!Err \in MorphoResults
  BY DEF MorphoResults
<1>4. QED
  BY <1>2, <1>3, MorphoChecked

LEMMA MorphoComplement ==
    ASSUME NEW n \in Nat
    PROVE  Morpho!Complement(n) \in MorphoResults
<1>1. Morpho!Complement(n) = Morpho!Err \/ Morpho!Complement(n) \in 0..Morpho!MaxUint
  BY DEF Morpho!Complement, Morpho!MaxUint
<1>2. QED
  BY <1>1 DEF MorphoResults

MorphoText(t) == Morpho!IsText(t) \/ (t = Morpho!Negative(t.whole) /\ t.whole \in Nat)

LEMMA MorphoUnits ==
    ASSUME NEW t, MorphoText(t), NEW D \in {0, 2}
    PROVE  Morpho!ParseUnits(t, D) \in MorphoResults
<1>1. 10 ^ 0 = 1 /\ 10 ^ 2 = 100
  OBVIOUS
<1>2. ASSUME t.kind = "negative"
      PROVE  Morpho!ParseUnits(t, D) \in MorphoResults
  <2>1. t.whole \in Nat
    BY <1>2 DEF MorphoText, Morpho!IsText, Morpho!Absent, Morpho!MaxText, Morpho!Malformed, Morpho!Number
  <2>2. PICK n : n = t.whole * 10 ^ D
    OBVIOUS
  <2>3. n \in Nat
    <3>1. CASE D = 0
      BY <1>1, <2>1, <2>2, <3>1
    <3>2. CASE D = 2
      BY <1>1, <2>1, <2>2, <3>2
    <3>3. QED
      BY <3>1, <3>2
  <2>4. Morpho!ParseUnits(t, D) = Morpho!Complement(n)
    BY <1>2, <2>2 DEF Morpho!ParseUnits
  <2>5. QED
    BY <2>3, <2>4, MorphoComplement
<1>3. t.kind # "negative" => \E u : Morpho!ParseUnits(t, D) = Morpho!ParseDecimal(u, D)
  BY DEF Morpho!ParseUnits
<1>4. QED
  BY <1>2, <1>3, MorphoDecimal

\* A number without decimals is its whole part: its digits are cut off.
LEMMA MorphoWhole ==
    ASSUME NEW t, MorphoText(t), t.kind # "negative", NEW n, n = Morpho!ParseUnits(t, 0), n # Morpho!Err
    PROVE  t.kind = "number" /\ t.whole \in Nat /\ t.digits \in Seq(0..9) /\ n = t.whole
<1>1. Morpho!IsText(t)
  BY DEF MorphoText, Morpho!Negative
<1>2. t.kind = "number"
  <2>1. Morpho!ParseUnits(t, 0) = Morpho!Err \/ t.kind = "number"
    BY DEF Morpho!ParseUnits, Morpho!ParseDecimal
  <2>2. QED
    BY <2>1
<1>3. t = Morpho!Number(t.whole, t.digits) /\ t.whole \in Nat /\ t.digits \in Seq(0..9)
  BY <1>1, <1>2 DEF Morpho!IsText, Morpho!Absent, Morpho!MaxText, Morpho!Malformed
<1>4. PICK u : u = Morpho!Number(t.whole, <<>>)
  OBVIOUS
<1>5. u.kind = "number" /\ u.whole = t.whole /\ u.digits = <<>>
  BY <1>4 DEF Morpho!Number
<1>6. n = Morpho!ParseDecimal(u, 0)
  <2>1. CASE Len(t.digits) > 0
    <3>1. SubSeq(t.digits, 1, 0) = <<>>
      BY <1>3
    <3>2. [t EXCEPT !.digits = <<>>] = u
      BY <1>3, <1>4 DEF Morpho!Number
    <3>3. n = Morpho!ParseDecimal([t EXCEPT !.digits = SubSeq(t.digits, 1, 0)], 0)
      BY <1>2, <2>1 DEF Morpho!ParseUnits
    <3>4. QED
      BY <3>1, <3>2, <3>3
  <2>2. CASE ~(Len(t.digits) > 0)
    <3>1. t.digits = <<>>
      BY <1>3, <2>2
    <3>2. t = u
      BY <1>3, <1>4, <3>1
    <3>3. QED
      BY <1>2, <2>2, <3>2 DEF Morpho!ParseUnits
  <2>3. QED
    BY <2>1, <2>2
<1>7. Plain!IsText(u)
  <2>1. u = Morpho!Number(u.whole, u.digits) /\ u.whole \in Nat
    BY <1>3, <1>4, <1>5
  <2>2. u.digits \in Seq(0..9)
    BY <1>5
  <2>3. Morpho!IsText(u)
    BY <2>1, <2>2 DEF Morpho!IsText
  <2>4. QED
    BY <2>3, MorphoAmounts
<1>8. n = Plain!ParseDecimal(u, 0) /\ n # Plain!Err
  BY <1>6, MorphoAmounts
<1>9. n = u.whole * 10 ^ 0 + Worth(u.digits, 0)
  BY <1>7, <1>8, Parsed
<1>10. Worth(u.digits, 0) = 0
  <2>1. PICK digits, D : digits = u.digits /\ D = 0
    OBVIOUS
  <2>2. digits \in Seq(0..9) /\ Len(digits) = 0 /\ D \in {0, 1} /\ Len(digits) <= D
    BY <1>5, <2>1
  <2>3. Worth(digits, D) = 0
    BY <2>2, WorthOfOne
  <2>4. QED
    BY <2>1, <2>3
<1>11. 10 ^ 0 = 1
  OBVIOUS
<1>12. QED
  BY <1>2, <1>3, <1>5, <1>9, <1>10, <1>11

LEMMA MorphoMinimum ==
    ASSUME NEW r \in MorphoRequests, NEW min, min = Morpho!ParseMinHealthFactor(r), min # Morpho!Err
    PROVE  min \in Nat
<1>1. MorphoText(r.min_health_factor)
  BY MorphoAssumption DEF Morpho!IsRequest, MorphoText
<1>2. PICK n : n = IF r.min_health_factor = Morpho!Absent THEN 105
                   ELSE Morpho!ParseUnits(r.min_health_factor, 2)
  OBVIOUS
<1>3. n \in Int
  BY <1>1, <1>2, MorphoUnits, MorphoChecked
<1>4. min = n /\ ~(n < 100)
  BY <1>2 DEF Morpho!ParseMinHealthFactor, Morpho!Wad, Morpho!WadDecimals
<1>5. QED
  BY <1>3, <1>4

MorphoTenths(r) ==
    IF r.amount = Morpho!Absent THEN 10 * r.amount_raw.whole ELSE Morpho!Meaning(r, 1)

\* A request names its amount in one of the two fields.
LEMMA MorphoOneAmount ==
    ASSUME NEW r, Morpho!Valid(r), r.op \in Morpho!Actions
    PROVE  r.amount = Morpho!Absent \/ r.amount_raw = Morpho!Absent
<1>1. PICK S : S = {x \in {"amount", "amount_raw"} : r[x] # Morpho!Absent}
  OBVIOUS
<1>2. Morpho!Cardinality(S) = 1
  BY <1>1 DEF Morpho!Valid
<1>3. Morpho!Cardinality(S) = Cardinality(S)
  BY DEF Morpho!Cardinality, Cardinality
<1>4. PICK x : S = {x}
  <2>1. IsFiniteSet({"amount"})
    BY FS_Singleton
  <2>2. IsFiniteSet({"amount"} \cup {"amount_raw"})
    BY <2>1, FS_AddElement
  <2>3. IsFiniteSet(S)
    BY <1>1, <2>2, FS_Subset
  <2>4. QED
    BY <1>2, <1>3, <2>3, FS_Singleton
<1>5. ~("amount" \in S /\ "amount_raw" \in S)
  BY <1>4
<1>6. "amount" \notin S => r["amount"] = Morpho!Absent
  BY <1>1
<1>7. "amount_raw" \notin S => r["amount_raw"] = Morpho!Absent
  BY <1>1
<1>8. QED
  BY <1>5, <1>6, <1>7

LEMMA MorphoAmountIs ==
    ASSUME NEW r \in MorphoRequests, Morpho!Valid(r), r.op \in Morpho!Actions, ~Morpho!IsMax(r),
           NEW n, n = Morpho!ParseRequestAmount(r), n # Morpho!Err
    PROVE  /\ n \in 0..Morpho!MaxUint /\ n # 0
           /\ r.amount.kind = "negative" \/ 10 * n \in MorphoTenths(r) - 9..MorphoTenths(r)
<1>1. /\ MorphoText(r.amount) /\ MorphoText(r.amount_raw)
      /\ r.amount.kind = "number" => Len(r.amount.digits) <= 1
  BY MorphoAssumption DEF Morpho!IsRequest, MorphoText
<1>2. PICK m : m = IF r.amount_raw # Morpho!Absent THEN Morpho!ParseRaw(r.amount_raw)
                   ELSE Morpho!ParseUnits(r.amount, 0)
  OBVIOUS
<1>3. n = m /\ n # 0
  BY <1>2 DEF Morpho!ParseRequestAmount
<1>4. CASE r.amount_raw # Morpho!Absent
  <2>1. r.amount = Morpho!Absent
    BY <1>4, MorphoOneAmount
  <2>2. n = Morpho!ParseRaw(r.amount_raw)
    BY <1>2, <1>3, <1>4
  <2>3. n \in 0..Morpho!MaxUint /\ n = r.amount_raw.whole
    BY <2>2 DEF Morpho!ParseRaw, Morpho!Checked
  <2>4. MorphoTenths(r) = 10 * r.amount_raw.whole
    BY <2>1 DEF MorphoTenths
  <2>5. QED
    BY <1>3, <2>3, <2>4, MorphoWidth
<1>5. CASE r.amount_raw = Morpho!Absent
  <2>1. n = Morpho!ParseUnits(r.amount, 0)
    BY <1>2, <1>3, <1>5
  <2>2. n \in 0..Morpho!MaxUint
    <3>1. Morpho!ParseUnits(r.amount, 0) \in MorphoResults
      BY <1>1, MorphoUnits
    <3>2. QED
      BY <2>1, <3>1 DEF MorphoResults
  <2>3. ASSUME r.amount.kind # "negative"
        PROVE  10 * n \in MorphoTenths(r) - 9..MorphoTenths(r)
    <3>1. PICK t, whole, digits : t = r.amount /\ whole = t.whole /\ digits = t.digits
      OBVIOUS
    <3>2. t.kind = "number" /\ whole \in Nat /\ digits \in Seq(0..9) /\ n = whole
      BY <1>1, <2>1, <2>3, <3>1, MorphoWhole
    <3>3. r.amount # Morpho!Absent
      BY <3>1, <3>2 DEF Morpho!Absent
    <3>4. Len(digits) \in Nat /\ Len(digits) <= 1
      BY <1>1, <3>1, <3>2
    <3>5. PICK w, one : w = Worth(digits, one) /\ one = 1
      OBVIOUS
    <3>6. w \in 0..9
      <4>1. one \in {0, 1} /\ Len(digits) <= one
        BY <3>4, <3>5
      <4>2. /\ w = IF Len(digits) = 0 THEN 0 ELSE digits[1]
            /\ Len(digits) = 1 => digits[1] \in 0..9
        BY <3>2, <3>5, <4>1, WorthOfOne
      <4>3. Len(digits) = 0 \/ Len(digits) = 1
        <5>1. \A l \in Nat : l <= 1 => l = 0 \/ l = 1
          OBVIOUS
        <5>2. QED
          BY <3>4, <5>1, Zenon
      <4>4. 0 \in 0..9
        OBVIOUS
      <4>5. CASE Len(digits) = 0
        BY <4>2, <4>4, <4>5
      <4>6. CASE Len(digits) = 1
        <5>1. w = digits[1]
          BY <4>2, <4>6
        <5>2. QED
          BY <4>2, <4>6, <5>1
      <4>7. QED
        BY <4>3, <4>5, <4>6
    <3>7. MorphoTenths(r) = whole * 10 ^ 1 + w
      <4>1. MorphoTenths(r) = Plain!Meaning(r, 1)
        BY <3>3, MorphoAmounts DEF MorphoTenths
      <4>2. Plain!Meaning(r, 1) = whole * 10 ^ 1 + Worth(digits, 1)
        BY <3>1, <3>3, MorphoAmounts DEF Plain!Meaning, Worth, Added
      <4>3. QED
        BY <3>5, <4>1, <4>2
    <3>8. 10 ^ 1 = 10
      OBVIOUS
    <3>9. QED
      BY <3>2, <3>6, <3>7, <3>8
  <2>4. QED
    BY <1>3, <2>2, <2>3
<1>6. QED
  BY <1>4, <1>5

-----------------------------------------------------------------------------
(* Morpho: the batches of the six requests, and where their amount comes from. *)

\* An amount names assets or shares, and is not zero.
MorphoAmount(n) ==
    \E a \in 0..Morpho!MaxUint : a # 0 /\ (n = Morpho!Assets(a) \/ n = Morpho!Shares(a))

\* The guard, over the position of one chain and the market of another.
MorphoGuard(b, c, r, n) ==
    /\ n.shares = 0
    /\ \/ r.op = "withdraw_collateral" /\ b.position.borrowShares = 0
       \/ /\ Morpho!OracleAnswers(Morpho!Context(Morpho!Read(c, "market", r), TRUE))
          /\ Morpho!EnforceHealthGuard(r, Morpho!Context(Morpho!Read(c, "market", r), TRUE), b.position, n.assets)

MorphoReason(r, n, known) ==
    /\ MorphoAmount(n)
    /\ ~Morpho!IsMax(r) => /\ n.shares = 0
                           /\ \/ r.amount.kind = "negative"
                              \/ 10 * n.assets \in MorphoTenths(r) - 9..MorphoTenths(r)
    /\ Morpho!IsMax(r) /\ r.op = "repay" => \E c \in known : n = Morpho!Shares(c.position.borrowShares)
    /\ Morpho!IsMax(r) /\ r.op = "withdraw" => \E c \in known : n = Morpho!Shares(c.position.supplyShares)
    /\ r.op \notin {"repay", "withdraw"} => n.shares = 0
    /\ r.op \in Morpho!Guarded => \E b, c \in known : MorphoGuard(b, c, r, n)

LEMMA MorphoReadIs ==
    ASSUME NEW c \in Morpho!States, NEW r
    PROVE  /\ Morpho!Read(c, "position", r) = c.position
           /\ Morpho!Read(c, "balance", r) \in 0..Morpho!MaxUint
<1>1. Morpho!Read(c, "position", r) = c.position
  BY DEF Morpho!Read
<1>2. PICK token \in Morpho!Tokens : Morpho!Read(c, "balance", r) = c.balance[token]
  BY DEF Morpho!Read, Morpho!Tokens
<1>3. c.balance \in MorphoHoldings
  BY MorphoShape DEF MorphoTyped
<1>4. QED
  BY <1>1, <1>2, <1>3 DEF MorphoHoldings

\* What a handler has read, each of a chain it may have seen.
LEMMA MorphoSeen ==
    ASSUME NEW r, NEW known, NEW seen, NEW kind, MorphoRuns!Decides(seen, r, known, kind),
           NEW x, NEW y, NEW z, Morpho!Reads(r) \in {<<x, y, z>>, <<x, y>>}
    PROVE  /\ \E c \in known : seen[1] = Morpho!Read(c, x, r)
           /\ \E c \in known : seen[2] = Morpho!Read(c, y, r)
           /\ Morpho!Reads(r) = <<x, y, z>> =>
                Len(seen) = 3 /\ \E c \in known : seen[3] = Morpho!Read(c, z, r)
<1>1. Len(seen) = Len(Morpho!Reads(r)) /\ MorphoRuns!WasRead(seen, r, known)
  BY DEF MorphoRuns!Decides
<1>2. \A i \in 1..Len(seen) : \E c \in known : seen[i] = Morpho!Read(c, Morpho!Reads(r)[i], r)
  BY <1>1 DEF MorphoRuns!WasRead
<1>3. CASE Morpho!Reads(r) = <<x, y, z>>
  <2>1. Len(seen) = 3 /\ 1 \in 1..3 /\ 2 \in 1..3 /\ 3 \in 1..3
    BY <1>1, <1>3
  <2>2. QED
    BY <1>2, <1>3, <2>1
<1>4. CASE Morpho!Reads(r) = <<x, y>>
  <2>1. Len(seen) = 2 /\ 1 \in 1..2 /\ 2 \in 1..2
    BY <1>1, <1>4
  <2>2. Morpho!Reads(r) # <<x, y, z>>
    BY <1>4
  <2>3. QED
    BY <1>2, <1>4, <2>1, <2>2
<1>5. QED
  BY <1>3, <1>4

\* The amount a handler resolves.
LEMMA MorphoResolved ==
    ASSUME NEW r \in MorphoRequests, Morpho!Valid(r), r.op \in Morpho!Actions,
           NEW known \in SUBSET Morpho!States, NEW seen, NEW kind, MorphoRuns!Decides(seen, r, known, kind),
           NEW n, n = Morpho!ResolveActionAmount(r, seen[2], seen[Len(seen)]),
           n.assets # Morpho!Err, n.assets + n.shares # 0
    PROVE  /\ MorphoAmount(n)
           /\ ~Morpho!IsMax(r) => /\ n.shares = 0
                                  /\ \/ r.amount.kind = "negative"
                                     \/ 10 * n.assets \in MorphoTenths(r) - 9..MorphoTenths(r)
           /\ Morpho!IsMax(r) /\ r.op = "repay" => \E c \in known : n = Morpho!Shares(c.position.borrowShares)
           /\ Morpho!IsMax(r) /\ r.op = "withdraw" => \E c \in known : n = Morpho!Shares(c.position.supplyShares)
           /\ r.op \notin {"repay", "withdraw"} => n.shares = 0
<1>1. ASSUME ~Morpho!IsMax(r)
      PROVE  /\ MorphoAmount(n) /\ n.shares = 0
             /\ \/ r.amount.kind = "negative"
                \/ 10 * n.assets \in MorphoTenths(r) - 9..MorphoTenths(r)
  <2>1. PICK a : a = Morpho!ParseRequestAmount(r) /\ n = Morpho!Assets(a)
    BY <1>1 DEF Morpho!ResolveActionAmount
  <2>2. n.assets = a /\ n.shares = 0
    BY <2>1 DEF Morpho!Assets
  <2>3. /\ a \in 0..Morpho!MaxUint /\ a # 0
        /\ r.amount.kind = "negative" \/ 10 * a \in MorphoTenths(r) - 9..MorphoTenths(r)
    BY <1>1, <2>1, <2>2, MorphoAmountIs
  <2>4. QED
    BY <2>1, <2>2, <2>3 DEF MorphoAmount
<1>2. ASSUME Morpho!IsMax(r)
      PROVE  /\ MorphoAmount(n)
             /\ r.op = "repay" => \E c \in known : n = Morpho!Shares(c.position.borrowShares)
             /\ r.op = "withdraw" => \E c \in known : n = Morpho!Shares(c.position.supplyShares)
             /\ r.op \notin {"repay", "withdraw"} => n.shares = 0
  <2>1. n = Morpho!ResolveMax(r, seen[2], seen[Len(seen)])
    BY <1>2 DEF Morpho!ResolveActionAmount
  <2>2. PICK z : Morpho!Reads(r) \in {<<"market", "position", z>>, <<"market", "position">>}
    BY DEF Morpho!Reads, Morpho!Actions, Morpho!CollateralActions, Morpho!Guarded
  <2>3. PICK c \in known : seen[2] = Morpho!Read(c, "position", r)
    BY <2>2, MorphoSeen
  <2>4. c \in Morpho!States /\ seen[2] = c.position /\ c.position \in MorphoPositions
    BY <2>3, MorphoReadIs, MorphoShape DEF MorphoTyped
  <2>5. /\ c.position.supplyShares \in 0..Morpho!MaxUint /\ c.position.borrowShares \in 0..Morpho!MaxUint
        /\ c.position.collateral \in 0..Morpho!MaxUint
    BY <2>4 DEF MorphoPositions
  <2>6. ASSUME r.op \in {"supply", "supply_collateral"}
        PROVE  seen[Len(seen)] \in 0..Morpho!MaxUint
    <3>1. Morpho!Reads(r) = <<"market", "position", "balance">>
      BY <1>2, <2>6 DEF Morpho!Reads, Morpho!Guarded
    <3>2. Len(seen) = 3 /\ \E b \in known : seen[3] = Morpho!Read(b, "balance", r)
      BY <3>1, MorphoSeen
    <3>3. PICK b \in known : seen[3] = Morpho!Read(b, "balance", r)
      BY <3>2
    <3>4. b \in Morpho!States
      OBVIOUS
    <3>5. QED
      BY <3>2, <3>3, <3>4, MorphoReadIs
  <2>7. ASSUME NEW a \in 0..Morpho!MaxUint, n = Morpho!Assets(a)
        PROVE  MorphoAmount(n) /\ n.shares = 0
    <3>1. n.assets = a /\ n.shares = 0
      BY <2>7 DEF Morpho!Assets
    <3>2. a # 0
      BY <3>1
    <3>3. QED
      BY <2>7, <3>1, <3>2 DEF MorphoAmount
  <2>8. ASSUME NEW a \in 0..Morpho!MaxUint, n = Morpho!Shares(a)
        PROVE  MorphoAmount(n)
    <3>1. n.assets = 0 /\ n.shares = a
      BY <2>8 DEF Morpho!Shares
    <3>2. a # 0
      BY <3>1
    <3>3. QED
      BY <2>8, <3>1, <3>2 DEF MorphoAmount
  <2>9. n # Morpho!Assets(Morpho!Err)
    BY DEF Morpho!Assets
  <2>10. CASE r.op \in {"supply", "supply_collateral"}
    BY <2>1, <2>6, <2>7, <2>10 DEF Morpho!ResolveMax
  <2>11. CASE r.op = "withdraw"
    BY <2>1, <2>3, <2>4, <2>5, <2>8, <2>11 DEF Morpho!ResolveMax
  <2>12. CASE r.op = "repay"
    BY <2>1, <2>3, <2>4, <2>5, <2>8, <2>12 DEF Morpho!ResolveMax
  <2>13. CASE r.op = "withdraw_collateral"
    <3>1. n = Morpho!Assets(c.position.collateral)
      BY <2>1, <2>4, <2>9, <2>13 DEF Morpho!ResolveMax
    <3>2. QED
      BY <2>5, <2>7, <2>13, <3>1
  <2>14. CASE r.op = "borrow"
    BY <2>1, <2>9, <2>14 DEF Morpho!ResolveMax
  <2>15. QED
    BY <2>10, <2>11, <2>12, <2>13, <2>14 DEF Morpho!Actions, Morpho!CollateralActions
<1>3. QED
  BY <1>1, <1>2

LEMMA MorphoCompiled ==
    ASSUME NEW r \in MorphoRequests, Morpho!Valid(r), NEW known \in SUBSET Morpho!States,
           NEW calls, MorphoRuns!Compiled(calls, r, known)
    PROVE  /\ r.op \in Morpho!Actions
           /\ \E n : calls = Morpho!CompileAction(r, n) /\ MorphoReason(r, n, known)
<1>1. PICK seen, d : /\ MorphoRuns!Decides(seen, r, known, "calls")
                     /\ d = Morpho!Decide(r, seen) /\ d.kind = "calls" /\ calls = d.calls
  BY DEF MorphoRuns!Compiled, MorphoRuns!Decides
<1>2. r.op \in Morpho!Actions
  <2>1. r.op \in Morpho!Actions \cup {"position", "market"}
    BY MorphoAssumption DEF Morpho!IsRequest
  <2>2. r.op = "position" => d = Morpho!DecidePosition(Morpho!Context(seen[1], TRUE), seen[2])
    BY <1>1 DEF Morpho!Decide, Morpho!Actions, Morpho!CollateralActions
  <2>3. r.op = "market" => d = Morpho!DecideMarket(Morpho!Context(seen[1], TRUE))
    BY <1>1 DEF Morpho!Decide, Morpho!Actions, Morpho!CollateralActions
  <2>4. \A context, position : Morpho!DecidePosition(context, position).kind # "calls"
    BY DEF Morpho!DecidePosition
  <2>5. \A context : Morpho!DecideMarket(context).kind # "calls"
    BY DEF Morpho!DecideMarket
  <2>6. QED
    BY <1>1, <2>1, <2>2, <2>3, <2>4, <2>5
<1>3. d = Morpho!DecideAction(r, seen)
  BY <1>1, <1>2 DEF Morpho!Decide, Morpho!Actions, Morpho!CollateralActions
<1>4. PICK position, analytics, context, n :
        /\ position = seen[2]
        /\ analytics = Morpho!NeedsAnalytics(r, position)
        /\ context = IF analytics THEN Morpho!Context(seen[3], TRUE) ELSE Morpho!Context(seen[1], FALSE)
        /\ n = Morpho!ResolveActionAmount(r, position, seen[Len(seen)])
  OBVIOUS
<1>5. /\ analytics => Morpho!OracleAnswers(context)
      /\ n.assets # Morpho!Err /\ n.assets + n.shares # 0
      /\ Morpho!HealthGuard(r, context, position, n)
      /\ d.calls = Morpho!CompileAction(r, n)
  <2>1. d = IF \/ r.op \notin {"supply", "withdraw"} /\ ~Morpho!HasBorrowing(seen[1])
               \/ analytics /\ (Morpho!Overflown(context.state) \/ ~Morpho!OracleAnswers(context))
               \/ n.assets = Morpho!Err \/ n.assets + n.shares = 0
               \/ ~Morpho!HealthGuard(r, context, position, n)
            THEN [kind |-> "rejected"]
            ELSE [kind |-> "calls", calls |-> Morpho!CompileAction(r, n)]
    BY <1>3, <1>4, Zenon DEF Morpho!DecideAction
  <2>2. d.kind # "rejected"
    BY <1>1
  <2>3. PICK batch : batch = Morpho!CompileAction(r, n)
    OBVIOUS
  <2>4. QED
    BY <2>1, <2>2, <2>3
<1>6. /\ MorphoAmount(n)
      /\ ~Morpho!IsMax(r) => /\ n.shares = 0
                             /\ \/ r.amount.kind = "negative"
                                \/ 10 * n.assets \in MorphoTenths(r) - 9..MorphoTenths(r)
      /\ Morpho!IsMax(r) /\ r.op = "repay" => \E c \in known : n = Morpho!Shares(c.position.borrowShares)
      /\ Morpho!IsMax(r) /\ r.op = "withdraw" => \E c \in known : n = Morpho!Shares(c.position.supplyShares)
      /\ r.op \notin {"repay", "withdraw"} => n.shares = 0
  BY <1>1, <1>2, <1>4, <1>5, MorphoResolved
<1>7. ASSUME r.op \in Morpho!Guarded
      PROVE  \E b, c \in known : MorphoGuard(b, c, r, n)
  <2>1. Morpho!Reads(r) = <<"market", "position", "market">>
    BY <1>7 DEF Morpho!Reads, Morpho!Guarded
  <2>2. /\ \E c \in known : seen[2] = Morpho!Read(c, "position", r)
        /\ \E c \in known : seen[3] = Morpho!Read(c, "market", r)
    BY <1>1, <2>1, MorphoSeen
  <2>3. PICK b, c \in known : seen[2] = Morpho!Read(b, "position", r) /\ seen[3] = Morpho!Read(c, "market", r)
    BY <2>2
  <2>4. b \in Morpho!States
    OBVIOUS
  <2>5. position = b.position
    BY <1>4, <2>3, <2>4, MorphoReadIs
  <2>6. n.shares = 0
    BY <1>6, <1>7 DEF Morpho!Guarded
  <2>7. Morpho!EnforceHealthGuard(r, context, position, n.assets)
    BY <1>5, <1>7 DEF Morpho!HealthGuard
  <2>8. CASE analytics
    <3>1. context = Morpho!Context(Morpho!Read(c, "market", r), TRUE)
      BY <1>4, <2>3, <2>8
    <3>2. QED
      BY <1>5, <2>5, <2>6, <2>7, <2>8, <3>1 DEF MorphoGuard
  <2>9. CASE ~analytics
    <3>1. r.op = "withdraw_collateral" /\ position.borrowShares = 0
      BY <1>4, <1>7, <2>9 DEF Morpho!NeedsAnalytics, Morpho!Guarded
    <3>2. QED
      BY <2>5, <2>6, <3>1 DEF MorphoGuard
  <2>10. QED
    BY <2>8, <2>9
<1>8. MorphoReason(r, n, known)
  BY <1>6, <1>7 DEF MorphoReason
<1>9. QED
  BY <1>1, <1>2, <1>5, <1>8

-----------------------------------------------------------------------------
(* Morpho: what a batch does. *)

\* A batch is one call, or a call between approvals of one token.
MorphoBatch(calls, call, r) ==
    \/ r.op \in {"withdraw", "borrow", "withdraw_collateral"} /\ calls = <<call>>
    \/ /\ r.op \in {"supply", "repay", "supply_collateral"}
       /\ \E token \in Morpho!Tokens, a \in 0..Morpho!MaxUint :
            calls = <<Morpho!Approve(token, 0), Morpho!Approve(token, a), call, Morpho!Approve(token, 0)>>

LEMMA MorphoBatches ==
    ASSUME NEW r, r.op \in Morpho!Actions, NEW n, MorphoAmount(n), NEW calls, calls = Morpho!CompileAction(r, n),
           NEW call, call = Morpho!MorphoCall(r.op, n.assets, n.shares)
    PROVE  MorphoBatch(calls, call, r) /\ n.assets \in 0..Morpho!MaxUint /\ n.shares \in 0..Morpho!MaxUint
<1>1. n.assets \in 0..Morpho!MaxUint /\ n.shares \in 0..Morpho!MaxUint
  BY MorphoWidth DEF MorphoAmount, Morpho!Assets, Morpho!Shares
<1>2. PICK a \in 0..Morpho!MaxUint : a = IF n.shares = 0 THEN n.assets ELSE Morpho!MaxUint
  BY <1>1, MorphoWidth
<1>3. CASE r.op \in {"supply", "repay"}
  <2>1. calls = Morpho!ApprovalBatch("loan", a, call)
    BY <1>2, <1>3 DEF Morpho!CompileAction
  <2>2. QED
    BY <1>1, <1>2, <1>3, <2>1 DEF MorphoBatch, Morpho!ApprovalBatch, Morpho!Tokens
<1>4. CASE r.op = "supply_collateral"
  <2>1. calls = Morpho!ApprovalBatch("collateral", n.assets, call)
    BY <1>4 DEF Morpho!CompileAction
  <2>2. QED
    BY <1>1, <1>4, <2>1 DEF MorphoBatch, Morpho!ApprovalBatch, Morpho!Tokens
<1>5. CASE r.op \in {"withdraw", "borrow", "withdraw_collateral"}
  <2>1. calls = <<call>>
    BY <1>5 DEF Morpho!CompileAction
  <2>2. QED
    BY <1>1, <1>5, <2>1 DEF MorphoBatch
<1>6. QED
  BY <1>3, <1>4, <1>5 DEF Morpho!Actions, Morpho!CollateralActions

\* What the call of a request does.
MorphoDoes(c, d, op, assets, shares) ==
    /\ d \in Morpho!States
    /\ op = "repay" /\ shares # 0 => d.position.borrowShares = c.position.borrowShares - shares
    /\ op = "withdraw" /\ shares # 0 => d.position.supplyShares = c.position.supplyShares - shares
    /\ op = "borrow" => MorphoBorrowed(c, d, assets)
    /\ op = "withdraw_collateral" => MorphoUncovered(c, d, assets)

LEMMA MorphoCallDoes ==
    ASSUME NEW op \in Morpho!Actions, NEW assets \in 0..Morpho!MaxUint, NEW shares \in 0..Morpho!MaxUint,
           op \notin {"repay", "withdraw"} => shares = 0, NEW c \in Morpho!States,
           NEW d \in Morpho!Call(c, Morpho!MorphoCall(op, assets, shares))
    PROVE  MorphoDoes(c, d, op, assets, shares)
<1>1. CASE op = "supply"
  <2>1. d \in Morpho!States
    BY <1>1, MorphoSupplies
  <2>2. QED
    BY <1>1, <2>1 DEF MorphoDoes
<1>2. CASE op = "withdraw"
  <2>1. d \in Morpho!States /\ (shares # 0 => d.position.supplyShares = c.position.supplyShares - shares)
    BY <1>2, MorphoWithdraws
  <2>2. QED
    BY <1>2, <2>1 DEF MorphoDoes
<1>3. CASE op = "repay"
  <2>1. d \in Morpho!States /\ (shares # 0 => d.position.borrowShares = c.position.borrowShares - shares)
    BY <1>3, MorphoRepays
  <2>2. QED
    BY <1>3, <2>1 DEF MorphoDoes
<1>4. CASE op = "borrow"
  <2>1. MorphoBorrowed(c, d, assets)
    BY <1>4, MorphoBorrows
  <2>2. d \in Morpho!States
    BY <2>1 DEF MorphoBorrowed
  <2>3. QED
    BY <1>4, <2>1, <2>2 DEF MorphoDoes
<1>5. CASE op = "supply_collateral"
  <2>1. d \in Morpho!States
    BY <1>5, MorphoSuppliesCollateral
  <2>2. QED
    BY <1>5, <2>1 DEF MorphoDoes
<1>6. CASE op = "withdraw_collateral"
  <2>1. MorphoUncovered(c, d, assets)
    BY <1>6, MorphoWithdrawsCollateral
  <2>2. d \in Morpho!States
    BY <2>1 DEF MorphoUncovered
  <2>3. QED
    BY <1>6, <2>1, <2>2 DEF MorphoDoes
<1>7. QED
  BY <1>1, <1>2, <1>3, <1>4, <1>5, <1>6 DEF Morpho!Actions, Morpho!CollateralActions

LEMMA MorphoKeeps ==
    ASSUME NEW r, r.op \in Morpho!Actions, NEW n, MorphoAmount(n), r.op \notin {"repay", "withdraw"} => n.shares = 0,
           NEW calls, calls = Morpho!CompileAction(r, n)
    PROVE  /\ Len(calls) \in Nat
           /\ \A i \in 1..Len(calls), c \in Morpho!States : Morpho!Call(c, calls[i]) \subseteq Morpho!States
<1>1. PICK call : call = Morpho!MorphoCall(r.op, n.assets, n.shares)
  OBVIOUS
<1>2. MorphoBatch(calls, call, r) /\ n.assets \in 0..Morpho!MaxUint /\ n.shares \in 0..Morpho!MaxUint
  BY <1>1, MorphoBatches
<1>3. ASSUME NEW c \in Morpho!States, NEW d \in Morpho!Call(c, call)
      PROVE  d \in Morpho!States
  <2>1. MorphoDoes(c, d, r.op, n.assets, n.shares)
    BY <1>1, <1>2, <1>3, MorphoCallDoes
  <2>2. QED
    BY <2>1 DEF MorphoDoes
<1>4. ASSUME NEW token \in Morpho!Tokens, NEW a \in 0..Morpho!MaxUint,
             NEW c \in Morpho!States, NEW d \in Morpho!Call(c, Morpho!Approve(token, a))
      PROVE  d \in Morpho!States
  BY <1>4, MorphoApproves DEF MorphoApproved
<1>5. CASE calls = <<call>>
  BY <1>3, <1>5
<1>6. ASSUME NEW token \in Morpho!Tokens, NEW a \in 0..Morpho!MaxUint,
             calls = <<Morpho!Approve(token, 0), Morpho!Approve(token, a), call, Morpho!Approve(token, 0)>>
      PROVE  /\ Len(calls) \in Nat
             /\ \A i \in 1..Len(calls), c \in Morpho!States : Morpho!Call(c, calls[i]) \subseteq Morpho!States
  <2>1. PICK first, second : first = Morpho!Approve(token, 0) /\ second = Morpho!Approve(token, a)
    OBVIOUS
  <2>2. calls = <<first, second, call, first>>
    BY <1>6, <2>1
  <2>3. 0 \in 0..Morpho!MaxUint
    BY MorphoWidth
  <2>4. \A c \in Morpho!States : /\ Morpho!Call(c, first) \subseteq Morpho!States
                                 /\ Morpho!Call(c, second) \subseteq Morpho!States
                                 /\ Morpho!Call(c, call) \subseteq Morpho!States
    BY <1>3, <1>4, <1>6, <2>1, <2>3
  <2>5. Len(calls) = 4 /\ \A i \in 1..4 : calls[i] \in {first, second, call}
    BY <2>2
  <2>6. QED
    BY <2>4, <2>5
<1>7. QED
  BY <1>2, <1>5, <1>6 DEF MorphoBatch

\* The effect of a batch that succeeds.
MorphoEffects(c, d, r, n, calls) ==
    /\ r.op = "repay" /\ n.shares # 0 => d.position.borrowShares = c.position.borrowShares - n.shares
    /\ r.op = "withdraw" /\ n.shares # 0 => d.position.supplyShares = c.position.supplyShares - n.shares
    /\ r.op = "borrow" => MorphoBorrowed(c, d, n.assets)
    /\ r.op = "withdraw_collateral" => MorphoUncovered(c, d, n.assets)
    /\ \A i \in DOMAIN calls : calls[i].fn = "approve" => d.allowance[calls[i].token] = 0

LEMMA MorphoBatchDoes ==
    ASSUME NEW r, r.op \in Morpho!Actions, NEW n, MorphoAmount(n), r.op \notin {"repay", "withdraw"} => n.shares = 0,
           NEW calls, calls = Morpho!CompileAction(r, n),
           NEW c \in Morpho!States, NEW d \in MorphoRuns!Run(c, calls)
    PROVE  MorphoEffects(c, d, r, n, calls)
<1>1. /\ Len(calls) \in Nat
      /\ \A i \in 1..Len(calls), e \in Morpho!States : Morpho!Call(e, calls[i]) \subseteq Morpho!States
  BY MorphoKeeps
<1>2. PICK g : MorphoRuns!Path(g, c, calls, Morpho!States) /\ g[Len(calls)] = d
  <2>1. PICK S : S = Morpho!States
    OBVIOUS
  <2>2. \E g : MorphoRuns!Path(g, c, calls, S) /\ g[Len(calls)] = d
    BY <1>1, <2>1, MorphoRuns!RunPath
  <2>3. QED
    BY <2>1, <2>2
<1>3. /\ g \in [0..Len(calls) -> Morpho!States] /\ g[0] = c
      /\ \A i \in 1..Len(calls) : g[i] \in Morpho!Call(g[i - 1], calls[i])
  BY <1>2 DEF MorphoRuns!Path
<1>4. PICK call : call = Morpho!MorphoCall(r.op, n.assets, n.shares)
  OBVIOUS
<1>5. MorphoBatch(calls, call, r) /\ n.assets \in 0..Morpho!MaxUint /\ n.shares \in 0..Morpho!MaxUint
  BY <1>4, MorphoBatches
<1>6. call.fn # "approve"
  BY <1>4 DEF Morpho!MorphoCall, Morpho!Actions, Morpho!CollateralActions
<1>7. CASE r.op \in {"withdraw", "borrow", "withdraw_collateral"} /\ calls = <<call>>
  <2>1. d \in Morpho!Call(c, call)
    BY <1>2, <1>3, <1>7
  <2>2. MorphoDoes(c, d, r.op, n.assets, n.shares)
    BY <1>4, <1>5, <2>1, MorphoCallDoes
  <2>3. \A i \in DOMAIN calls : calls[i].fn # "approve"
    BY <1>6, <1>7
  <2>4. QED
    BY <1>7, <2>2, <2>3 DEF MorphoDoes, MorphoEffects
<1>8. ASSUME NEW token \in Morpho!Tokens, NEW a \in 0..Morpho!MaxUint,
             r.op \in {"supply", "repay", "supply_collateral"},
             calls = <<Morpho!Approve(token, 0), Morpho!Approve(token, a), call, Morpho!Approve(token, 0)>>
      PROVE  MorphoEffects(c, d, r, n, calls)
  <2>1. PICK first, second : first = Morpho!Approve(token, 0) /\ second = Morpho!Approve(token, a)
    OBVIOUS
  <2>2. calls = <<first, second, call, first>>
    BY <1>8, <2>1
  <2>3. \E s1, s2, s3 \in Morpho!States :
          /\ s1 \in Morpho!Call(c, first) /\ s2 \in Morpho!Call(s1, second)
          /\ s3 \in Morpho!Call(s2, call) /\ d \in Morpho!Call(s3, first)
    <3>1. Len(calls) = 4 /\ calls[1] = first /\ calls[2] = second /\ calls[3] = call /\ calls[4] = first
      BY <2>2
    <3>2. g[1] \in Morpho!States /\ g[2] \in Morpho!States /\ g[3] \in Morpho!States
      BY <1>3, <3>1
    <3>3. /\ g[1] \in Morpho!Call(g[0], calls[1]) /\ g[2] \in Morpho!Call(g[1], calls[2])
          /\ g[3] \in Morpho!Call(g[2], calls[3]) /\ g[4] \in Morpho!Call(g[3], calls[4])
      <4>1. \A i \in 1..4 : g[i] \in Morpho!Call(g[i - 1], calls[i])
        BY <1>3, <3>1
      <4>2. 1 - 1 = 0 /\ 2 - 1 = 1 /\ 3 - 1 = 2 /\ 4 - 1 = 3 /\ {1, 2, 3, 4} \subseteq 1..4
        OBVIOUS
      <4>3. QED
        BY <4>1, <4>2
    <3>4. QED
      BY <1>2, <1>3, <3>1, <3>2, <3>3
  <2>4. PICK s1, s2, s3 \in Morpho!States :
          /\ s1 \in Morpho!Call(c, first) /\ s2 \in Morpho!Call(s1, second)
          /\ s3 \in Morpho!Call(s2, call) /\ d \in Morpho!Call(s3, first)
    BY <2>3
  <2>5. 0 \in 0..Morpho!MaxUint
    BY MorphoWidth
  <2>6. MorphoApproved(c, s1, token, 0) /\ MorphoApproved(s1, s2, token, a) /\ MorphoApproved(s3, d, token, 0)
    BY <1>8, <2>1, <2>4, <2>5, MorphoApproves
  <2>7. s2.position = c.position /\ d.position = s3.position /\ d.allowance[token] = 0
    BY <2>6 DEF MorphoApproved
  <2>8. MorphoDoes(s2, s3, r.op, n.assets, n.shares)
    BY <1>4, <1>5, <2>4, MorphoCallDoes
  <2>9. \A i \in DOMAIN calls : calls[i].fn = "approve" => d.allowance[calls[i].token] = 0
    <3>1. \A i \in DOMAIN calls : calls[i] \in {first, second, call}
      BY <2>2
    <3>2. first.token = token /\ second.token = token
      BY <2>1 DEF Morpho!Approve
    <3>3. QED
      BY <1>6, <2>7, <3>1, <3>2
  <2>10. QED
    BY <1>8, <2>7, <2>8, <2>9 DEF MorphoDoes, MorphoEffects
<1>9. QED
  BY <1>5, <1>7, <1>8 DEF MorphoBatch

LEMMA MorphoClosed ==
    MorphoRuns!Closed(Morpho!States, MorphoView)
<1>1. ASSUME NEW r \in MorphoRequests, Morpho!Valid(r)
      PROVE  Len(Morpho!Reads(r)) \in Nat
  <2>1. Morpho!Reads(r) \in {<<"market", "position", "market">>, <<"market", "position", "balance">>,
                             <<"market">>, <<"market", "position">>}
    BY DEF Morpho!Reads
  <2>2. QED
    BY <2>1
<1>2. ASSUME NEW c \in Morpho!States, NEW d \in Morpho!Moves(c)
      PROVE  d \in Morpho!States /\ MorphoView[d] = MorphoView[c]
  BY <1>2, MorphoMoves
<1>3. ASSUME NEW r \in MorphoRequests, NEW calls, Morpho!Valid(r),
             MorphoRuns!Compiled(calls, r, Morpho!States)
      PROVE  /\ Len(calls) \in Nat
             /\ \A i \in 1..Len(calls), c \in Morpho!States : Morpho!Call(c, calls[i]) \subseteq Morpho!States
  <2>1. PICK known : known = Morpho!States
    OBVIOUS
  <2>2. r.op \in Morpho!Actions /\ \E n : calls = Morpho!CompileAction(r, n) /\ MorphoReason(r, n, known)
    BY <1>3, <2>1, MorphoCompiled
  <2>3. PICK n : /\ calls = Morpho!CompileAction(r, n) /\ MorphoAmount(n)
                 /\ r.op \notin {"repay", "withdraw"} => n.shares = 0
    BY <2>2 DEF MorphoReason
  <2>4. QED
    BY <2>2, <2>3, MorphoKeeps
<1>4. QED
  BY <1>1, <1>2, <1>3 DEF MorphoRuns!Closed

MorphoInv == MorphoRuns!HandlerInv(Morpho!States, MorphoView)

LEMMA MorphoStart ==
    ASSUME Init, protocol = "morpho"
    PROVE  MorphoInv
<1>1. chain \in Morpho!States /\ task = [h \in Handlers |-> MorphoRuns!Idle]
  <2>1. OnAave!Idle = MorphoRuns!Idle
    BY DEF OnAave!Idle, MorphoRuns!Idle
  <2>2. QED
    BY <2>1, MorphoAssumption DEF Init
<1>2. QED
  BY <1>1, MorphoRuns!HandlerStart DEF MorphoInv

LEMMA MorphoStep ==
    ASSUME MorphoInv, OnMorpho!Next
    PROVE  MorphoInv'
<1>1. MorphoRuns!Next /\ MorphoRuns!HandlerInv(Morpho!States, MorphoView)
  BY MorphoSame DEF MorphoInv
<1>2. MorphoRuns!HandlerInv(Morpho!States, MorphoView)'
  BY <1>1, MorphoClosed, MorphoRuns!HandlerStep
<1>3. QED
  BY <1>2 DEF MorphoInv

LEMMA MorphoStays ==
    ASSUME MorphoInv, UNCHANGED vars
    PROVE  MorphoInv'
BY DEF MorphoInv, vars, MorphoRuns!HandlerInv, MorphoRuns!TaskOK, MorphoRuns!Known

\* What a batch that takes effect was compiled from, and what it does.
LEMMA MorphoTakesEffect ==
    ASSUME MorphoInv, OnMorpho!Next, NEW h \in Handlers, OnMorpho!Succeeded(h)
    PROVE  /\ task[h].req \in MorphoRequests /\ Morpho!Valid(task[h].req)
           /\ task[h].req.op \in Morpho!Actions /\ chain \in Morpho!States
           /\ \E n, known : /\ task[h].result = Morpho!CompileAction(task[h].req, n)
                            /\ MorphoReason(task[h].req, n, known)
                            /\ MorphoEffects(chain, chain', task[h].req, n, task[h].result)
                            /\ known \subseteq Morpho!States
                            /\ OnMorpho!Fresh(h) => known = {chain}
                            /\ task[h].since # "wallet" => \A c \in known : MorphoView[c] = MorphoView[chain]
<1>1. MorphoRuns!Next /\ MorphoRuns!Succeeded(h) /\ MorphoRuns!HandlerInv(Morpho!States, MorphoView)
  BY MorphoSame DEF MorphoInv
<1>2. /\ task[h] # MorphoRuns!Idle /\ MorphoRuns!TaskOK(task[h], Morpho!States, MorphoView)
      /\ task[h].stage \in MorphoRuns!Compiling
      /\ chain' \in MorphoRuns!Run(chain, task[h].result)
  BY <1>1, MorphoRuns!TakesEffect
<1>3. PICK r, calls, known, c, d :
        /\ r = task[h].req /\ calls = task[h].result /\ c = chain /\ d = chain'
        /\ known = MorphoRuns!Known(task[h], Morpho!States, MorphoView)
  OBVIOUS
<1>4. r \in MorphoRequests /\ Morpho!Valid(r) /\ MorphoRuns!Compiled(calls, r, known)
  BY <1>2, <1>3 DEF MorphoRuns!TaskOK, MorphoRuns!Compiling
<1>5. known \in SUBSET Morpho!States /\ c \in Morpho!States /\ d \in MorphoRuns!Run(c, calls)
  BY <1>1, <1>2, <1>3 DEF MorphoRuns!Known, MorphoRuns!HandlerInv
<1>6. r.op \in Morpho!Actions /\ \E n : calls = Morpho!CompileAction(r, n) /\ MorphoReason(r, n, known)
  BY <1>4, <1>5, MorphoCompiled
<1>7. PICK n : calls = Morpho!CompileAction(r, n) /\ MorphoReason(r, n, known)
  BY <1>6
<1>8. MorphoAmount(n) /\ (r.op \notin {"repay", "withdraw"} => n.shares = 0)
  BY <1>7 DEF MorphoReason
<1>9. MorphoEffects(c, d, r, n, calls)
  BY <1>5, <1>6, <1>7, <1>8, MorphoBatchDoes
<1>10. OnMorpho!Fresh(h) => known = {chain}
  BY <1>1, <1>3, <1>5 DEF OnMorpho!Fresh, OnMorpho!Since, MorphoRuns!Known, MorphoRuns!HandlerInv
<1>11. task[h].since # "wallet" => \A b \in known : MorphoView[b] = MorphoView[c]
  <2>1. task[h].since \in {"nothing", "market", "wallet"}
    BY <1>2 DEF MorphoRuns!TaskOK
  <2>2. \A b \in known : /\ task[h].since = "nothing" => b = chain
                         /\ task[h].since = "market" => MorphoView[b] = MorphoView[chain]
    BY <1>3 DEF MorphoRuns!Known
  <2>3. QED
    BY <1>3, <2>1, <2>2
<1>12. QED
  BY <1>3, <1>4, <1>5, <1>6, <1>7, <1>9, <1>10, <1>11

\* "max" clears the position, unless a batch of the wallet came in between.
LEMMA MorphoClears ==
    ASSUME NEW r, Morpho!IsMax(r), r.op \in {"repay", "withdraw"}, NEW c \in Morpho!States, NEW d, NEW n,
           NEW calls, NEW known, known \subseteq Morpho!States, \A b \in known : MorphoView[b] = MorphoView[c],
           MorphoReason(r, n, known), MorphoEffects(c, d, r, n, calls)
    PROVE  /\ r.op = "repay" => d.position.borrowShares = 0
           /\ r.op = "withdraw" => d.position.supplyShares = 0
<1>1. \A b \in known : b.position = c.position
  BY DEF MorphoView
<1>2. c.position.borrowShares \in Nat /\ c.position.supplyShares \in Nat
  BY MorphoFields
<1>3. MorphoAmount(n)
  BY DEF MorphoReason
<1>4. ASSUME NEW s \in Nat, n = Morpho!Shares(s)
      PROVE  s # 0 /\ n.shares = s
  <2>1. n.shares = s /\ n.assets = 0
    BY <1>4 DEF Morpho!Shares
  <2>2. \A a : Morpho!Assets(a).assets = a /\ Morpho!Shares(a).shares = a
    BY DEF Morpho!Assets, Morpho!Shares
  <2>3. QED
    BY <1>3, <2>1, <2>2 DEF MorphoAmount
<1>5. CASE r.op = "repay"
  <2>1. n = Morpho!Shares(c.position.borrowShares)
    BY <1>1, <1>5 DEF MorphoReason
  <2>2. PICK s \in Nat : s = c.position.borrowShares /\ n = Morpho!Shares(s)
    BY <1>2, <2>1
  <2>3. s # 0 /\ n.shares = s
    BY <1>4, <2>2
  <2>4. d.position.borrowShares = s - s
    BY <1>5, <2>2, <2>3 DEF MorphoEffects
  <2>5. QED
    BY <1>5, <2>2, <2>4
<1>6. CASE r.op = "withdraw"
  <2>1. n = Morpho!Shares(c.position.supplyShares)
    BY <1>1, <1>6 DEF MorphoReason
  <2>2. PICK s \in Nat : s = c.position.supplyShares /\ n = Morpho!Shares(s)
    BY <1>2, <2>1
  <2>3. s # 0 /\ n.shares = s
    BY <1>4, <2>2
  <2>4. d.position.supplyShares = s - s
    BY <1>6, <2>2, <2>3 DEF MorphoEffects
  <2>5. QED
    BY <1>6, <2>2, <2>4
<1>7. QED
  BY <1>5, <1>6

LEMMA Times ==
    \A x \in Nat, y \in Nat : x * y \in Nat
OBVIOUS

\* A capacity that was computed is that of the protocol.
LEMMA MorphoCapacity ==
    ASSUME NEW x \in Nat, NEW p \in Nat, NEW l \in Nat, NEW cap,
           cap = Morpho!MulDivDown(Morpho!MulDivDown(x, p, 1), l, Morpho!Wad), cap # Morpho!Err
    PROVE  cap = (x * p * l) \div Morpho!Wad
<1>1. PICK held, y, z : /\ held = Morpho!MulDivDown(x, p, 1) /\ y = x * p /\ z = y * l
  OBVIOUS
<1>2. y \in Nat /\ y \div 1 = y
  <2>1. y \in Nat
    BY <1>1, Times
  <2>2. QED
    BY <2>1
<1>3. held # Morpho!Err
  BY <1>1 DEF Morpho!MulDivDown
<1>4. held = y
  BY <1>1, <1>2, <1>3 DEF Morpho!MulDivDown, Morpho!Checked
<1>5. cap = (held * l) \div Morpho!Wad
  BY <1>1 DEF Morpho!MulDivDown, Morpho!Checked
<1>6. QED
  BY <1>1, <1>4, <1>5

\* What the guard has established is what the protocol calls healthy.
LEMMA MorphoHealthy ==
    ASSUME NEW d \in Morpho!States, NEW min \in Nat, NEW debt, debt = Morpho!DebtOf(d), debt # Morpho!Err,
           d.price \notin {0, Morpho!Err}, NEW cap,
           cap = Morpho!MulDivDown(Morpho!MulDivDown(d.position.collateral, d.price, 1), d.lltv, Morpho!Wad),
           debt = 0 \/ (cap # Morpho!Err /\ cap * Morpho!Wad >= debt * min)
    PROVE  Morpho!HealthyAt(d, min)
<1>1. PICK x, p, l : x = d.position.collateral /\ p = d.price /\ l = d.lltv
  OBVIOUS
<1>2. x \in Nat /\ p \in Nat /\ l \in Nat /\ p > 0
  <2>1. MorphoTerms(d) /\ x \in Nat
    BY <1>1, MorphoShape, MorphoFields
  <2>2. p \in Nat /\ l \in Nat /\ p # 0
    BY <1>1, <2>1 DEF MorphoTerms
  <2>3. QED
    BY <2>1, <2>2
<1>3. debt \in Nat
  <2>1. debt \in MorphoResults
    BY MorphoConversions DEF Morpho!DebtOf
  <2>2. QED
    BY <2>1, MorphoWidth DEF MorphoResults
<1>4. ((x * p * l) \div Morpho!Wad) * Morpho!Wad >= min * debt
  <2>1. PICK z : z = x * p * l /\ z \in Nat
    <3>1. x * p \in Nat
      BY <1>2, Times
    <3>2. (x * p) * l \in Nat
      BY <1>2, <3>1, Times
    <3>3. QED
      BY <3>2
  <2>2. z \div 100 \in Nat
    BY <2>1
  <2>3. CASE debt = 0
    <3>1. min * debt = 0
      BY <2>3
    <3>2. (z \div 100) * 100 >= 0
      BY <2>2
    <3>3. QED
      BY <2>1, <3>1, <3>2 DEF Morpho!Wad
  <2>4. CASE debt # 0
    <3>1. cap = z \div Morpho!Wad
      BY <1>1, <1>2, <2>1, <2>4, MorphoCapacity
    <3>2. (z \div Morpho!Wad) * Morpho!Wad >= debt * min
      BY <2>4, <3>1
    <3>3. debt * min = min * debt
      BY <1>3
    <3>4. QED
      BY <2>1, <3>2, <3>3
  <2>5. QED
    BY <2>3, <2>4
<1>5. QED
  BY <1>1, <1>2, <1>4 DEF Morpho!HealthyAt

LEMMA MorphoContext ==
    ASSUME NEW c \in Morpho!States, NEW r, NEW context, context = Morpho!Context(Morpho!Read(c, "market", r), TRUE)
    PROVE  context.state = Morpho!Accrued(c).state /\ context.price = c.price /\ context.lltv = c.lltv
<1>1. PICK seen : seen = Morpho!Read(c, "market", r)
  OBVIOUS
<1>2. seen = [state |-> c.state, rate |-> c.rate, elapsed |-> c.elapsed,
              price |-> c.price, lltv |-> c.lltv, configured |-> c.configured]
  BY <1>1 DEF Morpho!Read
<1>3. context = [seen EXCEPT !.state = Morpho!AccrueMarketStateAt(@, seen.rate, seen.elapsed)]
  BY <1>1 DEF Morpho!Context
<1>4. PICK state : state = Morpho!AccrueMarketStateAt(c.state, c.rate, c.elapsed)
  OBVIOUS
<1>5. context.state = state /\ context.price = c.price /\ context.lltv = c.lltv
  BY <1>2, <1>3, <1>4
<1>6. Morpho!Accrued(c).state = state
  <2>1. Morpho!Accrued(c).state = Morpho!AccrueMarketStateAt(c.state, c.rate, c.elapsed)
    BY MorphoAccrued
  <2>2. QED
    BY <1>4, <2>1
<1>7. QED
  BY <1>5, <1>6

\* A sum that was checked is the sum.
LEMMA MorphoSums ==
    ASSUME NEW a, NEW b, NEW s, s = Morpho!CheckedAdd(a, b), s # Morpho!Err
    PROVE  s = a + b
BY DEF Morpho!CheckedAdd, Morpho!Checked

LEMMA MorphoOwed ==
    ASSUME NEW a, NEW b, NEW e, Morpho!ToAssetsUp(a, b, e) # Morpho!Err
    PROVE  a # Morpho!Err /\ b # Morpho!Err /\ e # Morpho!Err
BY DEF Morpho!ToAssetsUp, Morpho!MulDivUp, Morpho!CheckedAdd

\* A batch that passes the guard on the chain it is executed on.
LEMMA MorphoKeepsHealth ==
    ASSUME NEW r \in MorphoRequests, r.op \in Morpho!Guarded, NEW c \in Morpho!States, NEW d, NEW n,
           NEW calls, MorphoReason(r, n, {c}), MorphoEffects(c, d, r, n, calls)
    PROVE  Morpho!HealthyAt(d, Morpho!ParseMinHealthFactor(r))
<1>1. MorphoGuard(c, c, r, n)
  BY DEF MorphoReason
<1>2. PICK a, m, context, min :
        /\ a = n.assets /\ m = Morpho!Accrued(c).state /\ min = Morpho!ParseMinHealthFactor(r)
        /\ context = Morpho!Context(Morpho!Read(c, "market", r), TRUE)
  OBVIOUS
<1>3. context.state = m /\ context.price = c.price /\ context.lltv = c.lltv
  BY <1>2, MorphoContext
<1>4. CASE r.op = "withdraw_collateral" /\ c.position.borrowShares = 0
  <2>1. d.position.borrowShares = 0
    BY <1>4 DEF MorphoEffects, MorphoUncovered
  <2>2. QED
    BY <2>1 DEF Morpho!HealthyAt
<1>5. ASSUME Morpho!OracleAnswers(context), Morpho!EnforceHealthGuard(r, context, c.position, a)
      PROVE  Morpho!HealthyAt(d, min)
  <2>1. PICK debt, collateral, cap :
          /\ debt = IF r.op = "borrow" THEN Morpho!ProjectedBorrow(m, c.position, a)
                    ELSE Morpho!ToAssetsUp(c.position.borrowShares, m.borrowAssets, m.borrowShares)
          /\ collateral = c.position.collateral - (IF r.op = "borrow" THEN 0 ELSE a)
          /\ cap = Morpho!BorrowCapacity(context, collateral)
    OBVIOUS
  <2>2. /\ min # Morpho!Err /\ debt # Morpho!Err
        /\ debt = 0 \/ (cap # Morpho!Err /\ cap * Morpho!Wad >= debt * min)
    BY <1>2, <1>3, <1>5, <2>1 DEF Morpho!EnforceHealthGuard
  <2>3. min \in Nat
    BY <1>2, <2>2, MorphoMinimum
  <2>4. c.price \notin {0, Morpho!Err}
    BY <1>3, <1>5 DEF Morpho!OracleAnswers
  <2>5. d \in Morpho!States /\ d.price = c.price /\ d.lltv = c.lltv
    BY DEF MorphoEffects, MorphoBorrowed, MorphoUncovered, Morpho!Guarded
  <2>6. collateral = d.position.collateral /\ debt = Morpho!DebtOf(d)
    <3>1. CASE r.op = "borrow"
      <4>1. MorphoBorrowed(c, d, a)
        BY <1>2, <3>1 DEF MorphoEffects
      <4>2. PICK added : added = Morpho!ToSharesUp(a, m.borrowAssets, m.borrowShares)
        OBVIOUS
      <4>3. /\ d.state.borrowAssets = m.borrowAssets + a /\ d.state.borrowShares = m.borrowShares + added
            /\ d.position.borrowShares = c.position.borrowShares + added
            /\ d.position.collateral = c.position.collateral
        BY <1>2, <4>1, <4>2 DEF MorphoBorrowed
      <4>4. PICK x, y, z : /\ x = Morpho!CheckedAdd(c.position.borrowShares, added)
                           /\ y = Morpho!CheckedAdd(m.borrowAssets, a)
                           /\ z = Morpho!CheckedAdd(m.borrowShares, added)
        OBVIOUS
      <4>5. debt = Morpho!ToAssetsUp(x, y, z)
        BY <2>1, <3>1, <4>2, <4>4 DEF Morpho!ProjectedBorrow
      <4>6. x # Morpho!Err /\ y # Morpho!Err /\ z # Morpho!Err
        BY <2>2, <4>5, MorphoOwed
      <4>7. x = d.position.borrowShares /\ y = d.state.borrowAssets /\ z = d.state.borrowShares
        BY <4>3, <4>4, <4>6, MorphoSums
      <4>8. debt = Morpho!DebtOf(d)
        BY <4>5, <4>7 DEF Morpho!DebtOf
      <4>9. c.position.collateral \in Nat
        BY MorphoFields
      <4>10. QED
        BY <2>1, <3>1, <4>3, <4>8, <4>9
    <3>2. CASE r.op = "withdraw_collateral"
      <4>1. MorphoUncovered(c, d, a)
        BY <1>2, <3>2 DEF MorphoEffects
      <4>2. /\ d.state = m /\ d.position.borrowShares = c.position.borrowShares
            /\ d.position.collateral = c.position.collateral - a
        BY <1>2, <4>1 DEF MorphoUncovered
      <4>3. QED
        BY <2>1, <3>2, <4>2 DEF Morpho!DebtOf
    <3>3. QED
      BY <3>1, <3>2 DEF Morpho!Guarded
  <2>7. cap = Morpho!MulDivDown(Morpho!MulDivDown(d.position.collateral, d.price, 1), d.lltv, Morpho!Wad)
    BY <1>3, <2>1, <2>5, <2>6 DEF Morpho!BorrowCapacity
  <2>8. d.price \notin {0, Morpho!Err}
    BY <2>4, <2>5
  <2>9. QED
    BY <2>2, <2>3, <2>5, <2>6, <2>7, <2>8, MorphoHealthy
<1>6. QED
  BY <1>1, <1>2, <1>4, <1>5 DEF MorphoGuard

\* The call of a batch names the amount.
LEMMA MorphoNames ==
    ASSUME NEW r, r.op \in Morpho!Actions, NEW n, MorphoAmount(n), NEW calls, calls = Morpho!CompileAction(r, n),
           NEW call, call = calls[IF Len(calls) = 1 THEN 1 ELSE 3]
    PROVE  call.assets = n.assets /\ call.shares = n.shares
<1>1. PICK k : k = Morpho!MorphoCall(r.op, n.assets, n.shares)
  OBVIOUS
<1>2. MorphoBatch(calls, k, r)
  BY <1>1, MorphoBatches
<1>3. call = k
  <2>1. CASE calls = <<k>>
    BY <2>1
  <2>2. ASSUME NEW x, NEW y, NEW z, calls = <<x, y, k, z>>
        PROVE  call = k
    BY <2>2
  <2>3. QED
    BY <1>2, <2>1, <2>2 DEF MorphoBatch
<1>4. QED
  BY <1>1, <1>3 DEF Morpho!MorphoCall

-----------------------------------------------------------------------------
(* The adapters together: a behaviour stays with the one it began with.    *)

LendingInv ==
    /\ protocol \in {"aave", "compound", "morpho"}
    /\ moves \in 0..MaxMoves
    /\ protocol = "aave" => AaveInv
    /\ protocol = "compound" => CompoundInv
    /\ protocol = "morpho" => MorphoInv

LEMMA LendingStart == Init => LendingInv
<1>1. SUFFICES ASSUME Init
               PROVE  LendingInv
  OBVIOUS
<1>2. protocol \in {"aave", "compound", "morpho"} /\ moves \in 0..MaxMoves
  BY <1>1, MovesAssumption DEF Init
<1>3. protocol = "aave" => AaveInv
  BY <1>1, AaveStart
<1>4. protocol = "compound" => CompoundInv
  BY <1>1, CompoundStart
<1>5. protocol = "morpho" => MorphoInv
  BY <1>1, MorphoStart
<1>6. QED
  BY <1>2, <1>3, <1>4, <1>5 DEF LendingInv

LEMMA WhoseStep ==
    ASSUME Next
    PROVE  \/ OnAave!Next /\ protocol = "aave" /\ protocol' = "aave"
           \/ OnCompound!Next /\ protocol = "compound" /\ protocol' = "compound"
           \/ OnMorpho!Next /\ protocol = "morpho" /\ protocol' = "morpho"
<1>1. OnAave!Next => protocol = "aave" /\ protocol' = "aave"
  BY DEF OnAave!Next, OnAave!Begin, OnAave!ReadNext, OnAave!Answer, OnAave!Simulate,
         OnAave!Submit, OnAave!Mine, OnAave!Move, OnAave!Here
<1>2. OnCompound!Next => protocol = "compound" /\ protocol' = "compound"
  BY DEF OnCompound!Next, OnCompound!Begin, OnCompound!ReadNext, OnCompound!Answer, OnCompound!Simulate,
         OnCompound!Submit, OnCompound!Mine, OnCompound!Move, OnCompound!Here
<1>3. OnMorpho!Next => protocol = "morpho" /\ protocol' = "morpho"
  BY DEF OnMorpho!Next, OnMorpho!Begin, OnMorpho!ReadNext, OnMorpho!Answer, OnMorpho!Simulate,
         OnMorpho!Submit, OnMorpho!Mine, OnMorpho!Move, OnMorpho!Here
<1>4. OnAave!Next \/ OnCompound!Next \/ OnMorpho!Next
  BY DEF Next
<1>5. QED
  BY <1>1, <1>2, <1>3, <1>4

\* The bound on the moves of the market is kept.
LEMMA MovesCounted ==
    ASSUME moves \in 0..MaxMoves, OnAave!Next \/ OnCompound!Next \/ OnMorpho!Next
    PROVE  moves' \in 0..MaxMoves
<1>1. \/ moves' = moves
      \/ moves < MaxMoves /\ moves' = moves + 1
  <2>1. OnAave!Next => moves' = moves \/ (moves < MaxMoves /\ moves' = moves + 1)
    BY DEF OnAave!Next, OnAave!Begin, OnAave!ReadNext, OnAave!Answer, OnAave!Simulate,
           OnAave!Submit, OnAave!Mine, OnAave!Move
  <2>2. OnCompound!Next => moves' = moves \/ (moves < MaxMoves /\ moves' = moves + 1)
    BY DEF OnCompound!Next, OnCompound!Begin, OnCompound!ReadNext, OnCompound!Answer, OnCompound!Simulate,
           OnCompound!Submit, OnCompound!Mine, OnCompound!Move
  <2>3. OnMorpho!Next => moves' = moves \/ (moves < MaxMoves /\ moves' = moves + 1)
    BY DEF OnMorpho!Next, OnMorpho!Begin, OnMorpho!ReadNext, OnMorpho!Answer, OnMorpho!Simulate,
           OnMorpho!Submit, OnMorpho!Mine, OnMorpho!Move
  <2>4. QED
    BY <2>1, <2>2, <2>3
<1>2. QED
  BY <1>1, MovesAssumption

LEMMA LendingStep == LendingInv /\ [Next]_vars => LendingInv'
<1>1. SUFFICES ASSUME LendingInv, [Next]_vars
               PROVE  LendingInv'
  OBVIOUS
<1>2. CASE OnAave!Next /\ protocol = "aave" /\ protocol' = "aave"
  <2>1. AaveInv' /\ moves' \in 0..MaxMoves
    BY <1>1, <1>2, AaveStep, MovesCounted DEF LendingInv
  <2>2. QED
    BY <1>2, <2>1 DEF LendingInv
<1>3. CASE OnCompound!Next /\ protocol = "compound" /\ protocol' = "compound"
  <2>1. CompoundInv' /\ moves' \in 0..MaxMoves
    BY <1>1, <1>3, CompoundStep, MovesCounted DEF LendingInv
  <2>2. QED
    BY <1>3, <2>1 DEF LendingInv
<1>4. CASE OnMorpho!Next /\ protocol = "morpho" /\ protocol' = "morpho"
  <2>1. MorphoInv' /\ moves' \in 0..MaxMoves
    BY <1>1, <1>4, MorphoStep, MovesCounted DEF LendingInv
  <2>2. QED
    BY <1>4, <2>1 DEF LendingInv
<1>5. CASE UNCHANGED vars
  <2>1. protocol' = protocol /\ moves' = moves
    BY <1>5 DEF vars
  <2>2. protocol = "aave" => AaveInv'
    BY <1>1, <1>5, AaveStays DEF LendingInv
  <2>3. protocol = "compound" => CompoundInv'
    BY <1>1, <1>5, CompoundStays DEF LendingInv
  <2>4. protocol = "morpho" => MorphoInv'
    BY <1>1, <1>5, MorphoStays DEF LendingInv
  <2>5. QED
    BY <1>1, <2>1, <2>2, <2>3, <2>4 DEF LendingInv
<1>6. QED
  BY <1>1, <1>2, <1>3, <1>4, <1>5, WhoseStep

LEMMA LendingInvariant == Spec => []LendingInv
BY LendingStart, LendingStep, PTL DEF Spec

\* Whose batch succeeds.
LEMMA WhoseBatch ==
    ASSUME LendingInv, Next, NEW h \in Handlers, OnAave!Succeeded(h)
    PROVE  /\ protocol = "aave" => AaveInv /\ OnAave!Next
           /\ protocol = "compound" => CompoundInv /\ OnCompound!Next /\ OnCompound!Succeeded(h)
           /\ protocol = "morpho" => MorphoInv /\ OnMorpho!Next /\ OnMorpho!Succeeded(h)
           /\ protocol \in {"aave", "compound", "morpho"}
<1>1. OnCompound!Succeeded(h) /\ OnMorpho!Succeeded(h)
  BY DEF OnAave!Succeeded, OnAave!Executed, OnCompound!Succeeded, OnCompound!Executed,
         OnMorpho!Succeeded, OnMorpho!Executed
<1>2. QED
  BY <1>1, WhoseStep DEF LendingInv

-----------------------------------------------------------------------------
(* What a batch that succeeds has done, by adapter. *)

LEMMA AaveDone ==
    ASSUME AaveInv, OnAave!Next, NEW h \in Handlers, OnAave!Succeeded(h), NEW r, r = task[h].req
    PROVE  /\ r.op = "borrow" /\ Fresh(h) /\ r.on_behalf_of = "wallet" =>
                AaveHealthy(chain', Aave!MinHealthFactor(r))
           /\ r.op = "repay" /\ Aave!IsMax(r) /\ Fresh(h) =>
                chain'.balance[r.asset] = 0 \/ AaveOwed(chain', r) = 0
           /\ r.op = "withdraw" /\ Aave!IsMax(r) => chain'.supplied["wallet"][r.asset] = 0
           /\ \A i \in DOMAIN task[h].result : task[h].result[i].fn = "approve" =>
                \/ chain'.allowance[task[h].result[i].token] = 0
                \/ /\ r.op = "repay" /\ ~(Aave!IsMax(r) /\ Fresh(h))
                   /\ task[h].result[i].amount > AaveOwed(chain, r)
<1>1. PICK c, d, calls : c = chain /\ d = chain' /\ calls = task[h].result
  OBVIOUS
<1>2. /\ r \in AaveRequests /\ Aave!Valid(r) /\ r.op \in Aave!Actions /\ c \in Aave!States
      /\ \E n, known : /\ AaveBatch(calls, r, n) /\ AaveReason(r, n, known)
                       /\ AaveEffects(c, d, r, n)
                       /\ Fresh(h) => known = {c}
  BY <1>1, AaveTakesEffect DEF Fresh
<1>3. PICK n, known : /\ AaveBatch(calls, r, n) /\ AaveReason(r, n, known)
                      /\ AaveEffects(c, d, r, n)
                      /\ Fresh(h) => known = {c}
  BY <1>2
<1>4. n \in 1..Aave!MaxUint
  BY <1>3 DEF AaveReason
<1>5. ASSUME r.op = "borrow", Fresh(h), r.on_behalf_of = "wallet"
      PROVE  AaveHealthy(d, Aave!MinHealthFactor(r))
  <2>1. AaveGuard(c, c, r, n)
    BY <1>3, <1>5 DEF AaveReason
  <2>2. AaveBorrowed(c, d, r.asset, n, Aave!Mode(r), "wallet")
    BY <1>3, <1>5 DEF AaveEffects
  <2>3. QED
    BY <1>2, <1>4, <1>5, <2>1, <2>2, AaveKeepsHealth
<1>6. ASSUME r.op = "repay", Aave!IsMax(r), Fresh(h)
      PROVE  n <= AaveOwed(c, r) /\ (d.balance[r.asset] = 0 \/ AaveOwed(d, r) = 0)
  <2>1. AaveReason(r, n, {c})
    BY <1>3, <1>6
  <2>2. QED
    BY <1>2, <1>3, <1>6, <2>1, AaveRepaysAll
<1>7. ASSUME r.op = "withdraw", Aave!IsMax(r)
      PROVE  d.supplied["wallet"][r.asset] = 0
  BY <1>3, <1>7 DEF AaveReason, AaveEffects
<1>8. ASSUME NEW i \in DOMAIN calls, calls[i].fn = "approve", d.allowance[calls[i].token] # 0
      PROVE  r.op = "repay" /\ ~(Aave!IsMax(r) /\ Fresh(h)) /\ calls[i].amount > AaveOwed(c, r)
  <2>1. r.op = "repay" /\ calls[i].amount = n /\ n > AaveOwed(c, r)
    BY <1>2, <1>3, <1>4, <1>8, AaveUsesUp
  <2>2. n \in Nat /\ AaveOwed(c, r) \in Nat
    BY <1>2, <1>4, <2>1, AaveHas, AaveWidth
  <2>3. ~(n <= AaveOwed(c, r))
    BY <2>1, <2>2
  <2>4. QED
    BY <1>6, <2>1, <2>3
<1>9. QED
  BY <1>1, <1>5, <1>6, <1>7, <1>8

LEMMA CompoundDone ==
    ASSUME CompoundInv, OnCompound!Next, NEW h \in Handlers, OnCompound!Succeeded(h),
           NEW r, r = task[h].req, NEW m, m = Compound!Market(r)
    PROVE  /\ r.op = "repay" /\ Compound!IsMax(r) /\ Fresh(h) =>
                chain'.base[m] = Compound!Lesser(chain.base[m] + chain.balance[Compound!BaseToken[m]], 0)
           /\ r.op = "withdraw" /\ Compound!IsMax(r) /\ Compound!IsBaseAsset(r) /\ task[h].since # "wallet" =>
                chain'.base[m] >= 0
           /\ \A i \in DOMAIN task[h].result : task[h].result[i].fn = "approve" =>
                \/ chain'.allowance[task[h].result[i].token] = 0
                \/ /\ r.op \in {"supply", "repay"} /\ Compound!IsBaseAsset(r)
                   /\ task[h].result[i].amount = Compound!MaxUint
<1>1. PICK c, d, calls : c = chain /\ d = chain' /\ calls = task[h].result
  OBVIOUS
<1>2. OnCompound!Fresh(h) <=> Fresh(h)
  BY DEF Fresh, OnAave!Fresh, OnAave!Since, OnCompound!Fresh, OnCompound!Since
<1>3. /\ r \in CompoundRequests /\ Compound!Valid(r) /\ r.op \in Compound!Actions /\ c \in Compound!States
      /\ \E n, known : /\ CompoundBatch(calls, r, n) /\ CompoundReason(r, n, known)
                       /\ CompoundEffects(c, d, r, n) /\ known \subseteq Compound!States
                       /\ Fresh(h) => known = {c}
                       /\ task[h].since # "wallet" => \A b \in known : CompoundView[b] = CompoundView[c]
  BY <1>1, <1>2, CompoundTakesEffect
<1>4. PICK n, known : /\ CompoundBatch(calls, r, n) /\ CompoundReason(r, n, known)
                      /\ CompoundEffects(c, d, r, n) /\ known \subseteq Compound!States
                      /\ Fresh(h) => known = {c}
                      /\ task[h].since # "wallet" => \A b \in known : CompoundView[b] = CompoundView[c]
  BY <1>3
<1>5. n \in 0..Compound!MaxUint
  BY <1>4 DEF CompoundReason
<1>6. ASSUME r.op = "repay", Compound!IsMax(r), Fresh(h)
      PROVE  d.base[m] = Compound!Lesser(c.base[m] + c.balance[Compound!BaseToken[m]], 0)
  <2>1. CompoundReason(r, n, {c})
    BY <1>4, <1>6
  <2>2. QED
    BY <1>3, <1>4, <1>6, <2>1, CompoundRepaysAll
<1>7. ASSUME r.op = "withdraw", Compound!IsMax(r), Compound!IsBaseAsset(r), task[h].since # "wallet"
      PROVE  d.base[m] >= 0
  BY <1>3, <1>4, <1>7, CompoundWithdrawsAll
<1>8. ASSUME NEW i \in DOMAIN calls, calls[i].fn = "approve", d.allowance[calls[i].token] # 0
      PROVE  /\ r.op \in {"supply", "repay"} /\ Compound!IsBaseAsset(r)
             /\ calls[i].amount = Compound!MaxUint
  BY <1>3, <1>4, <1>5, <1>8, CompoundUsesUp
<1>9. QED
  BY <1>1, <1>6, <1>7, <1>8

LEMMA MorphoDone ==
    ASSUME MorphoInv, OnMorpho!Next, NEW h \in Handlers, OnMorpho!Succeeded(h), NEW r, r = task[h].req
    PROVE  /\ r.op \in Morpho!Guarded /\ Fresh(h) =>
                Morpho!HealthyAt(chain', Morpho!ParseMinHealthFactor(r))
           /\ Morpho!IsMax(r) /\ r.op = "repay" /\ task[h].since # "wallet" =>
                chain'.position.borrowShares = 0
           /\ Morpho!IsMax(r) /\ r.op = "withdraw" /\ task[h].since # "wallet" =>
                chain'.position.supplyShares = 0
           /\ \A i \in DOMAIN task[h].result : task[h].result[i].fn = "approve" =>
                chain'.allowance[task[h].result[i].token] = 0
<1>1. PICK c, d, calls : c = chain /\ d = chain' /\ calls = task[h].result
  OBVIOUS
<1>2. OnMorpho!Fresh(h) <=> Fresh(h)
  BY DEF Fresh, OnAave!Fresh, OnAave!Since, OnMorpho!Fresh, OnMorpho!Since
<1>3. /\ r \in MorphoRequests /\ Morpho!Valid(r) /\ r.op \in Morpho!Actions /\ c \in Morpho!States
      /\ \E n, known : /\ MorphoReason(r, n, known) /\ MorphoEffects(c, d, r, n, calls)
                       /\ known \subseteq Morpho!States
                       /\ Fresh(h) => known = {c}
                       /\ task[h].since # "wallet" => \A b \in known : MorphoView[b] = MorphoView[c]
  BY <1>1, <1>2, MorphoTakesEffect
<1>4. PICK n, known : /\ MorphoReason(r, n, known) /\ MorphoEffects(c, d, r, n, calls)
                      /\ known \subseteq Morpho!States
                      /\ Fresh(h) => known = {c}
                      /\ task[h].since # "wallet" => \A b \in known : MorphoView[b] = MorphoView[c]
  BY <1>3
<1>5. ASSUME r.op \in Morpho!Guarded, Fresh(h)
      PROVE  Morpho!HealthyAt(d, Morpho!ParseMinHealthFactor(r))
  <2>1. MorphoReason(r, n, {c})
    BY <1>4, <1>5
  <2>2. QED
    BY <1>3, <1>4, <1>5, <2>1, MorphoKeepsHealth
<1>6. ASSUME Morpho!IsMax(r), r.op \in {"repay", "withdraw"}, task[h].since # "wallet"
      PROVE  /\ r.op = "repay" => d.position.borrowShares = 0
             /\ r.op = "withdraw" => d.position.supplyShares = 0
  BY <1>3, <1>4, <1>6, MorphoClears
<1>7. \A i \in DOMAIN calls : calls[i].fn = "approve" => d.allowance[calls[i].token] = 0
  BY <1>4 DEF MorphoEffects
<1>8. QED
  BY <1>1, <1>5, <1>6, <1>7

-----------------------------------------------------------------------------
(* The states: what is queued, and what the wallet has. *)

\* A queued batch, and what it was compiled from.
LEMMA AaveQueued ==
    ASSUME AaveInv, NEW h \in Handlers, task[h].stage = "queued", ~Aave!IsMax(task[h].req)
    PROVE  task[h].result[Len(task[h].result)].amount = Aave!Meaning(task[h].req, Aave!Decimals[task[h].req.asset])
<1>1. PICK r, calls, known :
        /\ r = task[h].req /\ calls = task[h].result
        /\ known = AaveRuns!Known(task[h], Aave!States, AaveView)
  OBVIOUS
<1>2. AaveRuns!TaskOK(task[h], Aave!States, AaveView) /\ task[h] # AaveRuns!Idle
  BY DEF AaveInv, AaveRuns!HandlerInv, AaveRuns!Idle
<1>3. r \in AaveRequests /\ Aave!Valid(r) /\ AaveRuns!Compiled(calls, r, known)
  BY <1>1, <1>2 DEF AaveRuns!TaskOK, AaveRuns!Compiling
<1>4. known \in SUBSET Aave!States
  BY <1>1 DEF AaveRuns!Known
<1>5. \E n : AaveBatch(calls, r, n) /\ AaveReason(r, n, known)
  BY <1>3, <1>4, AaveCompiled
<1>6. PICK n : AaveBatch(calls, r, n) /\ AaveReason(r, n, known)
  BY <1>5
<1>7. n = Aave!Meaning(r, Aave!Decimals[r.asset])
  BY <1>1, <1>6 DEF AaveReason
<1>8. calls[Len(calls)].amount = n
  BY <1>6, AaveNames
<1>9. QED
  BY <1>1, <1>7, <1>8

LEMMA CompoundQueued ==
    ASSUME CompoundInv, NEW h \in Handlers, task[h].stage = "queued", ~Compound!IsMax(task[h].req)
    PROVE  task[h].result[Len(task[h].result)].amount
             = Compound!Meaning(task[h].req, Compound!AmountDecimals(task[h].req))
<1>1. PICK r, calls, known :
        /\ r = task[h].req /\ calls = task[h].result
        /\ known = CompoundRuns!Known(task[h], Compound!States, CompoundView)
  OBVIOUS
<1>2. CompoundRuns!TaskOK(task[h], Compound!States, CompoundView) /\ task[h] # CompoundRuns!Idle
  BY DEF CompoundInv, CompoundRuns!HandlerInv, CompoundRuns!Idle
<1>3. r \in CompoundRequests /\ Compound!Valid(r) /\ CompoundRuns!Compiled(calls, r, known)
  BY <1>1, <1>2 DEF CompoundRuns!TaskOK, CompoundRuns!Compiling
<1>4. known \in SUBSET Compound!States
  BY <1>1 DEF CompoundRuns!Known
<1>5. \E n : CompoundBatch(calls, r, n) /\ CompoundReason(r, n, known)
  BY <1>3, <1>4, CompoundCompiled
<1>6. PICK n : CompoundBatch(calls, r, n) /\ CompoundReason(r, n, known)
  BY <1>5
<1>7. n = Compound!Meaning(r, Compound!AmountDecimals(r))
  BY <1>1, <1>6 DEF CompoundReason
<1>8. calls[Len(calls)].amount = n
  BY <1>6, CompoundNames
<1>9. QED
  BY <1>1, <1>7, <1>8

LEMMA MorphoQueued ==
    ASSUME MorphoInv, NEW h \in Handlers, task[h].stage = "queued", ~Morpho!IsMax(task[h].req),
           task[h].req.amount.kind # "negative",
           NEW call, call = task[h].result[IF Len(task[h].result) = 1 THEN 1 ELSE 3]
    PROVE  call.shares = 0 /\ 10 * call.assets \in MorphoTenths(task[h].req) - 9..MorphoTenths(task[h].req)
<1>1. PICK r, calls, known :
        /\ r = task[h].req /\ calls = task[h].result
        /\ known = MorphoRuns!Known(task[h], Morpho!States, MorphoView)
  OBVIOUS
<1>2. MorphoRuns!TaskOK(task[h], Morpho!States, MorphoView) /\ task[h] # MorphoRuns!Idle
  BY DEF MorphoInv, MorphoRuns!HandlerInv, MorphoRuns!Idle
<1>3. r \in MorphoRequests /\ Morpho!Valid(r) /\ MorphoRuns!Compiled(calls, r, known)
  BY <1>1, <1>2 DEF MorphoRuns!TaskOK, MorphoRuns!Compiling
<1>4. known \in SUBSET Morpho!States
  BY <1>1 DEF MorphoRuns!Known
<1>5. r.op \in Morpho!Actions /\ \E n : calls = Morpho!CompileAction(r, n) /\ MorphoReason(r, n, known)
  BY <1>3, <1>4, MorphoCompiled
<1>6. PICK n : calls = Morpho!CompileAction(r, n) /\ MorphoReason(r, n, known)
  BY <1>5
<1>7. /\ MorphoAmount(n) /\ n.shares = 0
      /\ 10 * n.assets \in MorphoTenths(r) - 9..MorphoTenths(r)
  BY <1>1, <1>6 DEF MorphoReason
<1>8. call = calls[IF Len(calls) = 1 THEN 1 ELSE 3]
  BY <1>1
<1>9. call.assets = n.assets /\ call.shares = n.shares
  BY <1>5, <1>6, <1>7, <1>8, MorphoNames
<1>10. QED
  BY <1>1, <1>7, <1>9

\* The stages of a handler, and the wallet, of the adapter in use.
LEMMA HandlersTyped ==
    ASSUME LendingInv, NEW h \in Handlers
    PROVE  task[h].stage \in {"idle", "reading", "rejected", "answered", "simulated",
                              "queued", "mined", "reverted"}
<1>1. CASE protocol = "aave"
  <2>1. AaveRuns!TaskOK(task[h], Aave!States, AaveView)
    BY <1>1 DEF LendingInv, AaveInv, AaveRuns!HandlerInv
  <2>2. QED
    BY <2>1 DEF AaveRuns!TaskOK, AaveRuns!Idle, AaveRuns!Stages
<1>2. CASE protocol = "compound"
  <2>1. CompoundRuns!TaskOK(task[h], Compound!States, CompoundView)
    BY <1>2 DEF LendingInv, CompoundInv, CompoundRuns!HandlerInv
  <2>2. QED
    BY <2>1 DEF CompoundRuns!TaskOK, CompoundRuns!Idle, CompoundRuns!Stages
<1>3. CASE protocol = "morpho"
  <2>1. MorphoRuns!TaskOK(task[h], Morpho!States, MorphoView)
    BY <1>3 DEF LendingInv, MorphoInv, MorphoRuns!HandlerInv
  <2>2. QED
    BY <2>1 DEF MorphoRuns!TaskOK, MorphoRuns!Idle, MorphoRuns!Stages
<1>4. QED
  BY <1>1, <1>2, <1>3 DEF LendingInv

LEMMA WalletTyped ==
    ASSUME LendingInv
    PROVE  /\ \A x \in DOMAIN chain.balance :
                chain.balance[x] \in Nat /\ chain.allowance[x] \in 0..Aave!MaxUint
           /\ protocol = "morpho" => \A x \in DOMAIN chain.position : chain.position[x] \in Nat
<1>1. Compound!MaxUint = Aave!MaxUint /\ Morpho!MaxUint = Aave!MaxUint
  BY AaveAmounts, CompoundAmounts, MorphoAmounts
<1>2. PICK c, top : c = chain /\ top = Aave!MaxUint
  OBVIOUS
<1>3. ASSUME protocol = "aave"
      PROVE  \A x \in DOMAIN c.balance : c.balance[x] \in Nat /\ c.allowance[x] \in 0..top
  <2>1. c \in Aave!States
    BY <1>2, <1>3 DEF LendingInv, AaveInv, AaveRuns!HandlerInv
  <2>2. c.balance \in [Aave!Assets -> Nat] /\ c.allowance \in [Aave!Assets -> 0..top]
    BY <1>2, <2>1, AaveShape DEF AaveTyped
  <2>3. QED
    BY <2>2
<1>4. ASSUME protocol = "compound"
      PROVE  \A x \in DOMAIN c.balance : c.balance[x] \in Nat /\ c.allowance[x] \in 0..top
  <2>1. c \in Compound!States
    BY <1>2, <1>4 DEF LendingInv, CompoundInv, CompoundRuns!HandlerInv
  <2>2. c.balance \in [CometTokens -> Nat] /\ c.allowance \in [CometTokens -> 0..Compound!MaxUint]
    BY <2>1, CompoundShape DEF CompoundTyped
  <2>3. QED
    BY <1>1, <1>2, <2>2
<1>5. ASSUME protocol = "morpho"
      PROVE  /\ \A x \in DOMAIN c.balance : c.balance[x] \in Nat /\ c.allowance[x] \in 0..top
             /\ \A x \in DOMAIN c.position : c.position[x] \in Nat
  <2>1. c \in Morpho!States
    BY <1>2, <1>5 DEF LendingInv, MorphoInv, MorphoRuns!HandlerInv
  <2>2. c.balance \in [Morpho!Tokens -> Nat] /\ c.allowance \in [Morpho!Tokens -> 0..top]
    BY <1>1, <1>2, <2>1, MorphoLooser DEF MorphoHoldings
  <2>3. c.position \in MorphoLoose
    BY <2>1, MorphoLooser
  <2>4. \A x \in DOMAIN c.position : c.position[x] \in Nat
    BY <2>3 DEF MorphoLoose
  <2>5. QED
    BY <2>2, <2>4
<1>6. QED
  BY <1>2, <1>3, <1>4, <1>5 DEF LendingInv

\* "max" is the same text to the three adapters.
LEMMA SameMax ==
    ASSUME NEW h \in Handlers
    PROVE  /\ IsMax(h) <=> Aave!IsMax(task[h].req)
           /\ IsMax(h) <=> Compound!IsMax(task[h].req)
           /\ IsMax(h) <=> Morpho!IsMax(task[h].req)
BY AaveAmounts, CompoundAmounts, MorphoAmounts DEF IsMax, Request

-----------------------------------------------------------------------------
(* The theorems. *)

(* LendingProtocols.TypeOK: whatever is requested, read and executed in    *)
(* whatever order, no batch spends what the wallet has not got, and no     *)
(* call carries the error of an amount for an amount.                      *)
THEOREM AmountsStayInRange == Spec => []TypeOK
<1>1. LendingInv => TypeOK
  BY HandlersTyped, WalletTyped DEF TypeOK, LendingInv
<1>2. QED
  BY <1>1, LendingInvariant, PTL

(* LendingProtocols.CompiledAsAsked: what is queued for a request with an  *)
(* explicit amount carries that amount, whatever was read for it           *)
(* (parse_amount, parse_units, the compile functions of the adapters).     *)
THEOREM AmountsAreKept == Spec => []CompiledAsAsked
<1>1. LendingInv => CompiledAsAsked
  <2> SUFFICES ASSUME LendingInv
               PROVE  CompiledAsAsked
    OBVIOUS
  <2>1. ASSUME protocol = "aave"
        PROVE  CompiledAsAsked
    BY <2>1, AaveQueued, SameMax DEF CompiledAsAsked, LendingInv, Request
  <2>2. ASSUME protocol = "compound"
        PROVE  CompiledAsAsked
    BY <2>2, CompoundQueued, SameMax DEF CompiledAsAsked, LendingInv, Request
  <2>3. ASSUME protocol = "morpho"
        PROVE  CompiledAsAsked
    BY <2>3, MorphoQueued, SameMax DEF CompiledAsAsked, LendingInv, Request, MorphoTenths
  <2>4. QED
    BY <2>1, <2>2, <2>3 DEF LendingInv
<1>2. QED
  BY <1>1, LendingInvariant, PTL

\* A batch of one protocol that was asked for.
LEMMA WhatWasDone ==
    ASSUME NEW h \in Handlers, NEW p, NEW ops, Did(h, p, ops)
    PROVE  protocol = p /\ task[h].req.op \in ops /\ OnAave!Succeeded(h)
BY DEF Did, OnAave!Asked

(* LendingProtocols.GuardedActionsKeepHealth: a borrow, or a withdrawal of *)
(* collateral, that is executed on the chain its guard has read leaves the *)
(* wallet at least as healthy as the request asked for.  For Morpho, where *)
(* the guard projects the loan through shares and two roundings, that is   *)
(* the health the protocol itself computes afterwards; for Aave it is off  *)
(* by at most one unit of debt (guard_borrow_health, enforce_health_guard).*)
THEOREM HealthIsKept == Spec => GuardedActionsKeepHealth
<1> DEFINE Holds ==
           \A h \in Handlers :
             /\ Did(h, "aave", {"borrow"}) /\ Fresh(h) /\ Request(h).on_behalf_of = "wallet"
                  => AaveHealthy(chain', Aave!MinHealthFactor(Request(h)))
             /\ Did(h, "morpho", Morpho!Guarded) /\ Fresh(h)
                  => Morpho!HealthyAt(chain', Morpho!ParseMinHealthFactor(Request(h)))
<1>1. LendingInv /\ [Next]_vars => [Holds]_vars
  <2> SUFFICES ASSUME LendingInv, [Next]_vars
               PROVE  [Holds]_vars
    OBVIOUS
  <2>1. CASE UNCHANGED vars
    BY <2>1
  <2>2. ASSUME Next, NEW h \in Handlers, Did(h, "aave", {"borrow"}), Fresh(h), Request(h).on_behalf_of = "wallet"
        PROVE  AaveHealthy(chain', Aave!MinHealthFactor(Request(h)))
    <3>1. PICK r : r = task[h].req /\ r = Request(h)
      BY DEF Request
    <3>2. protocol = "aave" /\ r.op \in {"borrow"} /\ OnAave!Succeeded(h)
      BY <2>2, <3>1, WhatWasDone
    <3>3. AaveInv /\ OnAave!Next
      BY <2>2, <3>2, WhoseBatch
    <3>4. AaveHealthy(chain', Aave!MinHealthFactor(r))
      BY <2>2, <3>1, <3>2, <3>3, AaveDone
    <3>5. QED
      BY <3>1, <3>4
  <2>3. ASSUME Next, NEW h \in Handlers, Did(h, "morpho", Morpho!Guarded), Fresh(h)
        PROVE  Morpho!HealthyAt(chain', Morpho!ParseMinHealthFactor(Request(h)))
    <3>1. PICK r : r = task[h].req /\ r = Request(h)
      BY DEF Request
    <3>2. protocol = "morpho" /\ r.op \in Morpho!Guarded /\ OnAave!Succeeded(h)
      BY <2>3, <3>1, WhatWasDone
    <3>3. MorphoInv /\ OnMorpho!Next /\ OnMorpho!Succeeded(h)
      BY <2>3, <3>2, WhoseBatch
    <3>4. Morpho!HealthyAt(chain', Morpho!ParseMinHealthFactor(r))
      BY <2>3, <3>1, <3>2, <3>3, MorphoDone
    <3>5. QED
      BY <3>1, <3>4
  <2>4. CASE Next
    BY <2>2, <2>3, <2>4
  <2>5. QED
    BY <2>1, <2>4
<1>2. QED
  BY <1>1, LendingInvariant, PTL DEF Spec, GuardedActionsKeepHealth

(* LendingProtocols.MaxLeavesNothing: a batch compiled from "max" leaves   *)
(* nothing behind: of Morpho's positions although interest has accrued in  *)
(* between, of Aave's supply whatever has happened, of the debts of Aave   *)
(* and Compound on the chain that was read, as far as the balance reaches. *)
THEOREM NothingIsLeftOfTheMaximum == Spec => MaxLeavesNothing
<1> DEFINE Holds ==
           \A h \in Handlers : OnAave!Executed(h) /\ IsMax(h) =>
             LET r == Request(h)
                 m == Compound!Market(r)
             IN /\ Did(h, "morpho", {"repay"}) /\ task[h].since # "wallet"
                     => chain'.position.borrowShares = 0
                /\ Did(h, "morpho", {"withdraw"}) /\ task[h].since # "wallet"
                     => chain'.position.supplyShares = 0
                /\ Did(h, "aave", {"repay"}) /\ Fresh(h)
                     => \/ chain'.balance[r.asset] = 0
                        \/ chain'.debt[r.on_behalf_of][Aave!Mode(r)][r.asset] = 0
                /\ Did(h, "aave", {"withdraw"}) => chain'.supplied["wallet"][r.asset] = 0
                /\ Did(h, "compound", {"repay"}) /\ Fresh(h)
                     => chain'.base[m] = Aave!Lesser(chain.base[m] + chain.balance[Compound!BaseToken[m]], 0)
                /\ Did(h, "compound", {"withdraw"}) /\ Compound!IsBaseAsset(r) /\ task[h].since # "wallet"
                     => chain'.base[m] >= 0
<1>1. LendingInv /\ [Next]_vars => [Holds]_vars
  <2> SUFFICES ASSUME LendingInv, [Next]_vars
               PROVE  [Holds]_vars
    OBVIOUS
  <2>1. CASE UNCHANGED vars
    BY <2>1
  <2>2. ASSUME Next, NEW h \in Handlers, IsMax(h), NEW r, r = task[h].req, NEW m, m = Compound!Market(r)
        PROVE  /\ Did(h, "morpho", {"repay"}) /\ task[h].since # "wallet"
                    => chain'.position.borrowShares = 0
               /\ Did(h, "morpho", {"withdraw"}) /\ task[h].since # "wallet"
                    => chain'.position.supplyShares = 0
               /\ Did(h, "aave", {"repay"}) /\ Fresh(h)
                    => \/ chain'.balance[r.asset] = 0
                       \/ chain'.debt[r.on_behalf_of][Aave!Mode(r)][r.asset] = 0
               /\ Did(h, "aave", {"withdraw"}) => chain'.supplied["wallet"][r.asset] = 0
               /\ Did(h, "compound", {"repay"}) /\ Fresh(h)
                    => chain'.base[m] = Aave!Lesser(chain.base[m] + chain.balance[Compound!BaseToken[m]], 0)
               /\ Did(h, "compound", {"withdraw"}) /\ Compound!IsBaseAsset(r) /\ task[h].since # "wallet"
                    => chain'.base[m] >= 0
    <3>1. Aave!IsMax(r) /\ Compound!IsMax(r) /\ Morpho!IsMax(r)
      BY <2>2, SameMax
    <3>2. ASSUME NEW ops, Did(h, "aave", ops)
          PROVE  AaveInv /\ OnAave!Next /\ OnAave!Succeeded(h) /\ r.op \in ops
      BY <2>2, <3>2, WhatWasDone, WhoseBatch
    <3>3. ASSUME NEW ops, Did(h, "compound", ops)
          PROVE  CompoundInv /\ OnCompound!Next /\ OnCompound!Succeeded(h) /\ r.op \in ops
      BY <2>2, <3>3, WhatWasDone, WhoseBatch
    <3>4. ASSUME NEW ops, Did(h, "morpho", ops)
          PROVE  MorphoInv /\ OnMorpho!Next /\ OnMorpho!Succeeded(h) /\ r.op \in ops
      BY <2>2, <3>4, WhatWasDone, WhoseBatch
    <3>5. /\ Did(h, "morpho", {"repay"}) /\ task[h].since # "wallet" => chain'.position.borrowShares = 0
          /\ Did(h, "morpho", {"withdraw"}) /\ task[h].since # "wallet" => chain'.position.supplyShares = 0
      BY <2>2, <3>1, <3>4, MorphoDone
    <3>6. /\ Did(h, "aave", {"repay"}) /\ Fresh(h) => chain'.balance[r.asset] = 0 \/ AaveOwed(chain', r) = 0
          /\ Did(h, "aave", {"withdraw"}) => chain'.supplied["wallet"][r.asset] = 0
      BY <2>2, <3>1, <3>2, AaveDone
    <3>7. /\ Did(h, "compound", {"repay"}) /\ Fresh(h)
               => chain'.base[m] = Compound!Lesser(chain.base[m] + chain.balance[Compound!BaseToken[m]], 0)
          /\ Did(h, "compound", {"withdraw"}) /\ Compound!IsBaseAsset(r) /\ task[h].since # "wallet"
               => chain'.base[m] >= 0
      BY <2>2, <3>1, <3>3, CompoundDone
    <3>8. \A a, b : Compound!Lesser(a, b) = Aave!Lesser(a, b)
      BY DEF Compound!Lesser, Aave!Lesser
    <3>9. QED
      BY <3>5, <3>6, <3>7, <3>8 DEF AaveOwed
  <2>3. CASE Next
    BY <2>2, <2>3 DEF Request
  <2>4. QED
    BY <2>1, <2>3
<1>2. QED
  BY <1>1, LendingInvariant, PTL DEF Spec, MaxLeavesNothing

(* LendingProtocols.AllowancesAreUsedUp: no batch leaves an allowance it   *)
(* has opened, but for a repayment to Aave of more than is owed by then,   *)
(* and a payment to Comet of the greatest number (the compile functions).  *)
THEOREM AllowancesAreClosed == Spec => AllowancesAreUsedUp
<1> DEFINE Holds ==
           \A h \in Handlers : OnAave!Executed(h) /\ OnAave!Succeeded(h) =>
             LET r == Request(h)
             IN \A k \in {task[h].result[i] : i \in DOMAIN task[h].result} : k.fn = "approve" =>
                   \/ chain'.allowance[k.token] = 0
                   \/ /\ Did(h, "aave", {"repay"}) /\ ~(IsMax(h) /\ Fresh(h))
                      /\ k.amount > chain.debt[r.on_behalf_of][Aave!Mode(r)][r.asset]
                   \/ /\ Did(h, "compound", {"supply", "repay"})
                      /\ Compound!IsBaseAsset(r) /\ k.amount = Aave!MaxUint
<1>1. LendingInv /\ [Next]_vars => [Holds]_vars
  <2> SUFFICES ASSUME LendingInv, [Next]_vars
               PROVE  [Holds]_vars
    OBVIOUS
  <2>1. CASE UNCHANGED vars
    BY <2>1
  <2>2. ASSUME Next, NEW h \in Handlers, OnAave!Succeeded(h), NEW r, r = task[h].req,
               NEW i \in DOMAIN task[h].result, NEW k, k = task[h].result[i], k.fn = "approve",
               chain'.allowance[k.token] # 0
        PROVE  \/ /\ Did(h, "aave", {"repay"}) /\ ~(IsMax(h) /\ Fresh(h))
                  /\ k.amount > chain.debt[r.on_behalf_of][Aave!Mode(r)][r.asset]
               \/ /\ Did(h, "compound", {"supply", "repay"})
                  /\ Compound!IsBaseAsset(r) /\ k.amount = Aave!MaxUint
    <3>1. task[h].stage # "idle"
      BY <2>2 DEF OnAave!Succeeded, OnAave!Executed
    <3>2. CASE protocol = "aave"
      <4>1. AaveInv /\ OnAave!Next
        BY <2>2, <3>2, WhoseBatch
      <4>2. r.op = "repay" /\ ~(Aave!IsMax(r) /\ Fresh(h)) /\ k.amount > AaveOwed(chain, r)
        BY <2>2, <4>1, AaveDone
      <4>3. Did(h, "aave", {"repay"})
        BY <2>2, <3>1, <3>2, <4>2 DEF Did, OnAave!Asked
      <4>4. QED
        BY <2>2, <4>2, <4>3, SameMax DEF AaveOwed
    <3>3. CASE protocol = "compound"
      <4>1. CompoundInv /\ OnCompound!Next /\ OnCompound!Succeeded(h)
        BY <2>2, <3>3, WhoseBatch
      <4>2. r.op \in {"supply", "repay"} /\ Compound!IsBaseAsset(r) /\ k.amount = Compound!MaxUint
        BY <2>2, <4>1, CompoundDone
      <4>3. Did(h, "compound", {"supply", "repay"})
        BY <2>2, <3>1, <3>3, <4>2 DEF Did, OnAave!Asked
      <4>4. Compound!MaxUint = Aave!MaxUint
        BY AaveAmounts, CompoundAmounts
      <4>5. QED
        BY <4>2, <4>3, <4>4
    <3>4. CASE protocol = "morpho"
      <4>1. MorphoInv /\ OnMorpho!Next /\ OnMorpho!Succeeded(h)
        BY <2>2, <3>4, WhoseBatch
      <4>2. QED
        BY <2>2, <4>1, MorphoDone
    <3>5. QED
      BY <3>2, <3>3, <3>4 DEF LendingInv
  <2>3. CASE Next
    BY <2>2, <2>3 DEF Request
  <2>4. QED
    BY <2>1, <2>3
<1>2. QED
  BY <1>1, LendingInvariant, PTL DEF Spec, AllowancesAreUsedUp
=============================================================================
