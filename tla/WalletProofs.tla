----------------------------- MODULE WalletProofs -----------------------------
(***************************************************************************)
(* The wallet registry, for any number of agents, instances, callers and   *)
(* chains, any factories, faults and restarts: an agent has one wallet,    *)
(* and the registry implements a register that is written once.            *)
(***************************************************************************)
EXTENDS WalletRegistry, TLAPS

\* What a call has in hand after each await: a new wallet while it derives
\* and persists; an agent that has a row once the INSERT was executed; that
\* row when it resolves the address.
HandOK(x) ==
    LET call == caller[x]
    IN  /\ call.at \in {"derive", "persist", "reload"} => call.wallet \in Wallet
        /\ call.at \in {"reload", "resolve"} => rows[call.agent] \in Wallet
        /\ call.at = "resolve" => call.wallet = rows[call.agent]

\* Everything told to a caller comes from the row of its agent.
ToldFromRow ==
    \A s \in told :
        /\ rows[s.agent] \in Wallet
        /\ s.owner = rows[s.agent].owner
        /\ s.address = AddressOn(s.chain, rows[s.agent])

RegistryInv ==
    /\ TypeOK
    /\ \A x \in Callers : HandOK(x)
    /\ ToldFromRow
-----------------------------------------------------------------------------
LEMMA Params ==
    /\ Ethereum \in Chains
    /\ MaxKeys \in Nat /\ MaxFaults \in Nat /\ MaxRestarts \in Nat
  BY RegistryAssumption

\* No wallet is the missing one: owners are counted from 1.
LEMMA WalletIsSome == NoWallet \notin Wallet
  BY Params DEF NoWallet, Wallet, Key

LEMMA NewWalletType ==
    ASSUME NEW c \in Chains, NEW k \in Key
    PROVE  [owner |-> k, address |-> Address(FactoryOf[c], k)] \in Wallet
  BY DEF Wallet, Addresses

LEMMA AddressOnType ==
    ASSUME NEW c \in Chains, NEW w \in Wallet
    PROVE  AddressOn(c, w) \in Addresses
  BY DEF AddressOn, Wallet, Addresses

\* The two forms of a caller, and its fields.
LEMMA CallerFields ==
    ASSUME TypeOK, NEW x \in Callers, caller[x].at # "idle"
    PROVE  /\ caller[x] \in Call
           /\ caller[x].agent \in Agents /\ caller[x].instance \in Instances
           /\ caller[x].chain \in Chains
           /\ caller[x].wallet \in Wallet \cup {NoWallet}
  BY DEF TypeOK, Call, NoCall

\* A call that goes on stays well typed; the other calls are left alone.
LEMMA GotoType ==
    ASSUME TypeOK, NEW x \in Callers, caller[x].at # "idle",
           NEW next \in {"derive", "persist", "reload", "resolve"},
           NEW w \in Wallet \cup {NoWallet}, Goto(x, next, w)
    PROVE  /\ caller' \in [Callers -> Call \cup {NoCall}]
           /\ caller'[x].at = next /\ caller'[x].wallet = w
           /\ caller'[x].agent = caller[x].agent
           /\ \A y \in Callers : y # x => caller'[y] = caller[y]
<1>1. caller[x] \in Call
  BY CallerFields
<1>2. [[caller[x] EXCEPT !.at = next] EXCEPT !.wallet = w] \in Call
  BY <1>1 DEF Call
<1>3. QED
  BY <1>1, <1>2 DEF TypeOK, Goto, Call

LEMMA ReturnType ==
    ASSUME TypeOK, NEW x \in Callers, Return(x)
    PROVE  /\ caller' \in [Callers -> Call \cup {NoCall}]
           /\ caller'[x].at = "idle"
           /\ \A y \in Callers : y # x => caller'[y] = caller[y]
  BY DEF TypeOK, Return, NoCall

\* A call at no await has nothing to answer for.
LEMMA IdleHand ==
    ASSUME NEW x \in Callers, caller[x].at = "idle"
    PROVE  HandOK(x)
  BY DEF HandOK

\* Inserting changes only a missing row, and leaves the agent with one.
LEMMA InsertedType ==
    ASSUME TypeOK, NEW a \in Agents, NEW w \in Wallet
    PROVE  /\ Inserted(a, w) \in [Agents -> Wallet \cup {NoWallet}]
           /\ Inserted(a, w)[a] \in Wallet
           /\ \A b \in Agents : rows[b] \in Wallet => Inserted(a, w)[b] = rows[b]
<1>1. rows \in [Agents -> Wallet \cup {NoWallet}]
  BY DEF TypeOK
<1>2. QED
  BY <1>1, WalletIsSome DEF Inserted
-----------------------------------------------------------------------------
LEMMA RegistryInit == Init => RegistryInv
<1> SUFFICES ASSUME Init
             PROVE  RegistryInv
  OBVIOUS
<1>1. TypeOK
  BY Params DEF Init, TypeOK
<1>2. QED
  BY <1>1, IdleHand DEF Init, RegistryInv, ToldFromRow, HandOK, NoCall

\* Rows that only gain members keep what was told, and the calls that did
\* not move keep what they have in hand.
LEMMA RowsGrow ==
    ASSUME RegistryInv, TypeOK', told' = told,
           \A b \in Agents : rows[b] \in Wallet => rows'[b] = rows[b],
           NEW x \in Callers, HandOK(x)',
           \A y \in Callers : y # x => caller'[y] = caller[y]
    PROVE  RegistryInv'
<1>1. ASSUME NEW y \in Callers
      PROVE  HandOK(y)'
  <2>1. CASE y = x
    BY <2>1
  <2>2. CASE y # x /\ caller[y].at = "idle"
    BY <2>2 DEF HandOK
  <2>3. CASE y # x /\ caller[y].at # "idle"
    <3>1. caller[y].agent \in Agents
      BY <2>3, CallerFields DEF RegistryInv
    <3>2. HandOK(y) /\ caller'[y] = caller[y]
      BY <2>3 DEF RegistryInv
    <3>3. QED
      BY <3>1, <3>2 DEF HandOK
  <2>4. QED
    BY <2>1, <2>2, <2>3
<1>2. ToldFromRow'
  <2> SUFFICES ASSUME NEW s \in told
               PROVE  /\ rows'[s.agent] \in Wallet
                      /\ s.owner = rows'[s.agent].owner
                      /\ s.address = AddressOn(s.chain, rows'[s.agent])
    BY DEF ToldFromRow, AddressOn
  <2>1. s.agent \in Agents
    BY DEF RegistryInv, TypeOK
  <2>2. QED
    BY <2>1 DEF RegistryInv, ToldFromRow
<1>3. QED
  BY <1>1, <1>2 DEF RegistryInv

LEMMA LoadStep ==
    ASSUME RegistryInv, NEW x \in Callers, Load(x)
    PROVE  RegistryInv'
<1> USE DEF RegistryInv
<1>1. /\ caller[x] \in Call /\ caller[x].agent \in Agents
      /\ caller[x].instance \in Instances /\ caller[x].at = "load"
      /\ first[caller[x].instance] \in Chains
  BY CallerFields DEF Load, TypeOK
<1>2. CASE rows[caller[x].agent] # NoWallet
  <2>1. /\ rows[caller[x].agent] \in Wallet
        /\ Goto(x, "resolve", rows[caller[x].agent])
        /\ UNCHANGED <<rows, first, told, keys, faults, restarts>>
    BY <1>1, <1>2 DEF Load, TypeOK
  <2>2. TypeOK' /\ HandOK(x)' /\ \A y \in Callers : y # x => caller'[y] = caller[y]
    BY <1>1, <2>1, GotoType DEF TypeOK, HandOK
  <2>3. QED
    BY <2>1, <2>2, RowsGrow
<1>3. CASE rows[caller[x].agent] = NoWallet
  <2> DEFINE new == [owner |-> keys + 1,
                     address |-> Address(FactoryOf[first[caller[x].instance]], keys + 1)]
  <2>1. /\ keys < MaxKeys /\ keys' = keys + 1 /\ Goto(x, "derive", new)
        /\ UNCHANGED <<rows, first, told, faults, restarts>>
    BY <1>3 DEF Load
  <2>2. keys + 1 \in Key /\ keys' \in 0..MaxKeys
    BY <2>1, Params DEF TypeOK, Key
  <2>3. new \in Wallet
    BY <1>1, <2>2, NewWalletType
  <2> HIDE DEF new
  <2>4. TypeOK' /\ HandOK(x)' /\ \A y \in Callers : y # x => caller'[y] = caller[y]
    BY <1>1, <2>1, <2>2, <2>3, GotoType DEF TypeOK, HandOK
  <2>5. QED
    BY <2>1, <2>4, RowsGrow
<1>4. QED
  BY <1>2, <1>3

LEMMA DeriveStep ==
    ASSUME RegistryInv, NEW x \in Callers, Derive(x)
    PROVE  RegistryInv'
<1> USE DEF RegistryInv
<1>1. caller[x].at = "derive" /\ caller[x].wallet \in Wallet
  BY DEF Derive, HandOK
<1>2. TypeOK' /\ HandOK(x)' /\ \A y \in Callers : y # x => caller'[y] = caller[y]
  BY <1>1, GotoType DEF Derive, TypeOK, HandOK
<1>3. QED
  BY <1>2, RowsGrow DEF Derive

LEMMA PersistStep ==
    ASSUME RegistryInv, NEW x \in Callers, Persist(x)
    PROVE  RegistryInv'
<1> USE DEF RegistryInv
<1>1. caller[x].at = "persist" /\ caller[x].wallet \in Wallet
  BY DEF Persist, HandOK
<1>2. caller[x].agent \in Agents
  BY <1>1, CallerFields
<1>3. /\ rows' \in [Agents -> Wallet \cup {NoWallet}]
      /\ rows'[caller[x].agent] \in Wallet
      /\ \A b \in Agents : rows[b] \in Wallet => rows'[b] = rows[b]
  BY <1>1, <1>2, InsertedType DEF Persist
<1>4. TypeOK' /\ HandOK(x)' /\ \A y \in Callers : y # x => caller'[y] = caller[y]
  BY <1>1, <1>3, GotoType DEF Persist, TypeOK, HandOK
<1>5. QED
  BY <1>3, <1>4, RowsGrow DEF Persist

LEMMA ReloadStep ==
    ASSUME RegistryInv, NEW x \in Callers, Reload(x)
    PROVE  RegistryInv'
<1> USE DEF RegistryInv
<1>1. caller[x].at = "reload" /\ rows[caller[x].agent] \in Wallet
  BY DEF Reload, HandOK
<1>2. Goto(x, "resolve", rows[caller[x].agent])
  BY <1>1, WalletIsSome DEF Reload
<1>3. TypeOK' /\ HandOK(x)' /\ \A y \in Callers : y # x => caller'[y] = caller[y]
  BY <1>1, <1>2, GotoType DEF Reload, TypeOK, HandOK
<1>4. QED
  BY <1>3, RowsGrow DEF Reload

LEMMA ResolveStep ==
    ASSUME RegistryInv, NEW x \in Callers, Resolve(x)
    PROVE  RegistryInv'
<1> USE DEF RegistryInv
<1> DEFINE call == caller[x]
           answer == [agent |-> call.agent, chain |-> call.chain,
                      owner |-> call.wallet.owner,
                      address |-> AddressOn(call.chain, call.wallet)]
<1>1. /\ call.at = "resolve" /\ call.agent \in Agents /\ call.chain \in Chains
      /\ call.wallet = rows[call.agent] /\ call.wallet \in Wallet
  BY CallerFields DEF Resolve, HandOK
<1>2. told' = told \cup {answer} /\ Return(x)
      /\ UNCHANGED <<rows, first, keys, faults, restarts>>
  BY DEF Resolve
<1>3. answer \in [agent : Agents, chain : Chains, owner : Key, address : Addresses]
  BY <1>1, AddressOnType DEF Wallet
<1>4. TypeOK'
  BY <1>2, <1>3, ReturnType DEF TypeOK
<1>5. ASSUME NEW y \in Callers
      PROVE  HandOK(y)'
  BY <1>2, ReturnType DEF HandOK
<1>6. ToldFromRow'
  <2> SUFFICES ASSUME NEW s \in told'
               PROVE  /\ rows[s.agent] \in Wallet
                      /\ s.owner = rows[s.agent].owner
                      /\ s.address = AddressOn(s.chain, rows[s.agent])
    BY <1>2 DEF ToldFromRow, AddressOn
  <2>1. CASE s \in told
    BY <2>1 DEF ToldFromRow
  <2>2. CASE s = answer
    BY <1>1, <2>2
  <2>3. QED
    BY <1>2, <2>1, <2>2
<1>7. QED
  BY <1>4, <1>5, <1>6

LEMMA FailStep ==
    ASSUME RegistryInv, NEW x \in Callers, Fail(x)
    PROVE  RegistryInv'
<1> USE DEF RegistryInv
<1>1. /\ rows' \in [Agents -> Wallet \cup {NoWallet}]
      /\ \A b \in Agents : rows[b] \in Wallet => rows'[b] = rows[b]
  <2>1. CASE rows' = rows
    BY <2>1 DEF TypeOK
  <2>2. CASE caller[x].at = "persist" /\ rows' = Inserted(caller[x].agent, caller[x].wallet)
    <3>1. caller[x].agent \in Agents /\ caller[x].wallet \in Wallet
      BY <2>2, CallerFields DEF HandOK
    <3>2. QED
      BY <2>2, <3>1, InsertedType
  <2>3. QED
    BY <2>1, <2>2 DEF Fail
<1>2. faults' \in 0..MaxFaults
  BY Params DEF Fail, TypeOK
<1>3. TypeOK' /\ HandOK(x)' /\ \A y \in Callers : y # x => caller'[y] = caller[y]
  BY <1>1, <1>2, ReturnType DEF Fail, TypeOK, HandOK
<1>4. QED
  BY <1>1, <1>3, RowsGrow DEF Fail

LEMMA RegistryStep == RegistryInv /\ [Next]_vars => RegistryInv'
<1> SUFFICES ASSUME RegistryInv, [Next]_vars
             PROVE  RegistryInv'
  OBVIOUS
<1> USE DEF RegistryInv
<1>1. ASSUME NEW x \in Callers, NEW a \in Agents, NEW i \in Instances, NEW c \in Chains,
             Request(x, a, i, c)
      PROVE  RegistryInv'
  <2>1. TypeOK' /\ HandOK(x)' /\ \A y \in Callers : y # x => caller'[y] = caller[y]
    BY <1>1 DEF Request, TypeOK, HandOK, Call
  <2>2. QED
    BY <1>1, <2>1, RowsGrow DEF Request
<1>2. ASSUME NEW i \in Instances, Restart(i)
      PROVE  RegistryInv'
  <2>1. restarts' \in 0..MaxRestarts
    BY <1>2, Params DEF Restart, TypeOK
  <2>2. TypeOK'
    BY <1>2, <2>1 DEF Restart, TypeOK
  <2>3. \A y \in Callers : caller'[y] = caller[y] \/ caller'[y].at = "idle"
    BY <1>2 DEF Restart, NoCall
  <2>4. (\A y \in Callers : HandOK(y))' /\ ToldFromRow'
    BY <1>2, <2>3 DEF Restart, HandOK, ToldFromRow, AddressOn
  <2>5. QED
    BY <2>2, <2>4
<1>3. CASE UNCHANGED vars
  BY <1>3 DEF vars, TypeOK, HandOK, ToldFromRow, AddressOn
<1>4. QED
  BY <1>1, <1>2, <1>3, LoadStep, DeriveStep, PersistStep, ReloadStep, ResolveStep,
     FailStep DEF Next

LEMMA RegistryCorrect == Spec => []RegistryInv
  BY RegistryInit, RegistryStep, PTL DEF Spec

\* Whoever asks for an agent's wallet, from any instance, through races,
\* failed calls and restarts, is given the same owner, and the same address on
\* the same chain.  (agent_wallet/mod.rs:163-279, services/mod.rs:356-393)
THEOREM OneWalletCorrect == Spec => []OneWalletPerAgent
<1>1. RegistryInv => OneWalletPerAgent
  BY DEF RegistryInv, ToldFromRow, OneWalletPerAgent
<1>2. QED
  BY <1>1, RegistryCorrect, PTL
-----------------------------------------------------------------------------
LEMMA WriteOnceInit == Init => Registry!Init
  BY DEF Init, Registry!Init, NoWallet

\* Every step of the registry chooses the owner of one agent, tells one caller
\* what was chosen, or changes neither.
LEMMA WriteOnceStep ==
    RegistryInv /\ [Next]_vars
      => [Registry!Next]_<<[a \in Agents |-> rows[a].owner],
                           {<<s.agent, s.owner>> : s \in told}>>
<1> SUFFICES ASSUME RegistryInv, [Next]_vars
             PROVE  [Registry!Next]_<<[a \in Agents |-> rows[a].owner],
                                      {<<s.agent, s.owner>> : s \in told}>>
  OBVIOUS
<1> USE DEF RegistryInv
<1> DEFINE chosenNow == [a \in Agents |-> rows[a].owner]
           learnedNow == {<<s.agent, s.owner>> : s \in told}
<1>1. ASSUME rows' = rows, told' = told
      PROVE  UNCHANGED <<chosenNow, learnedNow>>
  BY <1>1
<1>2. ASSUME NEW a \in Agents, NEW w \in Wallet, rows' = Inserted(a, w), told' = told
      PROVE  UNCHANGED <<chosenNow, learnedNow>> \/ Registry!Choose(a, w.owner)
  <2>1. CASE rows[a] # NoWallet
    BY <1>2, <2>1 DEF Inserted
  <2>2. CASE rows[a] = NoWallet
    <3>1. rows' = [rows EXCEPT ![a] = w] /\ rows \in [Agents -> Wallet \cup {NoWallet}]
      BY <1>2, <2>2 DEF Inserted, TypeOK
    <3>2. chosenNow[a] = 0 /\ chosenNow' = [chosenNow EXCEPT ![a] = w.owner]
      <4>1. chosenNow[a] = 0
        BY <2>2 DEF NoWallet
      <4>2. \A b \in Agents : rows'[b].owner = IF b = a THEN w.owner ELSE rows[b].owner
        BY <3>1
      <4>3. chosenNow' = [b \in Agents |-> IF b = a THEN w.owner ELSE rows[b].owner]
        BY <4>2
      <4>4. QED
        BY <4>1, <4>3
    <3>3. learnedNow' = learnedNow
      BY <1>2
    <3>4. QED
      BY <3>2, <3>3 DEF Registry!Choose
  <2>3. QED
    BY <2>1, <2>2
<1>3. ASSUME NEW x \in Callers, Resolve(x), NEW a \in Agents, a = caller[x].agent
      PROVE  Registry!Learn(a)
  <2> DEFINE call == caller[x]
             answer == [agent |-> call.agent, chain |-> call.chain,
                        owner |-> call.wallet.owner,
                        address |-> AddressOn(call.chain, call.wallet)]
  <2>1. a = call.agent /\ rows[a] \in Wallet /\ call.wallet = rows[a]
    BY <1>3, CallerFields DEF Resolve, HandOK
  <2>2. chosenNow[a] = call.wallet.owner /\ call.wallet.owner # 0
    BY <2>1, Params DEF Wallet, Key
  <2>3. told' = told \cup {answer} /\ rows' = rows
    BY <1>3 DEF Resolve
  <2>4. answer.agent = a /\ answer.owner = call.wallet.owner
    BY <2>1
  <2> HIDE DEF answer
  <2>5. learnedNow' = learnedNow \cup {<<a, chosenNow[a]>>}
    BY <2>2, <2>3, <2>4
  <2>6. QED
    BY <2>1, <2>2, <2>3, <2>5 DEF Registry!Learn
<1>4. ASSUME NEW x \in Callers, Persist(x) \/ Fail(x)
      PROVE  \/ UNCHANGED <<chosenNow, learnedNow>>
             \/ Registry!Next
  <2>1. \/ rows' = rows /\ told' = told
        \/ /\ caller[x].at = "persist" /\ told' = told
           /\ rows' = Inserted(caller[x].agent, caller[x].wallet)
    BY <1>4 DEF Persist, Fail
  <2>2. caller[x].at = "persist" => /\ caller[x].agent \in Agents
                                    /\ caller[x].wallet \in Wallet
                                    /\ caller[x].wallet.owner \in Key
    BY CallerFields DEF HandOK, Wallet
  <2>3. QED
    BY <1>1, <1>2, <2>1, <2>2 DEF Registry!Next
<1>5. ASSUME NEW x \in Callers, Load(x) \/ Derive(x) \/ Reload(x)
      PROVE  rows' = rows /\ told' = told
  BY <1>5 DEF Load, Derive, Reload
<1>6. ASSUME \/ \E x \in Callers, a \in Agents, i \in Instances, c \in Chains :
                    Request(x, a, i, c)
             \/ \E i \in Instances : Restart(i)
             \/ UNCHANGED vars
      PROVE  rows' = rows /\ told' = told
  BY <1>6 DEF Request, Restart, vars
<1>7. ASSUME NEW x \in Callers, Resolve(x)
      PROVE  Registry!Next
  <2>1. caller[x].agent \in Agents
    BY <1>7, CallerFields DEF Resolve
  <2>2. QED
    BY <1>3, <1>7, <2>1 DEF Registry!Next
<1>8. Registry!Next \/ UNCHANGED <<chosenNow, learnedNow>>
  <2>1. CASE \E x \in Callers : Resolve(x)
    BY <1>7, <2>1
  <2>2. CASE \E x \in Callers : Persist(x) \/ Fail(x)
    BY <1>4, <2>2
  <2>3. CASE \E x \in Callers : Load(x) \/ Derive(x) \/ Reload(x)
    BY <1>1, <1>5, <2>3
  <2>4. CASE \/ \E x \in Callers, a \in Agents, i \in Instances, c \in Chains :
                      Request(x, a, i, c)
             \/ \E i \in Instances : Restart(i)
             \/ UNCHANGED vars
    BY <1>1, <1>6, <2>4
  <2>5. QED
    BY <2>1, <2>2, <2>3, <2>4 DEF Next
<1>9. QED
  BY <1>8

\* The registry implements the register of WriteOnce: one choice per agent,
\* and callers only learn that choice.  (agent_wallet/mod.rs:237-258)
THEOREM WriteOnceCorrect == Spec => ImplementsWriteOnce
  BY WriteOnceInit, WriteOnceStep, RegistryCorrect, PTL
     DEF Spec, ImplementsWriteOnce, Registry!Spec
=============================================================================
