--------------------------- MODULE WalletRegistry ---------------------------
(***************************************************************************)
(* How an agent gets its smart wallet: get_or_create of                    *)
(* src/agent_wallet/mod.rs, called by every endpoint of several platform   *)
(* instances on one database, and resolve_chain_smart_wallet_address of    *)
(* src/api/services/mod.rs, which picks the address on a chain.            *)
(*                                                                         *)
(* An instance derives new addresses with the factory of the chain that    *)
(* its HashMap of chains happens to yield first, so the choice is made     *)
(* anew at each start.  An address is the pair of factory and owner it is  *)
(* derived from (CREATE2); a key is a number, its owner address the same.  *)
(***************************************************************************)
EXTENDS Naturals

CONSTANTS
    Agents,       \* namespaced ids, "{api_key_id}::{agent_id}"
    Instances,    \* platform processes
    Callers,      \* concurrent calls of get_or_create
    Chains,
    Ethereum,     \* the chain whose address is the stored one
    FactoryOf,    \* FactoryOf[c]: the SimpleAccountFactory configured for c
    MaxKeys,      \* signing keys generated in one behaviour
    MaxFaults,    \* database and RPC calls that fail in one behaviour
    MaxRestarts   \* instance restarts in one behaviour

ASSUME RegistryAssumption ==
    /\ Ethereum \in Chains
    /\ MaxKeys \in Nat /\ MaxFaults \in Nat /\ MaxRestarts \in Nat

VARIABLES
    rows,         \* agent_wallets: rows[a], or NoWallet
    first,        \* first[i]: the chain instance i derives addresses with
    caller,       \* caller[x]: the await a call is at, and what it has in hand
    told,         \* history: wallets and addresses given to callers
    keys,         \* history: keys generated so far
    faults,
    restarts

vars == <<rows, first, caller, told, keys, faults, restarts>>

Key == 1..MaxKeys

\* SimpleAccountFactory.getAddress(owner, 0).
Address(factory, owner) == <<factory, owner>>

Addresses == {Address(FactoryOf[c], k) : c \in Chains, k \in Key}

Wallet == [owner : Key, address : Addresses]

NoWallet == [owner |-> 0, address |-> <<>>]

NoCall == [at |-> "idle", agent |-> "none", instance |-> "none",
           chain |-> "none", wallet |-> NoWallet]

Call == [at : {"load", "derive", "persist", "reload", "resolve"},
         agent : Agents, instance : Instances, chain : Chains,
         wallet : Wallet \cup {NoWallet}]

TypeOK ==
    /\ rows \in [Agents -> Wallet \cup {NoWallet}]
    /\ first \in [Instances -> Chains]
    /\ caller \in [Callers -> Call \cup {NoCall}]
    /\ told \subseteq [agent : Agents, chain : Chains, owner : Key, address : Addresses]
    /\ keys \in 0..MaxKeys
    /\ faults \in 0..MaxFaults
    /\ restarts \in 0..MaxRestarts

Init ==
    /\ rows = [a \in Agents |-> NoWallet]
    /\ first \in [Instances -> Chains]
    /\ caller = [x \in Callers |-> NoCall]
    /\ told = {}
    /\ keys = 0
    /\ faults = 0
    /\ restarts = 0
-----------------------------------------------------------------------------
\* Call x goes on to another await with wallet w in hand.
Goto(x, next, w) == caller' = [caller EXCEPT ![x].at = next, ![x].wallet = w]

Return(x) == caller' = [caller EXCEPT ![x] = NoCall]

\* POST /execute, POST /simulate or GET /wallet for agent a on chain c.
Request(x, a, i, c) ==
    /\ caller[x] = NoCall
    /\ caller' = [caller EXCEPT ![x] = [at |-> "load", agent |-> a, instance |-> i,
                                        chain |-> c, wallet |-> NoWallet]]
    /\ UNCHANGED <<rows, first, told, keys, faults, restarts>>

\* SELECT: the wallet exists, or a key is generated for a new one.
Load(x) ==
    LET a == caller[x].agent
    IN  /\ caller[x].at = "load"
        /\ \/ /\ rows[a] # NoWallet
              /\ Goto(x, "resolve", rows[a])
              /\ UNCHANGED keys
           \/ /\ rows[a] = NoWallet
              /\ keys < MaxKeys
              /\ keys' = keys + 1
              /\ Goto(x, "derive", [owner |-> keys + 1,
                                    address |-> Address(FactoryOf[first[caller[x].instance]],
                                                        keys + 1)])
        /\ UNCHANGED <<rows, first, told, faults, restarts>>

\* The factory's view function answered the address of the new owner.
Derive(x) ==
    /\ caller[x].at = "derive"
    /\ Goto(x, "persist", caller[x].wallet)
    /\ UNCHANGED <<rows, first, told, keys, faults, restarts>>

\* Mutant of Inserted: ON CONFLICT DO UPDATE.
InsertedOver(a, w) == [rows EXCEPT ![a] = w]

\* INSERT ... ON CONFLICT (namespaced_id) DO NOTHING.
Inserted(a, w) == IF rows[a] = NoWallet THEN [rows EXCEPT ![a] = w] ELSE rows

Persist(x) ==
    /\ caller[x].at = "persist"
    /\ rows' = Inserted(caller[x].agent, caller[x].wallet)
    /\ Goto(x, "reload", caller[x].wallet)
    /\ UNCHANGED <<first, told, keys, faults, restarts>>

\* Mutant of Reload: the caller keeps the wallet it made.
ReloadKeepsOwn(x) ==
    /\ caller[x].at = "reload"
    /\ Goto(x, "resolve", caller[x].wallet)
    /\ UNCHANGED <<rows, first, told, keys, faults, restarts>>

\* SELECT again: whoever inserted first wins.
Reload(x) ==
    LET row == rows[caller[x].agent]
    IN  /\ caller[x].at = "reload"
        /\ Goto(x, "resolve", IF row # NoWallet THEN row ELSE caller[x].wallet)
        /\ UNCHANGED <<rows, first, told, keys, faults, restarts>>

\* resolve_chain_smart_wallet_address: the stored address on Ethereum, one
\* derived with the factory of the chain elsewhere.
AddressOn(c, w) ==
    IF c = Ethereum THEN w.address ELSE Address(FactoryOf[c], w.owner)

Resolve(x) ==
    LET call == caller[x]
    IN  /\ call.at = "resolve"
        /\ told' = told \cup {[agent |-> call.agent, chain |-> call.chain,
                               owner |-> call.wallet.owner,
                               address |-> AddressOn(call.chain, call.wallet)]}
        /\ Return(x)
        /\ UNCHANGED <<rows, first, keys, faults, restarts>>
-----------------------------------------------------------------------------
\* A database or RPC call fails, the INSERT executed or not: the request ends.
Fail(x) ==
    /\ caller[x] # NoCall
    /\ faults < MaxFaults
    /\ faults' = faults + 1
    /\ rows' \in IF caller[x].at = "persist"
                 THEN {rows, Inserted(caller[x].agent, caller[x].wallet)}
                 ELSE {rows}
    /\ Return(x)
    /\ UNCHANGED <<first, told, keys, restarts>>

\* An instance starts again; its calls are gone and its HashMap has a new
\* order.
Restart(i) ==
    /\ restarts < MaxRestarts
    /\ restarts' = restarts + 1
    /\ \E c \in Chains : first' = [first EXCEPT ![i] = c]
    /\ caller' = [x \in Callers |->
                     IF caller[x].instance = i THEN NoCall ELSE caller[x]]
    /\ UNCHANGED <<rows, told, keys, faults>>

Next ==
    \/ \E x \in Callers, a \in Agents, i \in Instances, c \in Chains : Request(x, a, i, c)
    \/ \E x \in Callers : \/ Load(x) \/ Derive(x) \/ Persist(x) \/ Reload(x)
                          \/ Resolve(x) \/ Fail(x)
    \/ \E i \in Instances : Restart(i)

Spec == Init /\ [][Next]_vars
-----------------------------------------------------------------------------
\* An agent that asks for its address on a chain, from any instance and before
\* or after any restart, is given one answer: what it funds is what it spends.
\* (agent_wallet/mod.rs:163-279, services/mod.rs:356-393)
OneWalletPerAgent ==
    \A s, t \in told :
        /\ s.agent = t.agent => s.owner = t.owner
        /\ s.agent = t.agent /\ s.chain = t.chain => s.address = t.address

\* The registry is a register per agent that is written once.
Registry == INSTANCE WriteOnce WITH
    Names <- Agents, Values <- Key, NoValue <- 0,
    chosen <- [a \in Agents |-> rows[a].owner],
    learned <- {<<s.agent, s.owner>> : s \in told}

\* Callers only learn what the database chose, and it chooses once per agent,
\* through races, failed calls and restarts.  (agent_wallet/mod.rs:237-258)
ImplementsWriteOnce == Registry!Spec
=============================================================================
