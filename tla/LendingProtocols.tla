-------------------------- MODULE LendingProtocols --------------------------
(***************************************************************************)
(* The three lending adapters at work for one smart wallet: its concurrent *)
(* requests to one of them, with everything that can happen between what a *)
(* handler has read and the execution of what it compiled.  The protocols  *)
(* share no state; the one of a behaviour is chosen at the start.          *)
(***************************************************************************)
EXTENDS Integers, Sequences

CONSTANTS Handlers, MaxMoves, MaxRuns,
          AaveRequests, CompoundRequests, MorphoRequests,
          AaveChains, CompoundChains, MorphoChains          \* initial chains

VARIABLES protocol, chain, task, moves

Aave == INSTANCE AaveV3
Compound == INSTANCE CompoundV3
Morpho == INSTANCE MorphoBlue

OnAave == INSTANCE ProtocolActions WITH
    Protocol <- "aave", Requests <- AaveRequests, Valid <- Aave!Valid, Reads <- Aave!Reads, Read <- Aave!Read,
    Decide <- Aave!Decide, Call <- Aave!Call, Moves <- Aave!Moves
OnCompound == INSTANCE ProtocolActions WITH
    Protocol <- "compound", Requests <- CompoundRequests, Valid <- Compound!Valid, Reads <- Compound!Reads,
    Read <- Compound!Read, Decide <- Compound!Decide, Call <- Compound!Call,
    Moves <- Compound!Moves
OnMorpho == INSTANCE ProtocolActions WITH
    Protocol <- "morpho", Requests <- MorphoRequests, Valid <- Morpho!Valid, Reads <- Morpho!Reads,
    Read <- Morpho!Read, Decide <- Morpho!Decide, Call <- Morpho!Call, Moves <- Morpho!Moves

ASSUME MovesAssumption == MaxMoves \in Nat

ASSUME AaveAssumption ==
    /\ \A r \in AaveRequests : Aave!IsRequest(r)
    /\ AaveChains \subseteq Aave!States

ASSUME CompoundAssumption ==
    /\ \A r \in CompoundRequests : Compound!IsRequest(r)
    /\ CompoundChains \subseteq Compound!States

\* Morpho's tokens have no decimals here: a digit stands for those cut off.
ASSUME MorphoAssumption ==
    /\ \A r \in MorphoRequests :
         Morpho!IsRequest(r) /\ (r.amount.kind = "number" => Len(r.amount.digits) <= 1)
    /\ MorphoChains \subseteq Morpho!States

vars == <<protocol, chain, task, moves>>

Init ==
    /\ \/ protocol = "aave" /\ chain \in AaveChains
       \/ protocol = "compound" /\ chain \in CompoundChains
       \/ protocol = "morpho" /\ chain \in MorphoChains
    /\ task = [h \in Handlers |-> OnAave!Idle]
    /\ moves = 0

Next ==
    \/ OnAave!Next
    \/ OnCompound!Next
    \/ OnMorpho!Next

Spec == Init /\ [][Next]_vars

-----------------------------------------------------------------------------
(* Vocabulary of the properties. *)

Request(h) == task[h].req
IsMax(h) == Aave!IsMax(Request(h))
Fresh(h) == OnAave!Fresh(h)
\* In this step a batch of protocol p succeeds that h compiled for one of ops.
Did(h, p, ops) == protocol = p /\ OnAave!Asked(h, ops) /\ OnAave!Succeeded(h)
Answered(h, p, op) == protocol = p /\ OnAave!Asked(h, {op}) /\ task[h].stage = "answered"

\* Aave sums the base values of an owner's debts, each rounded down; the guard
\* rounds the new loan down on its own, which is at most one unit less.
AaveHealthy(c, min) ==
    Aave!CollateralBase(c, "wallet") * Aave!Threshold * Aave!Wad
      >= min * (Aave!DebtBase(c, "wallet") - 1) * Aave!Bps

(* Amounts stay in the range of their type: no batch spends what the      *)
(* wallet has not got, and no call carries the Err of an amount.           *)
TypeOK ==
    /\ protocol \in {"aave", "compound", "morpho"}
    /\ moves \in 0..MaxMoves
    /\ \A h \in Handlers :
         task[h].stage \in {"idle", "reading", "rejected", "answered", "simulated",
                            "queued", "mined", "reverted"}
    /\ \A x \in DOMAIN chain.balance :
         chain.balance[x] \in Nat /\ chain.allowance[x] \in 0..Aave!MaxUint
    /\ protocol = "morpho" => \A x \in DOMAIN chain.position : chain.position[x] \in Nat

(* After a borrow or a withdrawal of collateral that executes on the chain *)
(* its guard has read, the health of the wallet is at least the minimum    *)
(* the request asked for (guard_borrow_health, enforce_health_guard).      *)
GuardedActionsKeepHealth ==
    [][\A h \in Handlers :
         /\ Did(h, "aave", {"borrow"}) /\ Fresh(h) /\ Request(h).on_behalf_of = "wallet"
              => AaveHealthy(chain', Aave!MinHealthFactor(Request(h)))
         /\ Did(h, "morpho", Morpho!Guarded) /\ Fresh(h)
              => Morpho!HealthyAt(chain', Morpho!ParseMinHealthFactor(Request(h)))]_vars

(* "max" leaves nothing behind.  A Morpho repayment or withdrawal, which   *)
(* names shares, clears the position although interest has accrued since   *)
(* it was read; one that names an amount does so on the chain it has read, *)
(* as far as the balance reaches.  A Comet withdrawal of all the base      *)
(* supplied opens no debt unless another batch of the wallet came first.   *)
MaxLeavesNothing ==
    [][\A h \in Handlers : OnAave!Executed(h) /\ IsMax(h) =>
         LET r == Request(h)
             m == Compound!Market(r)
         IN /\ Did(h, "morpho", {"repay"}) /\ task[h].since # "wallet"
                 => chain'.position.borrowShares = 0
            /\ Did(h, "morpho", {"withdraw"}) /\ task[h].since # "wallet"
                 => chain'.position.supplyShares = 0
            /\ Did(h, "aave", {"repay"}) /\ Fresh(h)
                 => \/ chain'.balance[r.asset] = 0
                    \/ chain'.debt[r.on_behalf_of][Aave!Mode(r)][r.asset] = 0
            /\ Did(h, "aave", {"withdraw"}) => chain'.supplied["wallet"][r.asset] = 0
            /\ Did(h, "compound", {"repay"}) /\ Fresh(h)
                 => chain'.base[m] = Aave!Lesser(chain.base[m] + chain.balance[Compound!BaseToken[m]], 0)
            /\ Did(h, "compound", {"withdraw"}) /\ Compound!IsBaseAsset(r) /\ task[h].since # "wallet"
                 => chain'.base[m] >= 0]_vars

(* A batch uses up the allowance it opens.  Morpho's batches close it      *)
(* themselves, whatever was there before.  Aave leaves some only after a   *)
(* repayment of more than is owed by then, and Compound after one of the   *)
(* greatest number, which Comet takes for all that is owed.                *)
AllowancesAreUsedUp ==
    [][\A h \in Handlers : OnAave!Executed(h) /\ OnAave!Succeeded(h) =>
         LET r == Request(h)
         IN \A k \in {task[h].result[i] : i \in DOMAIN task[h].result} : k.fn = "approve" =>
               \/ chain'.allowance[k.token] = 0
               \/ /\ Did(h, "aave", {"repay"}) /\ ~(IsMax(h) /\ Fresh(h))
                  /\ k.amount > chain.debt[r.on_behalf_of][Aave!Mode(r)][r.asset]
               \/ /\ Did(h, "compound", {"supply", "repay"})
                  /\ Compound!IsBaseAsset(r) /\ k.amount = Aave!MaxUint]_vars

(* What is compiled from an explicit amount is that amount, in base units: *)
(* exactly for Aave and Compound, rounded down for Morpho (which takes a   *)
(* negative number for an amount next to the greatest one).                *)
CompiledAsAsked ==
    \A h \in Handlers :
        (task[h].stage = "queued" /\ ~IsMax(h)) =>
           LET r == Request(h)
               calls == task[h].result
               last == calls[Len(calls)]
           IN CASE protocol = "aave" -> last.amount = Aave!Meaning(r, Aave!Decimals[r.asset])
                [] protocol = "compound" ->
                     last.amount = Compound!Meaning(r, Compound!AmountDecimals(r))
                [] protocol = "morpho" -> r.amount.kind = "negative" \/
                     LET tenths == IF r.amount = Morpho!Absent THEN 10 * r.amount_raw.whole
                                   ELSE Morpho!Meaning(r, 1)
                         call == calls[IF Len(calls) = 1 THEN 1 ELSE 3]
                     IN call.shares = 0 /\ 10 * call.assets \in tenths - 9..tenths

(* What a position or capacity answer offers can be borrowed, all but the  *)
(* last unit, while the chain stays as it was read: the adapters compute   *)
(* what the protocols enforce.                                             *)
AnswersCanBeActedOn ==
    \A h \in Handlers : task[h].stage = "answered" /\ Fresh(h) =>
        LET a == task[h].result
        IN /\ Answered(h, "aave", "position") /\ a.available > 0
                => OnAave!Run(chain, <<Aave!PoolBorrow("USDC", a.available, 2, "wallet")>>) # {}
           /\ Answered(h, "compound", "borrow_capacity") /\ a.available > 0 /\ chain.base["usdc"] <= 0
                => OnCompound!Run(chain, <<Compound!CometWithdraw("usdc", "USDC", a.available - 1)>>) # {}
           /\ Answered(h, "morpho", "position") /\ a.available > 0
                => OnMorpho!Run(chain, <<Morpho!MorphoCall("borrow", a.available - 1, 0)>>) # {}
=============================================================================
