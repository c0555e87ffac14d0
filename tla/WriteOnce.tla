------------------------------ MODULE WriteOnce ------------------------------
(***************************************************************************)
(* A register per name that is written once, and what its readers learn.   *)
(* The platform keeps its keys this way: the wallet of an agent and the    *)
(* paymaster signer are made by whoever needs them first.                  *)
(***************************************************************************)
CONSTANTS Names, Values, NoValue

VARIABLES
    chosen,       \* chosen[n]: the value of n, or NoValue
    learned       \* the pairs <<n, v>> that readers were given

Init ==
    /\ chosen = [n \in Names |-> NoValue]
    /\ learned = {}

Choose(n, v) ==
    /\ chosen[n] = NoValue
    /\ chosen' = [chosen EXCEPT ![n] = v]
    /\ UNCHANGED learned

Learn(n) ==
    /\ chosen[n] # NoValue
    /\ learned' = learned \cup {<<n, chosen[n]>>}
    /\ UNCHANGED chosen

Next == \E n \in Names : Learn(n) \/ \E v \in Values : Choose(n, v)

Spec == Init /\ [][Next]_<<chosen, learned>>
=============================================================================
