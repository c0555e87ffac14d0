--------------------------- MODULE MCWalletRegistry ---------------------------
(* Small instances of WalletRegistry for TLC. *)
EXTENDS WalletRegistry

CONSTANTS agent1, agent2, proc1, proc2, ethereum, base

OwnFactories == [c \in Chains |-> c]
=============================================================================
