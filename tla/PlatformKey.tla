----------------------------- MODULE PlatformKey -----------------------------
(***************************************************************************)
(* Which key sponsors gas: at start-up (src/main.rs) every instance loads  *)
(* the paymaster signer from the platform_keys table or makes one, while   *)
(* other instances do the same.  A key is a number.                        *)
(***************************************************************************)
EXTENDS Naturals

CONSTANTS
    Processes,    \* platform processes that boot
    MaxGenerated  \* keys generated in one behaviour

VARIABLES
    signer,       \* platform_keys, purpose paymaster_signer; 0: no row
    boot,         \* boot[i]: the await instance i is at, and the key in hand
    generated,
    trusted       \* history: the keys instances sign with

vars == <<signer, boot, generated, trusted>>

Down == [at |-> "down", key |-> 0]

Init ==
    /\ signer = 0
    /\ boot = [i \in Processes |-> Down]
    /\ generated = 0
    /\ trusted = {}

Goto(i, at, key) == boot' = [boot EXCEPT ![i] = [at |-> at, key |-> key]]

\* get_platform_key, and a fresh key when there is no row.
LoadKey(i) ==
    /\ boot[i].at = "down"
    /\ IF signer # 0
       THEN Goto(i, "up", signer) /\ UNCHANGED generated
       ELSE /\ generated < MaxGenerated
            /\ Goto(i, "insert", generated + 1)
            /\ generated' = generated + 1
    /\ UNCHANGED <<signer, trusted>>

\* Mutant of InsertKey: the instance goes on with the key it generated.
InsertKeyKeepOwn(i) ==
    /\ boot[i].at = "insert"
    /\ signer' = IF signer = 0 THEN boot[i].key ELSE signer
    /\ Goto(i, "up", boot[i].key)
    /\ UNCHANGED <<generated, trusted>>

\* insert_platform_key, ON CONFLICT DO NOTHING RETURNING: no row comes back
\* when another instance was first.
InsertKey(i) ==
    /\ boot[i].at = "insert"
    /\ IF signer = 0
       THEN signer' = boot[i].key /\ Goto(i, "up", boot[i].key)
       ELSE signer' = signer /\ Goto(i, "reload", 0)
    /\ UNCHANGED <<generated, trusted>>

ReloadKey(i) ==
    /\ boot[i].at = "reload"
    /\ IF signer # 0 THEN Goto(i, "up", signer) ELSE Goto(i, "down", 0)
    /\ UNCHANGED <<signer, generated, trusted>>

\* PaymasterSigner::new: the instance is up and signs with its key.
Serve(i) ==
    /\ boot[i].at = "up"
    /\ trusted' = trusted \cup {boot[i].key}
    /\ UNCHANGED <<signer, boot, generated>>

\* A query fails, with or without effect, or the instance stops.
Stop(i) ==
    /\ boot[i].at # "down"
    /\ signer' \in {signer} \cup
                   IF boot[i].at = "insert" /\ signer = 0 THEN {boot[i].key} ELSE {}
    /\ Goto(i, "down", 0)
    /\ UNCHANGED <<generated, trusted>>

Next == \E i \in Processes : \/ LoadKey(i) \/ InsertKey(i) \/ ReloadKey(i)
                             \/ Serve(i) \/ Stop(i)

Spec == Init /\ [][Next]_vars
=============================================================================
