--------------------------- MODULE ServicesProofs ---------------------------
(***************************************************************************)
(* Proofs about the services around the pipeline: the paymaster key, the   *)
(* webhooks, the submission of UserOperations, the discovery of pools and  *)
(* the issuance of API keys.  Each part has an inductive invariant of its  *)
(* own over its own variables.                                             *)
(***************************************************************************)
EXTENDS Services, SequencesExt, SequenceTheorems, FiniteSetTheorems,
        WellFoundedInduction, TLAPS

\* Every non-empty set of naturals has a least element, which Min returns.
LEMMA MinIsLeast ==
    ASSUME NEW S, S \subseteq Nat, S # {}
    PROVE  Min(S) \in S /\ \A n \in S : Min(S) <= n
<1> DEFINE R == {pair \in Nat \X Nat : pair[1] < pair[2]}
<1>1. IsWellFoundedOn(R, Nat)
  BY NatLessThanWellFounded DEF OpToRel
<1>2. \E x \in S : \A y \in S : <<y, x>> \notin R
  <2> HIDE DEF R
  <2> QED BY <1>1, WFMin
<1>3. \E x \in S : \A y \in S : x <= y
  <2>1. PICK x \in S : \A y \in S : <<y, x>> \notin R
    BY <1>2
  <2>2. ASSUME NEW y \in S
        PROVE  x <= y
    <3>1. x \in Nat /\ y \in Nat
      OBVIOUS
    <3>2. y < x => <<y, x>> \in R
      BY <3>1
    <3>3. ~(y < x)
      BY <2>1, <3>2
    <3>4. QED
      BY <3>1, <3>3
  <2>3. QED
    BY <2>2
<1>4. QED
  BY <1>3 DEF Min

(* The parts share nothing: what a step of the services does to one part   *)
(* is a step of that part's own next-state relation or nothing.            *)
LEMMA PartStep ==
    [Next]_vars =>
        /\ Submission!Next \/ UNCHANGED submission
        /\ Discovery!Next \/ UNCHANGED discovery
        /\ Key!Next \/ UNCHANGED key
        /\ Issuance!Next \/ UNCHANGED issuance
        /\ Webhook!Next \/ UNCHANGED webhook
  BY DEF Next, vars, SubmissionStep, DiscoveryStep, KeyStep, IssuanceStep, WebhookStep

LEMMA PartInit ==
    Init => /\ Submission!Init /\ Discovery!Init /\ Key!Init
            /\ Issuance!Init /\ Webhook!Init
  BY DEF Init

LEMMA Params ==
    /\ {Half, Grace, Timeout, SubmissionTime} \subseteq Nat /\ Window \in Nat \ {0}
    /\ {PageSize, MaxPages} \subseteq Nat \ {0}
    /\ {MaxPools, TTL, HttpTimeout, DiscoveryTime} \subseteq Nat
    /\ MaxGenerated \in Nat
    /\ MaxEvents \in Nat
  BY ServicesAssumption DEF ServicesAssumption
-----------------------------------------------------------------------------
(* The paymaster key.                                                      *)

\* An instance that inserts holds a key generated before, one that is up the
\* key of the row.
InHand(i) ==
    /\ boot[i].at = "insert" => boot[i].key \in 1..generated
    /\ boot[i].at = "up" => boot[i].key = signer /\ signer # 0

KeyPlace == {"down", "insert", "reload", "up"}

KeyInv ==
    /\ signer \in Nat
    /\ generated \in 0..MaxGenerated
    /\ boot \in [Processes -> [at : KeyPlace, key : Nat]]
    /\ \A i \in Processes : InHand(i)

LEMMA KeyInit == Key!Init => KeyInv
<1> SUFFICES ASSUME Key!Init
             PROVE  KeyInv
  OBVIOUS
<1>1. boot \in [Processes -> [at : KeyPlace, key : Nat]] /\ \A i \in Processes : InHand(i)
  BY DEF Key!Init, Key!Down, KeyPlace, InHand
<1>2. signer \in Nat /\ generated \in 0..MaxGenerated
  BY Params DEF Key!Init
<1>3. QED
  BY <1>1, <1>2 DEF KeyInv

\* An instance goes on with a key of its own, or one that is the row's.
LEMMA KeyGoto ==
    ASSUME KeyInv, NEW i \in Processes, NEW at \in KeyPlace, NEW k \in Nat,
           Key!Goto(i, at, k),
           signer' \in Nat, signer # 0 => signer' = signer,
           generated' \in generated..MaxGenerated,
           at = "insert" => k \in 1..generated',
           at = "up" => k = signer' /\ signer' # 0
    PROVE  KeyInv'
<1>1. boot' \in [Processes -> [at : KeyPlace, key : Nat]]
  BY DEF KeyInv, Key!Goto
<1>2. boot'[i] = [at |-> at, key |-> k]
  BY DEF KeyInv, Key!Goto
<1>3. \A j \in Processes : j # i => boot'[j] = boot[j]
  BY DEF KeyInv, Key!Goto
<1>4. generated \in Nat /\ generated' \in 0..MaxGenerated /\ generated <= generated'
  BY Params DEF KeyInv
<1>5. ASSUME NEW j \in Processes
      PROVE  InHand(j)'
  <2>1. CASE j = i
    BY <1>2, <2>1 DEF InHand
  <2>2. CASE j # i
    <3>1. InHand(j) /\ boot'[j] = boot[j]
      BY <1>3, <2>2 DEF KeyInv
    <3>2. \A n : n \in 1..generated => n \in 1..generated'
      BY <1>4
    <3>3. QED
      BY <3>1, <3>2 DEF InHand
  <2>3. QED
    BY <2>1, <2>2
<1>6. QED
  BY <1>1, <1>4, <1>5 DEF KeyInv

LEMMA KeyStepInv == KeyInv /\ (Key!Next \/ UNCHANGED key) => KeyInv'
<1> SUFFICES ASSUME KeyInv, Key!Next \/ UNCHANGED key
             PROVE  KeyInv'
  OBVIOUS
<1>0. /\ signer \in Nat /\ generated \in Nat /\ generated \in generated..MaxGenerated
      /\ {"down", "insert", "reload", "up"} \subseteq KeyPlace
  BY Params DEF KeyInv, KeyPlace
<1>1. ASSUME NEW i \in Processes, Key!LoadKey(i)
      PROVE  KeyInv'
  <2>1. CASE signer # 0
    BY <1>0, <1>1, <2>1, KeyGoto DEF Key!LoadKey
  <2>2. CASE signer = 0
    <3>1. /\ generated' = generated + 1 /\ Key!Goto(i, "insert", generated')
          /\ signer' = signer /\ generated < MaxGenerated
      BY <1>1, <2>2 DEF Key!LoadKey
    <3>2. /\ generated' \in Nat /\ generated' \in 1..generated'
          /\ generated' \in generated..MaxGenerated
      BY <1>0, <3>1, Params
    <3>3. QED
      BY <1>0, <2>2, <3>1, <3>2, KeyGoto
  <2>3. QED
    BY <2>1, <2>2
<1>2. ASSUME NEW i \in Processes, Key!InsertKey(i)
      PROVE  KeyInv'
  <2>1. boot[i].key \in 1..generated
    BY <1>2 DEF Key!InsertKey, KeyInv, InHand
  <2>2. CASE signer = 0
    <3>1. /\ signer' = boot[i].key /\ Key!Goto(i, "up", signer')
          /\ generated' = generated
      BY <1>2, <2>2 DEF Key!InsertKey
    <3>2. signer' \in Nat /\ signer' # 0
      BY <2>1, <3>1
    <3>3. QED
      BY <1>0, <2>2, <3>1, <3>2, KeyGoto
  <2>3. CASE signer # 0
    BY <1>0, <1>2, <2>3, KeyGoto DEF Key!InsertKey
  <2>4. QED
    BY <2>2, <2>3
<1>3. ASSUME NEW i \in Processes, Key!ReloadKey(i)
      PROVE  KeyInv'
  BY <1>0, <1>3, KeyGoto DEF Key!ReloadKey
<1>4. ASSUME NEW i \in Processes, Key!Serve(i)
      PROVE  KeyInv'
  BY <1>4 DEF Key!Serve, KeyInv, InHand
<1>5. ASSUME NEW i \in Processes, Key!Stop(i)
      PROVE  KeyInv'
  <2>1. signer' = signer \/ (boot[i].at = "insert" /\ signer = 0 /\ signer' = boot[i].key)
    BY <1>5 DEF Key!Stop
  <2>2. signer' \in Nat /\ (signer # 0 => signer' = signer)
    BY <2>1 DEF KeyInv, InHand
  <2>3. Key!Goto(i, "down", 0) /\ generated' = generated
    BY <1>5 DEF Key!Stop
  <2>4. QED
    BY <1>0, <2>2, <2>3, KeyGoto
<1>6. CASE UNCHANGED key
  BY <1>6 DEF key, KeyInv, InHand
<1>7. QED
  BY <1>1, <1>2, <1>3, <1>4, <1>5, <1>6 DEF Key!Next

LEMMA KeyCorrect == Spec => []KeyInv
<1>1. Init => KeyInv
  BY PartInit, KeyInit
<1>2. KeyInv /\ [Next]_vars => KeyInv'
  BY PartStep, KeyStepInv
<1>3. QED
  BY <1>1, <1>2, PTL DEF Spec

\* Every step of the key's table chooses the key, tells one instance what was
\* chosen, or changes neither.
LEMMA RegisterStep ==
    KeyInv /\ (Key!Next \/ UNCHANGED key)
      => [Register!Next]_<<[n \in {"paymaster_signer"} |-> signer],
                           {<<"paymaster_signer", k>> : k \in trusted}>>
<1> SUFFICES ASSUME KeyInv, Key!Next \/ UNCHANGED key
             PROVE  Register!Next \/ UNCHANGED <<[n \in {"paymaster_signer"} |-> signer],
                           {<<"paymaster_signer", k>> : k \in trusted}>>
  OBVIOUS
<1>1. ASSUME signer' = signer, trusted' = trusted
      PROVE  UNCHANGED <<[n \in {"paymaster_signer"} |-> signer],
                           {<<"paymaster_signer", k>> : k \in trusted}>>
  BY <1>1
<1>2. ASSUME NEW i \in Processes, boot[i].at = "insert", signer = 0,
             signer' = boot[i].key, trusted' = trusted
      PROVE  Register!Next
  <2>1. signer' \in 1..MaxGenerated
    BY <1>2, Params DEF KeyInv, InHand
  <2>2. Register!Choose("paymaster_signer", signer')
    BY <1>2 DEF Register!Choose
  <2>3. QED
    BY <2>1, <2>2 DEF Register!Next
<1>3. ASSUME NEW i \in Processes, Key!Serve(i)
      PROVE  Register!Next
  <2>1. signer # 0 /\ trusted' = trusted \cup {signer} /\ signer' = signer
    BY <1>3 DEF Key!Serve, KeyInv, InHand
  <2>2. Register!Learn("paymaster_signer")
    BY <2>1 DEF Register!Learn
  <2>3. QED
    BY <2>2 DEF Register!Next
<1>4. ASSUME NEW i \in Processes, Key!InsertKey(i) \/ Key!Stop(i)
      PROVE  Register!Next \/ (signer' = signer /\ trusted' = trusted)
  BY <1>2, <1>4 DEF Key!InsertKey, Key!Stop
<1>5. ASSUME NEW i \in Processes, Key!LoadKey(i) \/ Key!ReloadKey(i)
      PROVE  signer' = signer /\ trusted' = trusted
  BY <1>5 DEF Key!LoadKey, Key!ReloadKey
<1>6. UNCHANGED key => (signer' = signer /\ trusted' = trusted)
  BY DEF key
<1>7. QED
  BY <1>1, <1>3, <1>4, <1>5, <1>6 DEF Key!Next

\* The platform keys implement the register of WriteOnce: one signer is ever
\* chosen, by any number of instances that boot, lose the race and boot again,
\* and each signs with that one.  (main.rs:308-352, db/mod.rs:250-284)
THEOREM KeyIsWrittenOnceCorrect == Spec => KeyIsWrittenOnce
<1>1. Init => Register!Init
  BY PartInit DEF Key!Init, Register!Init
<1>2. KeyInv /\ [Next]_vars
        => [Register!Next]_<<[n \in {"paymaster_signer"} |-> signer],
                           {<<"paymaster_signer", k>> : k \in trusted}>>
  BY PartStep, RegisterStep
<1>3. QED
  BY <1>1, <1>2, KeyCorrect, PTL DEF Spec, KeyIsWrittenOnce, Register!Spec
-----------------------------------------------------------------------------
(* Webhooks.                                                               *)

TaskPlace == {"unfired", "post", "backoff", "delivered", "exhausted", "lost"}

Task == [at : TaskPlace, tries : 0..MaxRetries, completed : Nat]

\* Between attempts there is one left, and no task ends without a reason.
Accounted(e) ==
    /\ task[e].at \in {"post", "backoff"} => task[e].tries < MaxRetries
    /\ task[e].at = "exhausted" => task[e].tries = MaxRetries
    /\ task[e].at = "delivered" => \E x \in received : x.event = e
    /\ task[e].at # "unfired" => task[e].completed <= clock

\* Events are fired in their order, at increasing times.
FiredInOrder(d, e) ==
    d < e /\ task[e].at # "unfired"
        => task[d].at # "unfired" /\ task[d].completed < task[e].completed

\* A copy is of one of the attempts made.
CopyOf(x) ==
    /\ x.event \in Webhook!Event
    /\ task[x.event].at # "unfired"
    /\ x.completed = task[x.event].completed
    /\ x.try \in 1..task[x.event].tries

WebhookInv ==
    /\ clock \in Nat
    /\ task \in [Webhook!Event -> Task]
    /\ received \subseteq [event : Webhook!Event, completed : Nat, try : Nat]
    /\ \A e \in Webhook!Event : Accounted(e)
    /\ \A d, e \in Webhook!Event : FiredInOrder(d, e)
    /\ \A x \in received : CopyOf(x)

LEMMA RetriesParam == MaxRetries \in Nat /\ MaxRetries # 0 /\ 0 \in 0..MaxRetries
  BY ServicesAssumption DEF ServicesAssumption

LEMMA EventIsNat == Webhook!Event \subseteq Nat
  BY Params DEF Webhook!Event

LEMMA WebhookInit == Webhook!Init => WebhookInv
<1> SUFFICES ASSUME Webhook!Init
             PROVE  WebhookInv
  OBVIOUS
<1>1. \A e \in Webhook!Event : task[e] = [at |-> "unfired", tries |-> 0, completed |-> 0]
  BY DEF Webhook!Init, Webhook!Unfired
<1>2. task \in [Webhook!Event -> Task]
  BY RetriesParam DEF Webhook!Init, Webhook!Unfired, Task, TaskPlace
<1>3. QED
  BY <1>1, <1>2 DEF WebhookInv, Webhook!Init, Accounted, FiredInOrder

\* One task changes and keeps its place in the order.
LEMMA TaskChanges ==
    ASSUME WebhookInv, NEW e \in Webhook!Event, NEW t \in Task,
           task' = [task EXCEPT ![e] = t],
           t.at # "unfired", task[e].at # "unfired", t.completed = task[e].completed,
           task[e].tries <= t.tries,
           clock' = clock, received \subseteq received',
           \A x \in received' \ received :
               x \in [event : {e}, completed : {t.completed}, try : 1..t.tries],
           t.at \in {"post", "backoff"} => t.tries < MaxRetries,
           t.at = "exhausted" => t.tries = MaxRetries,
           t.at = "delivered" => \E x \in received' : x.event = e
    PROVE  WebhookInv'
<1> USE DEF WebhookInv
<1>1. /\ task' \in [Webhook!Event -> Task] /\ task'[e] = t
      /\ \A d \in Webhook!Event : d # e => task'[d] = task[d]
  OBVIOUS
<1>2. t.completed \in Nat /\ t.tries \in Nat /\ task[e].tries \in Nat
  BY RetriesParam DEF Task
<1>3. received' \subseteq [event : Webhook!Event, completed : Nat, try : Nat]
  BY <1>2
<1>4. ASSUME NEW d \in Webhook!Event
      PROVE  Accounted(d)'
  BY <1>1 DEF Accounted
<1>5. ASSUME NEW c \in Webhook!Event, NEW d \in Webhook!Event
      PROVE  FiredInOrder(c, d)'
  BY <1>1 DEF FiredInOrder
<1>6. ASSUME NEW x \in received'
      PROVE  CopyOf(x)'
  <2>1. CASE x \in received
    <3>1. CopyOf(x)
      BY <2>1
    <3>2. CASE x.event = e
      <4>1. x.try \in 1..t.tries
        BY <3>1, <3>2, <1>2 DEF CopyOf
      <4>2. QED
        BY <3>1, <3>2, <4>1, <1>1 DEF CopyOf
    <3>3. CASE x.event # e
      BY <3>1, <3>3, <1>1 DEF CopyOf
    <3>4. QED
      BY <3>2, <3>3
  <2>2. CASE x \notin received
    BY <2>2, <1>1 DEF CopyOf
  <2>3. QED
    BY <2>1, <2>2
<1>7. QED
  BY <1>1, <1>3, <1>4, <1>5, <1>6

LEMMA WebhookStepInv == WebhookInv /\ (Webhook!Next \/ UNCHANGED webhook) => WebhookInv'
<1> SUFFICES ASSUME WebhookInv, Webhook!Next \/ UNCHANGED webhook
             PROVE  WebhookInv'
  OBVIOUS
<1>1. ASSUME NEW e \in Webhook!Event, Webhook!Fire(e)
      PROVE  WebhookInv'
  <2> DEFINE t == [at |-> "post", tries |-> 0, completed |-> clock + 1]
  <2>1. /\ clock \in Nat /\ clock' = clock + 1 /\ clock' \in Nat /\ received' = received
        /\ task[e].at = "unfired" /\ task' = [task EXCEPT ![e] = t]
        /\ \A d \in Webhook!Event : d < e => task[d].at # "unfired"
    BY <1>1 DEF Webhook!Fire, WebhookInv
  <2>2. t \in Task
    BY <2>1, RetriesParam DEF Task, TaskPlace
  <2>3. /\ task' \in [Webhook!Event -> Task] /\ task'[e] = t
        /\ \A d \in Webhook!Event : d # e => task'[d] = task[d]
    BY <2>1, <2>2 DEF WebhookInv
  <2>4. t.at = "post" /\ t.tries = 0 /\ t.completed = clock'
    BY <2>1
  <2> HIDE DEF t
  <2>5. ASSUME NEW d \in Webhook!Event
        PROVE  Accounted(d)'
    <3>1. CASE d = e
      BY <2>3, <2>4, <3>1, RetriesParam, <2>1 DEF Accounted
    <3>2. CASE d # e
      <4>1. task[d].completed \in Nat
        BY DEF WebhookInv, Task
      <4>2. task[d].completed <= clock => task[d].completed <= clock'
        BY <4>1, <2>1
      <4>3. QED
        BY <2>1, <2>3, <3>2, <4>2 DEF Accounted, WebhookInv
    <3>3. QED
      BY <3>1, <3>2
  <2>6. ASSUME NEW c \in Webhook!Event, NEW d \in Webhook!Event
        PROVE  FiredInOrder(c, d)'
    <3>1. FiredInOrder(c, d) /\ FiredInOrder(e, d)
      BY DEF WebhookInv
    <3>2. c \in Nat /\ d \in Nat /\ e \in Nat
      BY EventIsNat
    <3>3. task[c].at # "unfired" => task[c].completed < clock'
      <4>1. task[c].completed \in Nat /\ Accounted(c)
        BY DEF WebhookInv, Task
      <4>2. QED
        BY <4>1, <2>1 DEF Accounted
    <3>4. CASE d = e
      BY <2>1, <2>3, <2>4, <3>2, <3>3, <3>4 DEF FiredInOrder
    <3>5. CASE d # e /\ c = e
      BY <2>1, <2>3, <3>1, <3>5 DEF FiredInOrder
    <3>6. CASE d # e /\ c # e
      BY <2>3, <3>1, <3>6 DEF FiredInOrder
    <3>7. QED
      BY <3>4, <3>5, <3>6
  <2>7. ASSUME NEW x \in received
        PROVE  CopyOf(x)'
    <3>1. CopyOf(x) /\ x.event # e
      BY <2>1 DEF WebhookInv, CopyOf
    <3>2. QED
      BY <3>1, <2>3 DEF CopyOf
  <2>8. QED
    BY <2>1, <2>3, <2>5, <2>6, <2>7 DEF WebhookInv
<1>2. ASSUME NEW e \in Webhook!Event, Webhook!Again(e)
      PROVE  WebhookInv'
  <2> DEFINE t == [task[e] EXCEPT !.at = "post"]
  <2>1. /\ task[e] \in Task /\ task' = [task EXCEPT ![e] = t] /\ task[e].at = "backoff"
        /\ clock' = clock /\ received' = received
    BY <1>2 DEF Webhook!Again, WebhookInv
  <2>2. t \in Task /\ t.at = "post" /\ t.tries = task[e].tries
        /\ t.completed = task[e].completed
    BY <2>1 DEF Task, TaskPlace
  <2>3. task[e].tries \in Nat /\ task[e].tries < MaxRetries
    BY <2>1, RetriesParam DEF WebhookInv, Accounted, Task
  <2>4. task[e].tries <= t.tries /\ t.tries < MaxRetries
    BY <2>2, <2>3
  <2>5. task[e].at # "unfired" /\ t.at # "unfired" /\ t.at # "exhausted" /\ t.at # "delivered"
    BY <2>1, <2>2
  <2>6. received \subseteq received' /\ received' \ received = {}
    BY <2>1
  <2> HIDE DEF t
  <2>7. QED
    BY <2>1, <2>2, <2>4, <2>5, <2>6, TaskChanges
<1>3. ASSUME NEW e \in Webhook!Event, NEW arrives \in BOOLEAN, NEW accepted \in BOOLEAN,
             Webhook!Post(e, arrives, accepted)
      PROVE  WebhookInv'
  <2> DEFINE place == IF accepted THEN "delivered"
                      ELSE IF Webhook!HasTriesLeft(e) THEN "backoff" ELSE "exhausted"
             t == [task[e] EXCEPT !.tries = @ + 1, !.at = place]
             copy == [event |-> e, completed |-> task[e].completed, try |-> task[e].tries + 1]
  <2>1. /\ task[e] \in Task /\ task[e].at = "post" /\ clock' = clock
        /\ task' = [task EXCEPT ![e] = t]
        /\ received' = IF arrives THEN received \cup {copy} ELSE received
        /\ accepted => arrives
    BY <1>3 DEF Webhook!Post, WebhookInv
  <2>2. task[e].tries \in Nat /\ task[e].tries < MaxRetries
    BY <2>1, RetriesParam DEF WebhookInv, Accounted, Task
  <2>3. task[e].tries + 1 \in 0..MaxRetries /\ task[e].tries + 1 \in 1..(task[e].tries + 1)
    BY <2>2, RetriesParam
  <2>4. place \in TaskPlace
    BY DEF TaskPlace
  <2>5. /\ place = "backoff" => task[e].tries + 1 < MaxRetries
        /\ place = "exhausted" => task[e].tries + 1 = MaxRetries
        /\ place = "delivered" => arrives
        /\ place \notin {"post", "unfired"}
    BY <2>1, <2>2, RetriesParam DEF Webhook!HasTriesLeft
  <2> HIDE DEF place
  <2>6. /\ t \in Task /\ t.at = place /\ t.tries = task[e].tries + 1
        /\ t.completed = task[e].completed
    BY <2>1, <2>3, <2>4 DEF Task
  <2>7. copy.event = e /\ copy \in [event : {e}, completed : {t.completed}, try : 1..t.tries]
    BY <2>3, <2>6
  <2>8. task[e].tries <= t.tries
    BY <2>2, <2>6
  <2> HIDE DEF t, copy
  <2>9. /\ received \subseteq received' /\ \A x \in received' \ received : x = copy
        /\ place = "delivered" => copy \in received'
    BY <2>1, <2>5
  <2>10. /\ t.at \in {"post", "backoff"} => t.tries < MaxRetries
         /\ t.at = "exhausted" => t.tries = MaxRetries
         /\ t.at = "delivered" => \E x \in received' : x.event = e
         /\ t.at # "unfired" /\ task[e].at # "unfired"
    BY <2>1, <2>5, <2>6, <2>7, <2>9
  <2>11. \A x \in received' \ received :
            x \in [event : {e}, completed : {t.completed}, try : 1..t.tries]
    BY <2>7, <2>9
  <2>12. QED
    BY <2>1, <2>6, <2>8, <2>9, <2>10, <2>11, TaskChanges
<1>4. ASSUME Webhook!ProcessStops
      PROVE  WebhookInv'
  <2>1. /\ clock' = clock /\ received' = received
        /\ task' = [e \in Webhook!Event |->
                      IF task[e].at \in {"post", "backoff"}
                      THEN [task[e] EXCEPT !.at = "lost"] ELSE task[e]]
    BY <1>4 DEF Webhook!ProcessStops
  <2>2. ASSUME NEW e \in Webhook!Event
        PROVE  /\ task'[e] \in Task /\ task'[e].tries = task[e].tries
               /\ task'[e].completed = task[e].completed
               /\ task'[e].at = task[e].at
                  \/ (task'[e].at = "lost" /\ task[e].at \in {"post", "backoff"})
    <3>1. task[e] \in Task
      BY DEF WebhookInv
    <3>2. QED
      BY <2>1, <3>1 DEF Task, TaskPlace
  <2>3. task' \in [Webhook!Event -> Task]
    BY <2>1, <2>2
  <2>4. \A e \in Webhook!Event : Accounted(e)'
    BY <2>1, <2>2 DEF WebhookInv, Accounted
  <2>5. \A d, e \in Webhook!Event : FiredInOrder(d, e)'
    BY <2>2 DEF WebhookInv, FiredInOrder
  <2>6. \A x \in received : CopyOf(x)'
    BY <2>2 DEF WebhookInv, CopyOf
  <2>7. QED
    BY <2>1, <2>3, <2>4, <2>5, <2>6 DEF WebhookInv
<1>5. CASE UNCHANGED webhook
  BY <1>5 DEF webhook, WebhookInv, Accounted, FiredInOrder, CopyOf
<1>6. QED
  BY <1>1, <1>2, <1>3, <1>4, <1>5 DEF Webhook!Next

LEMMA WebhookCorrect == Spec => []WebhookInv
<1>1. Init => WebhookInv
  BY PartInit, WebhookInit
<1>2. WebhookInv /\ [Next]_vars => WebhookInv'
  BY PartStep, WebhookStepInv
<1>3. QED
  BY <1>1, <1>2, PTL DEF Spec

\* However many events, retries and stops of the process there are: an event
\* arrives at most MAX_RETRIES times, is only given up after as many attempts,
\* and the copies at the endpoint can be put into the order of the outcomes.
\* (webhook/mod.rs:96, worker/mod.rs:739-777)
THEOREM EventsAreAccountedCorrect == Spec => []EventsAreAccounted
<1>1. WebhookInv => EventsAreAccounted
  <2> SUFFICES ASSUME WebhookInv
               PROVE  EventsAreAccounted
    OBVIOUS
  <2>1. ASSUME NEW e \in Webhook!Event
        PROVE  Cardinality({x \in received : x.event = e}) <= MaxRetries
    <3> DEFINE copies == {x \in received : x.event = e}
               f == [x \in copies |-> x.try]
    <3>1. ASSUME NEW x \in copies
          PROVE  x.try \in 1..MaxRetries
      <4>1. task[e].tries \in 0..MaxRetries /\ x.try \in 1..task[e].tries
        BY DEF WebhookInv, CopyOf, Task
      <4>2. QED
        BY <4>1, RetriesParam
    <3>2. ASSUME NEW x \in copies, NEW y \in copies, x.try = y.try
          PROVE  x = y
      <4>1. x.event = y.event /\ x.completed = y.completed
        BY DEF WebhookInv, CopyOf
      <4>2. x \in [event : Webhook!Event, completed : Nat, try : Nat]
            /\ y \in [event : Webhook!Event, completed : Nat, try : Nat]
        BY DEF WebhookInv
      <4>3. QED
        BY <3>2, <4>1, <4>2
    <3> HIDE DEF copies
    <3>3. f \in Injection(copies, 1..MaxRetries)
      BY <3>1, <3>2 DEF Injection, IsInjective
    <3>4. IsFiniteSet(1..MaxRetries) /\ Cardinality(1..MaxRetries) = MaxRetries
      BY RetriesParam, FS_Interval
    <3>5. Cardinality(copies) <= MaxRetries
      <4> HIDE DEF f
      <4>1. Cardinality(copies) <= Cardinality(1..MaxRetries)
        BY <3>3, <3>4, FS_Injection
      <4>2. QED
        BY <3>4, <4>1
    <3>6. QED
      BY <3>5 DEF copies
  <2>2. ASSUME NEW x \in received, NEW y \in received
        PROVE  x.event < y.event <=> x.completed < y.completed
    <3>1. /\ x.event \in Nat /\ y.event \in Nat
          /\ task[x.event].completed \in Nat /\ task[y.event].completed \in Nat
          /\ x.completed = task[x.event].completed /\ y.completed = task[y.event].completed
          /\ FiredInOrder(x.event, y.event) /\ FiredInOrder(y.event, x.event)
          /\ task[x.event].at # "unfired" /\ task[y.event].at # "unfired"
      BY EventIsNat DEF WebhookInv, CopyOf, Task
    <3>2. QED
      BY <3>1 DEF FiredInOrder
  <2>3. \A e \in Webhook!Event : Accounted(e)
    BY DEF WebhookInv
  <2>4. QED
    BY <2>1, <2>2, <2>3 DEF EventsAreAccounted, Accounted
<1>2. QED
  BY <1>1, WebhookCorrect, PTL

-----------------------------------------------------------------------------
(* Submission.                                                             *)

IsOp(op) ==
    op = [calls |-> op.calls, nonce |-> op.nonce, init |-> op.init, limits |-> op.limits,
          pvg |-> op.pvg, fees |-> op.fees, paymaster |-> op.paymaster,
          signature |-> op.signature]

IsAttempt(t) ==
    t = [at |-> t.at, draft |-> t.draft, op |-> t.op, answer |-> t.answer, sent |-> t.sent,
         since |-> t.since, asked |-> t.asked, result |-> t.result]

\* The paymaster and the owner signed op as it is, at time n.
SignedAt(op, n) ==
    LET after == IF n > Grace THEN n - Grace ELSE 0
    IN /\ op.paymaster = [until |-> n + Window, after |-> after,
                          signed |-> Submission!PaymasterHash(op, n + Window, after)]
       /\ op.signature = Submission!OpHash(op)

SamePayload(op, other) ==
    /\ op.calls = other.calls /\ op.nonce = other.nonce /\ op.init = other.init
    /\ op.limits = other.limits /\ op.pvg = other.pvg /\ op.fees = other.fees

Prepared(t) == t.at \in {"sign", "send", "wait"}

\* Init code fits the nonce unless the nonce was spent meanwhile.
Drafted(t) ==
    /\ t.op.nonce \in 0..nonce
    /\ t.at \in {"estimate", "sign", "send"} /\ t.op.nonce = nonce => t.op.init = ~deployed

\* Gas fields and fees are those of the bundler's answer.
Estimated(t) ==
    Prepared(t) =>
        /\ t.answer.estimate \in Estimates /\ t.answer.prices \in Prices
        /\ t.op.limits = Submission!PackTwo(t.answer.estimate.verification,
                                            t.answer.estimate.call)
        /\ t.op.fees = Submission!PackTwo(Submission!GasPrices(t.answer.prices).priority,
                                          Submission!GasPrices(t.answer.prices).max)
        /\ t.op.pvg \in Nat /\ t.answer.estimate.pvg <= t.op.pvg

\* What was sent was signed by then, for one nonce; nothing is sent before it
\* is drafted, and what is waited for was sent.
SentWell(t) ==
    /\ t.since \in 0..submissionNow
    /\ \A op \in t.sent : IsOp(op) /\ op.nonce \in 0..nonce /\ \E n \in 0..t.since : SignedAt(op, n)
    /\ \A op, other \in t.sent : op.nonce = other.nonce
    /\ t.at \in {"nonce", "code", "estimate"} => t.sent = {}
    /\ Prepared(t) => \A op \in t.sent : op.nonce = t.op.nonce
    /\ t.at = "send" => \E n \in 0..submissionNow : SignedAt(t.op, n)
    /\ t.at = "wait" => t.op \in t.sent

\* The second submission meets the minimum that the first did not.
AskedFor(t) ==
    t.asked # Submission!NoData =>
        /\ t.at \notin {"nonce", "code", "estimate"}
        /\ Prepared(t) =>
             /\ t.asked[1] \in Nat /\ t.asked[1] <= t.op.pvg
             /\ \A first \in t.sent \ (IF t.at = "wait" THEN {t.op} ELSE {}) :
                  first.pvg < t.asked[1]

Reported(t) ==
    t.result \in {"succeeded", "reverted"} =>
        \E r \in receipts, op \in t.sent :
            /\ r.hash = Submission!OpHash(op)
            /\ r.success = (t.result = "succeeded")

AttemptPlace == {"nonce", "code", "estimate", "sign", "send", "wait", "ended"}

AttemptOK(t) ==
    /\ IsAttempt(t) /\ IsOp(t.op) /\ t.at \in AttemptPlace
    /\ Drafted(t) /\ Estimated(t) /\ SentWell(t) /\ AskedFor(t) /\ Reported(t)

\* One receipt per nonce that was spent.
ReceiptsOK ==
    /\ \A r \in receipts : r.success \in BOOLEAN /\ r.hash.nonce \in Nat /\ r.hash.nonce < nonce
    /\ \A r, s \in receipts : r.hash.nonce = s.hash.nonce => r = s

SubmissionInv ==
    /\ nonce \in Nat /\ submissionNow \in Nat
    /\ \A op \in mempool : IsOp(op)
    /\ ReceiptsOK
    /\ attempt = [a \in Attempts |-> attempt[a]]
    /\ \A a \in Attempts : AttemptOK(attempt[a])

LEMMA Widths ==
    /\ Grace \in Nat /\ Window \in Nat /\ Window # 0
    /\ 2 ^ Half \in Nat /\ 2 ^ Half # 0 /\ 2 ^ (2 * Half) \in Nat /\ 2 ^ Half <= 2 ^ (2 * Half)
    /\ Submission!MaxUint = 2 ^ (2 * Half) - 1 /\ Submission!MaxUint \in Nat
<1>1. Grace \in Nat /\ Window \in Nat /\ Window # 0
  BY ServicesAssumption DEF ServicesAssumption
<1> DEFINE half == 2 ^ Half
           full == 2 ^ (2 * Half)
<1>2. half \in Nat /\ half # 0 /\ full \in Nat /\ half <= full
  BY WidthsAssumption DEF WidthsAssumption
<1> HIDE DEF half, full
<1>3. full - 1 \in Nat
  BY <1>2
<1>4. Submission!MaxUint = full - 1
  BY DEF Submission!MaxUint, full
<1>5. QED
  BY <1>1, <1>2, <1>3, <1>4 DEF half, full

LEMMA MinOfTwo ==
    ASSUME NEW x \in Nat, NEW y \in Nat
    PROVE  Submission!Min({x, y}) = IF x <= y THEN x ELSE y
  BY DEF Submission!Min

LEMMA MaxOfTwo ==
    ASSUME NEW x \in Nat, NEW y \in Nat
    PROVE  Submission!Max({x, y}) = IF x <= y THEN y ELSE x
  BY DEF Submission!Max

LEMMA SatAddBound ==
    ASSUME NEW x \in Nat, NEW y \in Nat
    PROVE  /\ Submission!SatAdd(x, y) \in Nat
           /\ x <= Submission!MaxUint => x <= Submission!SatAdd(x, y)
           /\ x + y <= Submission!MaxUint => Submission!SatAdd(x, y) = x + y
           /\ Submission!SatAdd(x, y) <= Submission!MaxUint
<1>1. x + y \in Nat /\ Submission!MaxUint \in Nat
  BY Widths
<1>2. Submission!SatAdd(x, y) = IF x + y <= Submission!MaxUint THEN x + y ELSE Submission!MaxUint
  BY <1>1, MinOfTwo DEF Submission!SatAdd
<1>3. QED
  BY <1>1, <1>2

\* The buffer never takes away from the minimum that was asked for.
LEMMA BufferedMeetsMinimum ==
    ASSUME NEW m \in 0..Submission!MaxUint
    PROVE  Submission!Buffered(m) \in Nat /\ m <= Submission!Buffered(m)
<1>1. m \in Nat /\ m <= Submission!MaxUint /\ m \div 10 \in Nat
  BY Widths
<1> DEFINE some == Submission!SatAdd(m, m \div 10)
<1>2. some \in Nat /\ m <= some /\ some <= Submission!MaxUint
  BY <1>1, SatAddBound
<1> HIDE DEF some
<1>3. /\ Submission!SatAdd(some, 2) \in Nat /\ some <= Submission!SatAdd(some, 2)
  BY <1>2, SatAddBound
<1>4. Submission!Buffered(m) = Submission!SatAdd(some, 2)
  BY DEF Submission!Buffered, some
<1>5. QED
  BY <1>1, <1>2, <1>3, <1>4

LEMMA RequiredIsNumber ==
    ASSUME NEW text \in Rejections, Submission!Required(text) # Submission!NoData
    PROVE  Submission!Required(text)[1] \in 0..Submission!MaxUint
<1> DEFINE numbers == text.numbers
<1>1. /\ numbers \in Seq(0..Submission!MaxUint) /\ text.before \in Nat
  BY WidthsAssumption, Widths DEF WidthsAssumption
<1>2. numbers # <<>>
  BY DEF Submission!Required, Submission!NoData
<1> HIDE DEF numbers
<1>3. Len(numbers) \in Nat /\ Len(numbers) # 0
  BY <1>1, <1>2
<1>4. \A i \in 1..Len(numbers) : numbers[i] \in 0..Submission!MaxUint
  <2> DEFINE U == 0..Submission!MaxUint
  <2> HIDE DEF U
  <2>1. numbers \in Seq(U)
    BY <1>1 DEF U
  <2>2. \A i \in 1..Len(numbers) : numbers[i] \in U
    BY <2>1
  <2>3. QED
    BY <2>2 DEF U
<1>5. Submission!Required(text)[1]
        = IF text.before < Len(numbers) THEN numbers[text.before + 1] ELSE numbers[Len(numbers)]
  BY DEF Submission!Required, Submission!NoData, numbers
<1>6. QED
  BY <1>1, <1>3, <1>4, <1>5

\* sign_user_operation_for_submission changes nothing but the two signatures,
\* and they are of the operation it returns.
LEMMA SignsAsItIs ==
    ASSUME NEW op, IsOp(op), submissionNow \in Nat
    PROVE  /\ IsOp(Submission!ApplySignatures(op))
           /\ SamePayload(Submission!ApplySignatures(op), op)
           /\ SignedAt(Submission!ApplySignatures(op), submissionNow)
<1> DEFINE s == Submission!ApplySignatures(op)
           pm == Submission!SignPaymaster(op)
           sponsored == [op EXCEPT !.paymaster = pm]
<1>1. sponsored = [calls |-> op.calls, nonce |-> op.nonce, init |-> op.init,
                   limits |-> op.limits, pvg |-> op.pvg, fees |-> op.fees,
                   paymaster |-> pm, signature |-> op.signature]
  BY DEF IsOp
<1>2. s = [sponsored EXCEPT !.signature = Submission!OpHash(sponsored)]
  BY DEF Submission!ApplySignatures
<1> HIDE DEF s, pm, sponsored
<1>3. s = [calls |-> op.calls, nonce |-> op.nonce, init |-> op.init,
           limits |-> op.limits, pvg |-> op.pvg, fees |-> op.fees,
           paymaster |-> pm, signature |-> Submission!OpHash(sponsored)]
  BY <1>1, <1>2
<1>4. IsOp(s) /\ SamePayload(s, op) /\ s.paymaster = pm
      /\ s.signature = Submission!OpHash(sponsored)
  BY <1>3 DEF IsOp, SamePayload
<1>5. Submission!OpHash(s) = Submission!OpHash(sponsored)
  BY <1>1, <1>3 DEF Submission!OpHash
<1>6. \A u, v : Submission!PaymasterHash(s, u, v) = Submission!PaymasterHash(op, u, v)
  BY <1>4 DEF SamePayload, Submission!PaymasterHash
<1>7. SignedAt(s, submissionNow)
  BY <1>4, <1>5, <1>6 DEF SignedAt, pm, Submission!SignPaymaster
<1>8. QED
  BY <1>4, <1>7 DEF s

\* The hash of an operation names its nonce and its paymaster data.
LEMMA HashKeeps ==
    ASSUME NEW op, IsOp(op)
    PROVE  /\ Submission!OpHash(op).nonce = op.nonce
           /\ Submission!OpHash(op).paymaster = op.paymaster
<1>1. Submission!OpHash(op)
        = [calls |-> op.calls, nonce |-> op.nonce, init |-> op.init,
           limits |-> op.limits, pvg |-> op.pvg, fees |-> op.fees,
           paymaster |-> op.paymaster, signature |-> Submission!NoData]
  BY DEF IsOp, Submission!OpHash
<1>2. QED
  BY <1>1


LEMMA SubmissionInit == Submission!Init => SubmissionInv
<1> SUFFICES ASSUME Submission!Init
             PROVE  SubmissionInv
  OBVIOUS
<1>1. /\ attempt = [a \in Attempts |-> Submission!NoAttempt] /\ nonce = 0
      /\ deployed = FALSE /\ mempool = {} /\ receipts = {} /\ submissionNow = 0
  BY DEF Submission!Init
<1> DEFINE t == Submission!NoAttempt
<1>2. /\ t.at = "nonce" /\ t.op = Submission!Blank /\ t.sent = {} /\ t.since = 0
      /\ t.result = "none" /\ IsAttempt(t)
  BY DEF Submission!NoAttempt, IsAttempt
<1>3. IsOp(Submission!Blank) /\ Submission!Blank.nonce = 0
  BY DEF Submission!Blank, IsOp
<1> HIDE DEF t
<1>4. Drafted(t) /\ Estimated(t)
  BY <1>1, <1>2, <1>3 DEF Drafted, Estimated, Prepared
<1>5. SentWell(t) /\ Reported(t)
  BY <1>1, <1>2 DEF SentWell, Prepared, Reported
<1>6. AskedFor(t)
  BY DEF AskedFor, t, Submission!NoAttempt
<1>7. AttemptOK(t)
  BY <1>2, <1>3, <1>4, <1>5, <1>6 DEF AttemptOK, AttemptPlace
<1>8. QED
  BY <1>1, <1>7 DEF SubmissionInv, ReceiptsOK, t

\* An attempt goes on while the chain stays as it is.
LEMMA AttemptGoesOn ==
    ASSUME SubmissionInv, NEW a \in Attempts, NEW t, AttemptOK(t),
           attempt' = [attempt EXCEPT ![a] = t],
           UNCHANGED <<nonce, deployed, receipts, submissionNow>>,
           \A op \in mempool' \ mempool : IsOp(op)
    PROVE  SubmissionInv'
<1>1. /\ attempt' = [b \in Attempts |-> IF b = a THEN t ELSE attempt[b]]
  BY DEF SubmissionInv
<1>2. \A b \in Attempts : attempt'[b] = t \/ attempt'[b] = attempt[b]
  BY <1>1
<1>3. ASSUME NEW u, AttemptOK(u)
      PROVE  AttemptOK(u)'
  BY <1>3 DEF AttemptOK, Drafted, Estimated, SentWell, AskedFor, Reported
<1>4. \A b \in Attempts : AttemptOK(attempt[b])'
  BY <1>2, <1>3 DEF SubmissionInv
<1>5. attempt' = [b \in Attempts |-> attempt'[b]]
  BY <1>1, Zenon
<1>6. ReceiptsOK'
  BY DEF SubmissionInv, ReceiptsOK
<1>7. QED
  BY <1>1, <1>4, <1>5, <1>6 DEF SubmissionInv

\* What is left of an attempt that ends is history.
LEMMA EndedWell ==
    ASSUME NEW t, NEW u, AttemptOK(t), nonce \in Nat, submissionNow \in Nat,
           u = [t EXCEPT !.at = "ended", !.result = u.result, !.op = Submission!Blank,
                         !.draft = 0, !.answer = Submission!NoData,
                         !.asked = Submission!NoData, !.sent = u.sent, !.since = u.since],
           u.since \in t.since..submissionNow, t.sent \subseteq u.sent,
           \A op \in u.sent \ t.sent : /\ IsOp(op) /\ op = t.op /\ Prepared(t)
                                       /\ \E n \in 0..u.since : SignedAt(op, n),
           Reported(u)
    PROVE  AttemptOK(u)
<1>1. /\ IsAttempt(u) /\ u.at = "ended" /\ u.op = Submission!Blank
  BY DEF AttemptOK, IsAttempt
<1>2. IsOp(u.op) /\ u.op.nonce = 0
  BY <1>1 DEF Submission!Blank, IsOp
<1>3. Drafted(u) /\ Estimated(u) /\ AskedFor(u)
  BY <1>1, <1>2 DEF Drafted, Estimated, AskedFor, Prepared
<1>4. SentWell(u)
  <2>1. u.since \in 0..submissionNow /\ \A n \in 0..t.since : n \in 0..u.since
    BY DEF AttemptOK, SentWell
  <2>2. \A op \in u.sent : op \in t.sent \/ (op = t.op /\ Prepared(t))
    OBVIOUS
  <2>3. \A op \in u.sent : IsOp(op) /\ op.nonce \in 0..nonce /\ \E n \in 0..u.since : SignedAt(op, n)
    BY <2>1, <2>2 DEF AttemptOK, SentWell, Drafted
  <2>4. \A op, other \in u.sent : op.nonce = other.nonce
    BY <2>2 DEF AttemptOK, SentWell
  <2>5. QED
    BY <1>1, <2>1, <2>3, <2>4 DEF SentWell, Prepared
<1>5. QED
  BY <1>1, <1>2, <1>3, <1>4 DEF AttemptOK, AttemptPlace

LEMMA AttemptFacts ==
    ASSUME SubmissionInv, NEW a \in Attempts
    PROVE  /\ AttemptOK(attempt[a]) /\ nonce \in Nat /\ submissionNow \in Nat
           /\ attempt[a].since \in 0..submissionNow
  BY DEF SubmissionInv, AttemptOK, SentWell

LEMMA ReadNonceStep ==
    ASSUME SubmissionInv, NEW a \in Attempts, Submission!ReadNonce(a)
    PROVE  SubmissionInv'
<1> DEFINE t == attempt[a]
<1>1. AttemptOK(t) /\ nonce \in Nat /\ nonce \in 0..nonce
  BY AttemptFacts
<1>2. PICK u : /\ u = [t EXCEPT !.at = "code", !.op.calls = a, !.op.nonce = nonce]
               /\ attempt' = [attempt EXCEPT ![a] = u]
  BY DEF Submission!ReadNonce, Submission!Update
<1>3. /\ t.at = "nonce"
      /\ UNCHANGED <<nonce, deployed, mempool, receipts, submissionNow>>
  BY DEF Submission!ReadNonce, Submission!Worker
<1> HIDE DEF t
<1>4. /\ IsAttempt(u) /\ u.at = "code" /\ u.sent = t.sent /\ u.since = t.since
      /\ u.result = t.result /\ u.op = [t.op EXCEPT !.calls = a, !.nonce = nonce]
      /\ u.asked = t.asked
  BY <1>1, <1>2 DEF AttemptOK, IsAttempt
<1>5. IsOp(u.op) /\ u.op.nonce = nonce
  BY <1>1, <1>4 DEF AttemptOK, IsOp
<1>6. AttemptOK(u)
  BY <1>1, <1>3, <1>4, <1>5 DEF AttemptOK, AttemptPlace, Drafted, Estimated, Prepared,
     SentWell, AskedFor, Reported
<1>7. QED
  BY <1>2, <1>3, <1>6, AttemptGoesOn

LEMMA ReadCodeStep ==
    ASSUME SubmissionInv, NEW a \in Attempts, Submission!ReadCode(a)
    PROVE  SubmissionInv'
<1> DEFINE t == attempt[a]
           first == [t EXCEPT !.at = "nonce", !.draft = 2, !.op.init = ~deployed]
           second == [t EXCEPT !.at = "estimate", !.op.init = ~deployed]
<1>1. AttemptOK(t)
  BY AttemptFacts
<1>2. /\ t.at = "code"
      /\ attempt' = [attempt EXCEPT ![a] = first] \/ attempt' = [attempt EXCEPT ![a] = second]
      /\ UNCHANGED <<nonce, deployed, mempool, receipts, submissionNow>>
  BY DEF Submission!ReadCode, Submission!Update, Submission!Worker
<1> HIDE DEF t
<1>3. ASSUME NEW u, u = first \/ u = second
      PROVE  AttemptOK(u)
  <2>1. /\ IsAttempt(u) /\ u.at \in {"nonce", "estimate"} /\ u.sent = t.sent
        /\ u.since = t.since /\ u.result = t.result /\ u.asked = t.asked
        /\ u.op = [t.op EXCEPT !.init = ~deployed]
    BY <1>1, <1>3 DEF AttemptOK, IsAttempt
  <2>2. IsOp(u.op) /\ u.op.nonce = t.op.nonce /\ u.op.init = ~deployed
    BY <1>1, <2>1 DEF AttemptOK, IsOp
  <2>3. QED
    BY <1>1, <1>2, <2>1, <2>2 DEF AttemptOK, AttemptPlace, Drafted, Estimated, Prepared,
       SentWell, AskedFor, Reported
<1> HIDE DEF first, second
<1>4. QED
  BY <1>2, <1>3, AttemptGoesOn

LEMMA EstimateStep ==
    ASSUME SubmissionInv, NEW a \in Attempts, Submission!Estimate(a)
    PROVE  SubmissionInv'
<1> DEFINE t == attempt[a]
<1>1. AttemptOK(t)
  BY AttemptFacts
<1>2. PICK e \in Estimates, p \in Prices :
        attempt' = [attempt EXCEPT ![a] = [t EXCEPT
              !.at = "sign",
              !.answer = [estimate |-> e, prices |-> p],
              !.op.limits = Submission!PackTwo(e.verification, e.call),
              !.op.pvg = e.pvg,
              !.op.fees = Submission!PackTwo(Submission!GasPrices(p).priority,
                                             Submission!GasPrices(p).max)]]
  BY DEF Submission!Estimate, Submission!Update
<1>3. /\ t.at = "estimate"
      /\ UNCHANGED <<nonce, deployed, mempool, receipts, submissionNow>>
  BY DEF Submission!Estimate, Submission!Worker
<1>4. PICK limits, fees, u :
        /\ limits = Submission!PackTwo(e.verification, e.call)
        /\ fees = Submission!PackTwo(Submission!GasPrices(p).priority,
                                     Submission!GasPrices(p).max)
        /\ u = [t EXCEPT !.at = "sign", !.answer = [estimate |-> e, prices |-> p],
                         !.op.limits = limits, !.op.pvg = e.pvg, !.op.fees = fees]
        /\ attempt' = [attempt EXCEPT ![a] = u]
  BY <1>2
<1> HIDE DEF t
<1>5. /\ IsAttempt(u) /\ u.at = "sign" /\ u.sent = t.sent /\ u.since = t.since
      /\ u.result = t.result /\ u.answer = [estimate |-> e, prices |-> p]
      /\ u.op = [t.op EXCEPT !.limits = limits, !.pvg = e.pvg, !.fees = fees]
      /\ u.asked = t.asked
  BY <1>1, <1>4 DEF AttemptOK, IsAttempt
<1>6. /\ IsOp(u.op) /\ u.op.nonce = t.op.nonce /\ u.op.init = t.op.init
      /\ u.op.limits = limits /\ u.op.fees = fees /\ u.op.pvg = e.pvg
  BY <1>1, <1>5 DEF AttemptOK, IsOp
<1>7. u.answer.estimate = e /\ u.answer.prices = p /\ e.pvg \in Nat /\ e.pvg <= e.pvg
  BY <1>5, WidthsAssumption DEF WidthsAssumption
<1>8. t.sent = {} /\ u.sent = {} /\ Estimated(u) /\ Drafted(u)
  BY <1>1, <1>3, <1>4, <1>5, <1>6, <1>7 DEF AttemptOK, SentWell, Estimated, Drafted
<1>9. AttemptOK(u)
  BY <1>1, <1>3, <1>5, <1>6, <1>8
     DEF AttemptOK, AttemptPlace, Prepared, SentWell, AskedFor, Reported
<1>10. QED
  BY <1>3, <1>4, <1>9, AttemptGoesOn


LEMMA GiveUpStep ==
    ASSUME SubmissionInv, NEW a \in Attempts, Submission!GiveUp(a)
    PROVE  SubmissionInv'
<1> DEFINE t == attempt[a]
<1>1. AttemptOK(t) /\ nonce \in Nat /\ submissionNow \in Nat /\ t.since \in 0..submissionNow
  BY AttemptFacts
<1>2. PICK u : /\ u = [t EXCEPT !.at = "ended", !.result = "failed", !.op = Submission!Blank,
                                !.draft = 0, !.answer = Submission!NoData,
                                !.asked = Submission!NoData]
               /\ attempt' = [attempt EXCEPT ![a] = u]
  BY DEF Submission!GiveUp, Submission!Update, Submission!Finished
<1>3. UNCHANGED <<nonce, deployed, mempool, receipts, submissionNow>>
  BY DEF Submission!GiveUp, Submission!Worker
<1> HIDE DEF t
<1>4. /\ u = [t EXCEPT !.at = "ended", !.result = u.result, !.op = Submission!Blank,
                       !.draft = 0, !.answer = Submission!NoData,
                       !.asked = Submission!NoData, !.sent = u.sent, !.since = u.since]
      /\ u.result = "failed" /\ u.sent = t.sent /\ u.since = t.since
  BY <1>1, <1>2 DEF AttemptOK, IsAttempt
<1>5. u.since \in t.since..submissionNow /\ Reported(u)
  BY <1>1, <1>4 DEF Reported
<1>6. AttemptOK(u)
  BY <1>1, <1>4, <1>5, EndedWell
<1>7. QED
  BY <1>2, <1>3, <1>6, AttemptGoesOn

LEMMA SignStep ==
    ASSUME SubmissionInv, NEW a \in Attempts, Submission!Sign(a)
    PROVE  SubmissionInv'
<1> DEFINE t == attempt[a]
<1>1. AttemptOK(t) /\ submissionNow \in Nat /\ submissionNow \in 0..submissionNow
  BY AttemptFacts
<1>2. PICK signed, u : /\ signed = Submission!ApplySignatures(t.op)
                       /\ u = [t EXCEPT !.at = "send", !.op = signed]
                       /\ attempt' = [attempt EXCEPT ![a] = u]
  BY DEF Submission!Sign, Submission!Update
<1>3. /\ t.at = "sign"
      /\ UNCHANGED <<nonce, deployed, mempool, receipts, submissionNow>>
  BY DEF Submission!Sign, Submission!Worker
<1> HIDE DEF t
<1>4. /\ IsAttempt(u) /\ u.at = "send" /\ u.op = signed /\ u.sent = t.sent
      /\ u.since = t.since /\ u.result = t.result /\ u.answer = t.answer /\ u.asked = t.asked
  BY <1>1, <1>2 DEF AttemptOK, IsAttempt
<1>5. /\ IsOp(signed) /\ SamePayload(signed, t.op) /\ SignedAt(signed, submissionNow)
  BY <1>1, <1>2, SignsAsItIs DEF AttemptOK
<1>6. Drafted(u) /\ Estimated(u)
  BY <1>1, <1>3, <1>4, <1>5 DEF AttemptOK, SamePayload, Drafted, Estimated, Prepared
<1>7. SentWell(u)
  BY <1>1, <1>3, <1>4, <1>5 DEF AttemptOK, SamePayload, SentWell, Prepared
<1>8. AskedFor(u)
  BY <1>1, <1>3, <1>4, <1>5 DEF AttemptOK, SamePayload, AskedFor, Prepared
<1>9. AttemptOK(u)
  BY <1>1, <1>4, <1>5, <1>6, <1>7, <1>8 DEF AttemptOK, AttemptPlace, Reported
<1>10. QED
  BY <1>2, <1>3, <1>9, AttemptGoesOn

\* The bundler answers: the operation was sent, and one of three things
\* follows.
LEMMA SendStep ==
    ASSUME SubmissionInv, NEW a \in Attempts, Submission!Send(a)
    PROVE  SubmissionInv'
<1> DEFINE t == attempt[a]
           op == t.op
           sent == [t EXCEPT !.sent = @ \cup {op}, !.since = submissionNow]
           Refused(u, text) ==
               u = IF Submission!BelowMinimum(a, text)
                   THEN [sent EXCEPT !.at = "sign", !.asked = Submission!Required(text),
                            !.op = Submission!Bumped(op, Submission!Required(text)[1])]
                   ELSE [Submission!Finished(a, "failed") EXCEPT !.sent = sent.sent,
                                                              !.since = submissionNow]
<1>1. /\ AttemptOK(t) /\ nonce \in Nat /\ submissionNow \in Nat
      /\ t.since \in 0..submissionNow /\ submissionNow \in 0..submissionNow
  BY AttemptFacts
<1>2. /\ t.at = "send"
      /\ UNCHANGED <<nonce, deployed, receipts, submissionNow>>
      /\ mempool' \subseteq mempool \cup {op}
  BY DEF Submission!Send
<1>3. PICK u : /\ \/ u = [sent EXCEPT !.at = "wait"]
                  \/ \E text \in Rejections : Refused(u, text)
               /\ attempt' = [attempt EXCEPT ![a] = u]
  BY DEF Submission!Send, Submission!Update
<1>4. IsOp(op) /\ op.nonce \in 0..nonce /\ \E n \in 0..submissionNow : SignedAt(op, n)
  BY <1>1, <1>2 DEF AttemptOK, Drafted, SentWell
<1>5. \A n \in 0..t.since : n \in 0..submissionNow
  BY <1>1
<1>6. PICK s : s = sent
  OBVIOUS
<1> DEFINE ended == [t EXCEPT !.at = "ended", !.result = "failed", !.op = Submission!Blank,
                              !.draft = 0, !.answer = Submission!NoData,
                              !.asked = Submission!NoData]
<1>7. ASSUME NEW text \in Rejections, Refused(u, text)
      PROVE  \/ /\ t.sent = {} /\ Submission!Required(text) # Submission!NoData
                /\ op.pvg < Submission!Required(text)[1]
                /\ u = [s EXCEPT !.at = "sign", !.asked = Submission!Required(text),
                            !.op = Submission!Bumped(op, Submission!Required(text)[1])]
             \/ u = [ended EXCEPT !.sent = s.sent, !.since = submissionNow]
  BY <1>6, <1>7 DEF Submission!BelowMinimum, Submission!Finished
<1>8. /\ s = [t EXCEPT !.sent = t.sent \cup {op}, !.since = submissionNow]
  BY <1>6
<1> HIDE DEF sent, Refused
<1>9. /\ IsAttempt(s) /\ s.sent = t.sent \cup {op} /\ s.since = submissionNow /\ s.at = "send"
      /\ s.op = op /\ s.answer = t.answer /\ s.asked = t.asked /\ s.result = t.result
  <2> HIDE DEF t
  <2>1. QED
    BY <1>1, <1>2, <1>8 DEF AttemptOK, IsAttempt
<1> HIDE DEF t
<1>10. \A o \in s.sent : /\ IsOp(o) /\ o.nonce = op.nonce /\ o.nonce \in 0..nonce
                         /\ \E n \in 0..submissionNow : SignedAt(o, n)
  <2>1. \A o \in t.sent : /\ IsOp(o) /\ o.nonce = op.nonce /\ o.nonce \in 0..nonce
                          /\ \E n \in 0..submissionNow : SignedAt(o, n)
    BY <1>1, <1>2, <1>5 DEF AttemptOK, SentWell, Prepared
  <2>2. QED
    BY <2>1, <1>4, <1>9
<1>11. CASE u = [s EXCEPT !.at = "wait"]
  <2>1. /\ IsAttempt(u) /\ u.at = "wait" /\ u.op = op /\ u.sent = s.sent
        /\ u.since = submissionNow /\ u.answer = t.answer /\ u.asked = t.asked
        /\ u.result = t.result
    BY <1>9, <1>11 DEF IsAttempt
  <2>2. Drafted(u) /\ Estimated(u)
    BY <1>1, <1>2, <2>1 DEF AttemptOK, Drafted, Estimated, Prepared
  <2>3. SentWell(u)
    BY <1>1, <1>9, <1>10, <2>1 DEF SentWell, Prepared
  <2>4. AskedFor(u)
    BY <1>1, <1>2, <1>9, <2>1 DEF AttemptOK, AskedFor, Prepared
  <2>5. Reported(u)
    BY <1>1, <1>9, <2>1 DEF AttemptOK, Reported
  <2>6. AttemptOK(u)
    BY <1>4, <2>1, <2>2, <2>3, <2>4, <2>5 DEF AttemptOK, AttemptPlace
  <2>7. QED
    BY <1>2, <1>3, <1>4, <2>6, AttemptGoesOn
<1>12. ASSUME NEW text \in Rejections, t.sent = {},
              Submission!Required(text) # Submission!NoData,
              op.pvg < Submission!Required(text)[1],
              u = [s EXCEPT !.at = "sign", !.asked = Submission!Required(text),
                            !.op = Submission!Bumped(op, Submission!Required(text)[1])]
       PROVE  SubmissionInv'
  <2>1. PICK minimum : minimum = Submission!Required(text)[1]
    OBVIOUS
  <2>2. minimum \in 0..Submission!MaxUint /\ minimum \in Nat
    BY <1>12, <2>1, RequiredIsNumber, Widths
  <2>3. PICK more : more = Submission!Buffered(minimum)
    OBVIOUS
  <2>4. more \in Nat /\ minimum <= more
    BY <2>2, <2>3, BufferedMeetsMinimum
  <2>5. PICK o : o = [op EXCEPT !.pvg = more]
    OBVIOUS
  <2>6. Submission!Bumped(op, Submission!Required(text)[1]) = o
    BY <2>1, <2>3, <2>5 DEF Submission!Bumped
  <2>7. /\ IsAttempt(u) /\ u.at = "sign" /\ u.op = o /\ u.sent = s.sent
        /\ u.since = submissionNow /\ u.answer = t.answer /\ u.result = t.result
        /\ u.asked = Submission!Required(text)
    BY <1>9, <1>12, <2>6 DEF IsAttempt
  <2>8. PICK first : first = op
    OBVIOUS
  <2> HIDE DEF op
  <2>9. /\ IsOp(o) /\ o.nonce = op.nonce /\ o.init = op.init /\ o.limits = op.limits
        /\ o.fees = op.fees /\ o.pvg = more
    BY <1>4, <2>5 DEF IsOp
  <2>10. op.pvg \in Nat /\ t.answer.estimate.pvg <= op.pvg
         /\ t.answer.estimate \in Estimates /\ t.answer.prices \in Prices
         /\ op.limits = Submission!PackTwo(t.answer.estimate.verification,
                                           t.answer.estimate.call)
         /\ op.fees = Submission!PackTwo(Submission!GasPrices(t.answer.prices).priority,
                                         Submission!GasPrices(t.answer.prices).max)
    BY <1>1, <1>2 DEF AttemptOK, Estimated, Prepared, op
  <2>11. t.answer.estimate.pvg <= more
    <3>1. t.answer.estimate.pvg \in Nat
      BY <2>10, WidthsAssumption DEF WidthsAssumption
    <3>2. QED
      BY <1>12, <2>1, <2>2, <2>4, <2>10, <3>1
  <2>12. Drafted(u)
    BY <1>1, <1>2, <2>7, <2>9 DEF AttemptOK, Drafted, op
  <2>13. Estimated(u)
    BY <2>4, <2>7, <2>9, <2>10, <2>11 DEF Estimated
  <2>14. SentWell(u)
    BY <1>1, <1>10, <2>7, <2>9 DEF SentWell, Prepared
  <2>15. AskedFor(u)
    BY <1>9, <1>12, <2>1, <2>2, <2>4, <2>7, <2>9 DEF AskedFor, Prepared
  <2>16. Reported(u)
    BY <1>1, <1>9, <2>7 DEF AttemptOK, Reported
  <2>17. AttemptOK(u)
    BY <2>7, <2>9, <2>12, <2>13, <2>14, <2>15, <2>16 DEF AttemptOK, AttemptPlace
  <2>18. QED
    BY <1>2, <1>3, <1>4, <2>17, AttemptGoesOn
<1>13. CASE u = [ended EXCEPT !.sent = s.sent, !.since = submissionNow]
  <2>1. /\ u = [t EXCEPT !.at = "ended", !.result = u.result, !.op = Submission!Blank,
                       !.draft = 0, !.answer = Submission!NoData,
                       !.asked = Submission!NoData, !.sent = u.sent, !.since = u.since]
        /\ u.result = "failed" /\ u.sent = s.sent /\ u.since = submissionNow
    BY <1>1, <1>13 DEF AttemptOK, IsAttempt
  <2>2. u.since \in t.since..submissionNow /\ Reported(u)
    BY <1>1, <2>1 DEF Reported
  <2>3. \A o \in u.sent \ t.sent : /\ IsOp(o) /\ o = t.op /\ Prepared(t)
                                   /\ \E n \in 0..u.since : SignedAt(o, n)
    BY <1>2, <1>9, <1>10, <2>1 DEF Prepared
  <2>4. AttemptOK(u)
    BY <1>1, <1>9, <2>1, <2>2, <2>3, EndedWell
  <2>5. QED
    BY <1>2, <1>3, <1>4, <2>4, AttemptGoesOn
<1>14. QED
  BY <1>3, <1>6, <1>7, <1>11, <1>12, <1>13

LEMMA PollStep ==
    ASSUME SubmissionInv, NEW a \in Attempts, Submission!Poll(a)
    PROVE  SubmissionInv'
<1> DEFINE t == attempt[a]
<1>1. AttemptOK(t) /\ nonce \in Nat /\ submissionNow \in Nat /\ t.since \in 0..submissionNow
  BY AttemptFacts
<1>2. PICK result, u :
        /\ u = [t EXCEPT !.at = "ended", !.result = result, !.op = Submission!Blank,
                         !.draft = 0, !.answer = Submission!NoData,
                         !.asked = Submission!NoData]
        /\ attempt' = [attempt EXCEPT ![a] = u]
        /\ \/ result = "timeout"
           \/ \E r \in receipts : /\ r.hash = Submission!OpHash(t.op)
                                  /\ result = IF r.success THEN "succeeded" ELSE "reverted"
  BY DEF Submission!Poll, Submission!Update, Submission!Finished, Submission!ReceiptsOf
<1>3. t.at = "wait" /\ UNCHANGED <<nonce, deployed, mempool, receipts, submissionNow>>
  BY DEF Submission!Poll, Submission!Worker
<1> HIDE DEF t
<1>4. /\ u = [t EXCEPT !.at = "ended", !.result = u.result, !.op = Submission!Blank,
                       !.draft = 0, !.answer = Submission!NoData,
                       !.asked = Submission!NoData, !.sent = u.sent, !.since = u.since]
      /\ u.result = result /\ u.sent = t.sent /\ u.since = t.since
  BY <1>1, <1>2 DEF AttemptOK, IsAttempt
<1>5. Reported(u)
  <2>1. t.op \in u.sent
    BY <1>1, <1>3, <1>4 DEF AttemptOK, SentWell
  <2>2. \A r \in receipts : r.success \in BOOLEAN
    BY DEF SubmissionInv, ReceiptsOK
  <2>3. QED
    BY <1>2, <1>4, <2>1, <2>2 DEF Reported
<1>6. u.since \in t.since..submissionNow
  BY <1>1, <1>4
<1>7. AttemptOK(u)
  BY <1>1, <1>4, <1>5, <1>6, EndedWell
<1>8. QED
  BY <1>2, <1>3, <1>7, AttemptGoesOn

\* The chain moves on under every attempt.
LEMMA IncludeStep ==
    ASSUME SubmissionInv, NEW op \in mempool, NEW success \in BOOLEAN,
           Submission!Include(op, success)
    PROVE  SubmissionInv'
<1>1. /\ op.nonce = nonce /\ nonce' = nonce + 1 /\ nonce \in Nat /\ nonce' \in Nat
      /\ receipts' = receipts \cup {[hash |-> Submission!OpHash(op), success |-> success]}
      /\ mempool' \subseteq mempool /\ attempt' = attempt /\ submissionNow' = submissionNow
  BY DEF Submission!Include, Submission!Includable, SubmissionInv
<1>2. \A n \in 0..nonce : n \in 0..nonce' /\ n # nonce'
  BY <1>1
<1>3. PICK receipt : receipt = [hash |-> Submission!OpHash(op), success |-> success]
  OBVIOUS
<1>4. receipt.hash.nonce = nonce /\ receipt.success = success
  BY <1>1, <1>3, HashKeeps DEF SubmissionInv
<1>5. ReceiptsOK'
  <2>1. /\ \A r \in receipts : /\ r.success \in BOOLEAN /\ r.hash.nonce \in Nat
                               /\ r.hash.nonce < nonce
        /\ \A r, s \in receipts : r.hash.nonce = s.hash.nonce => r = s
    BY DEF SubmissionInv, ReceiptsOK
  <2>2. receipts' = receipts \cup {receipt}
    BY <1>1, <1>3
  <2>3. \A n \in Nat : n < nonce => n < nonce' /\ n # nonce
    BY <1>1
  <2>4. nonce < nonce'
    BY <1>1
  <2>5. QED
    BY <1>1, <1>4, <2>1, <2>2, <2>3, <2>4 DEF ReceiptsOK
<1>6. ASSUME NEW t, AttemptOK(t)
      PROVE  AttemptOK(t)'
  BY <1>1, <1>2, <1>6 DEF AttemptOK, Drafted, Estimated, SentWell, AskedFor, Reported
<1>7. \A a \in Attempts : AttemptOK(attempt[a])'
  BY <1>1, <1>6 DEF SubmissionInv
<1>8. QED
  BY <1>1, <1>5, <1>7 DEF SubmissionInv

LEMMA SubmissionTick == SubmissionInv /\ Submission!Tick => SubmissionInv'
<1> SUFFICES ASSUME SubmissionInv, Submission!Tick
             PROVE  SubmissionInv'
  OBVIOUS
<1>1. /\ submissionNow' = submissionNow + 1 /\ submissionNow \in Nat /\ submissionNow' \in Nat
      /\ UNCHANGED <<attempt, nonce, deployed, mempool, receipts>>
  BY DEF Submission!Tick, SubmissionInv
<1>2. \A n \in 0..submissionNow : n \in 0..submissionNow'
  BY <1>1
<1>3. ASSUME NEW t, AttemptOK(t)
      PROVE  AttemptOK(t)'
  BY <1>1, <1>2, <1>3 DEF AttemptOK, Drafted, Estimated, SentWell, AskedFor, Reported
<1>4. \A a \in Attempts : AttemptOK(attempt[a])'
  BY <1>1, <1>3 DEF SubmissionInv
<1>5. QED
  BY <1>1, <1>4 DEF SubmissionInv, ReceiptsOK

LEMMA SubmissionStepInv ==
    SubmissionInv /\ (Submission!Next \/ UNCHANGED submission) => SubmissionInv'
<1>1. UNCHANGED submission /\ SubmissionInv => SubmissionInv'
  BY DEF submission, SubmissionInv, ReceiptsOK, AttemptOK, Drafted, Estimated, SentWell,
     AskedFor, Reported
<1>2. QED
  BY <1>1, ReadNonceStep, ReadCodeStep, EstimateStep, GiveUpStep, SignStep, SendStep,
     PollStep, IncludeStep, SubmissionTick DEF Submission!Next

LEMMA SubmissionCorrect == Spec => []SubmissionInv
<1>1. Init => SubmissionInv
  BY PartInit, SubmissionInit
<1>2. SubmissionInv /\ [Next]_vars => SubmissionInv'
  BY PartStep, SubmissionStepInv
<1>3. QED
  BY <1>1, <1>2, PTL DEF Spec


\* A worker reports success or a revert only with the receipt of an operation
\* it sent itself.  (wait_for_receipt, erc4337/mod.rs:778-849)
THEOREM ReportsAreOwnCorrect == Spec => []ReportsAreOwn
<1>1. SubmissionInv => ReportsAreOwn
  BY DEF SubmissionInv, AttemptOK, Reported, ReportsAreOwn
<1>2. QED
  BY <1>1, SubmissionCorrect, PTL

\* Between the reads of a draft and its submission the wallet's other
\* operation may spend the nonce; one that still has the nonce carries init
\* code exactly if the wallet has no code.  (build_user_op_draft)
THEOREM InitCodeFitsTheNonceCorrect == Spec => []InitCodeFitsTheNonce
<1>1. SubmissionInv => InitCodeFitsTheNonce
  BY DEF SubmissionInv, AttemptOK, Drafted, InitCodeFitsTheNonce
<1>2. QED
  BY <1>1, SubmissionCorrect, PTL

\* What is sent was signed as it is, for a validity that began the clock grace
\* before it was signed and ends the window after, at whatever time and after
\* however many refusals.  (worker/mod.rs:587-647, paymaster/mod.rs:161-168)
THEOREM SubmittedIsCoveredCorrect == Spec => []SubmittedIsCovered
<1>1. ASSUME NEW op, NEW n \in Nat, SignedAt(op, n),
             NEW t \in (op.paymaster.until - Window - Grace)..op.paymaster.until, t >= 0
      PROVE  Submission!Covered(op, t)
  <2>1. PICK after : after = IF n > Grace THEN n - Grace ELSE 0
    OBVIOUS
  <2>2. /\ op.paymaster = [until |-> n + Window, after |-> after,
                           signed |-> Submission!PaymasterHash(op, n + Window, after)]
        /\ op.signature = Submission!OpHash(op)
    BY <1>1, <2>1 DEF SignedAt
  <2>3. /\ op.paymaster.until = n + Window /\ op.paymaster.after = after
        /\ op.paymaster.signed = Submission!PaymasterHash(op, n + Window, after)
    BY <2>2
  <2>4. t \in Int /\ (n + Window) - Window - Grace <= t /\ t <= n + Window /\ t >= 0
    BY <1>1, <2>3, Widths
  <2>5. after <= t /\ t <= n + Window
    BY <2>1, <2>4, Widths
  <2>6. QED
    BY <2>2, <2>3, <2>5 DEF Submission!Covered
<1>2. SubmissionInv => SubmittedIsCovered
  <2> SUFFICES ASSUME SubmissionInv, NEW a \in Attempts, NEW op \in attempt[a].sent,
                      NEW t \in (op.paymaster.until - Window - Grace)..op.paymaster.until,
                      t >= 0
               PROVE  Submission!Covered(op, t)
    BY DEF SubmittedIsCovered
  <2>1. PICK n \in 0..attempt[a].since : SignedAt(op, n)
    BY DEF SubmissionInv, AttemptOK, SentWell
  <2>2. n \in Nat
    BY <2>1
  <2>3. QED
    BY <1>1, <2>1, <2>2
<1>3. QED
  BY <1>2, SubmissionCorrect, PTL

\* The two submissions of an attempt spend one nonce, so at most one of them
\* has a receipt; the second meets the minimum the bundler asked for and the
\* first did not.  (worker/mod.rs:560-620, 698-706)
THEOREM AttemptRunsOnceCorrect == Spec => []AttemptRunsOnce
<1>1. SubmissionInv => AttemptRunsOnce
  <2> SUFFICES ASSUME SubmissionInv, NEW a \in Attempts
               PROVE  /\ Cardinality({r \in receipts :
                           \E op \in attempt[a].sent : r.hash = Submission!OpHash(op)}) <= 1
                      /\ attempt[a].at \in {"sign", "send", "wait"}
                           /\ attempt[a].asked # Submission!NoData =>
                         /\ attempt[a].op.pvg >= attempt[a].asked[1]
                         /\ \A first \in attempt[a].sent \ {attempt[a].op} :
                              first.pvg < attempt[a].asked[1]
    BY DEF AttemptRunsOnce
  <2>1. AttemptOK(attempt[a])
    BY DEF SubmissionInv
  <2> DEFINE own == {r \in receipts :
                       \E op \in attempt[a].sent : r.hash = Submission!OpHash(op)}
  <2>2. ASSUME NEW r \in own, NEW s \in own
        PROVE  r = s
    <3>1. PICK op \in attempt[a].sent : r.hash = Submission!OpHash(op)
      OBVIOUS
    <3>2. PICK other \in attempt[a].sent : s.hash = Submission!OpHash(other)
      OBVIOUS
    <3>3. IsOp(op) /\ IsOp(other) /\ op.nonce = other.nonce
      BY <2>1 DEF AttemptOK, SentWell
    <3>4. r.hash.nonce = s.hash.nonce
      BY <3>1, <3>2, <3>3, HashKeeps
    <3>5. QED
      BY <3>4 DEF SubmissionInv, ReceiptsOK
  <2> HIDE DEF own
  <2>3. Cardinality(own) <= 1
    <3>1. CASE own = {}
      BY <3>1, FS_EmptySet
    <3>2. CASE own # {}
      <4>1. PICK r : r \in own
        BY <3>2
      <4>2. own = {r}
        BY <2>2, <4>1
      <4>3. QED
        BY <4>2, FS_Singleton
    <3>3. QED
      BY <3>1, <3>2
  <2>4. ASSUME Prepared(attempt[a]), attempt[a].asked # Submission!NoData
        PROVE  /\ attempt[a].op.pvg >= attempt[a].asked[1]
               /\ \A first \in attempt[a].sent \ {attempt[a].op} :
                    first.pvg < attempt[a].asked[1]
    <3>1. /\ attempt[a].asked[1] \in Nat /\ attempt[a].asked[1] <= attempt[a].op.pvg
          /\ attempt[a].op.pvg \in Nat
      BY <2>1, <2>4 DEF AttemptOK, AskedFor, Estimated
    <3>2. \A first \in attempt[a].sent \ {attempt[a].op} : first.pvg < attempt[a].asked[1]
      BY <2>1, <2>4 DEF AttemptOK, AskedFor
    <3>3. QED
      BY <3>1, <3>2
  <2>5. QED
    BY <2>3, <2>4 DEF own, Prepared
<1>2. QED
  BY <1>1, SubmissionCorrect, PTL

\* Halves that fit are packed and unpacked without a change.
LEMMA UnpacksAsPacked ==
    ASSUME NEW high \in 0..(2 ^ Half - 1), NEW low \in 0..(2 ^ Half - 1)
    PROVE  Submission!UnpackTwo(Submission!PackTwo(high, low)) = <<high, low>>
<1>1. PICK M \in Nat \ {0} : M = 2 ^ Half
  BY Widths
<1>2. high \in 0..(M - 1) /\ low \in 0..(M - 1)
  BY <1>1
<1>3. high % M = high /\ low % M = low
  BY <1>2
<1>4. (high * M + low) \div M = high /\ (high * M + low) % M = low
  BY <1>2
<1>5. Submission!PackTwo(high, low) = high * M + low
  BY <1>1, <1>3 DEF Submission!PackTwo
<1>6. QED
  BY <1>1, <1>4, <1>5 DEF Submission!UnpackTwo

\* The floor of the fees: nothing saturates when they fit.
LEMMA PricesFit ==
    ASSUME NEW p \in Prices
    PROVE  LET g == Submission!GasPrices(p)
           IN /\ g.max \in 0..(2 ^ Half - 1) /\ g.priority \in 0..(2 ^ Half - 1)
              /\ g.priority = p.priority /\ p.priority <= g.max
              /\ p.max <= g.max /\ 2 * p.base + p.priority <= g.max
<1>1. PICK M \in Nat : M = 2 ^ Half
  BY Widths
<1>2. PICK base \in Nat, priority \in Nat, most \in Nat :
        /\ base = p.base /\ priority = p.priority /\ most = p.max
        /\ most < M /\ 2 * base + priority < M
  BY <1>1, WidthsAssumption DEF WidthsAssumption
<1>3. M - 1 <= Submission!MaxUint /\ Submission!MaxUint \in Nat
  BY <1>1, Widths
<1>4. 2 * base \in Nat /\ 2 * base <= Submission!MaxUint
      /\ 2 * base + priority <= Submission!MaxUint
  BY <1>2, <1>3
<1>5. Submission!Min({2 * base, Submission!MaxUint}) = 2 * base
  BY <1>3, <1>4, MinOfTwo
<1>6. Submission!SatAdd(Submission!Min({2 * base, Submission!MaxUint}), priority)
        = 2 * base + priority
  BY <1>4, <1>5, SatAddBound
<1>7. PICK max \in Nat : /\ max = Submission!Max({most, 2 * base + priority})
                         /\ most <= max /\ 2 * base + priority <= max /\ max < M
  BY <1>2, MaxOfTwo
<1>8. Submission!Min({priority, max}) = priority /\ priority <= max
  <2>1. priority <= max
    BY <1>2, <1>7
  <2>2. QED
    BY <2>1, MinOfTwo
<1>9. Submission!GasPrices(p) = [max |-> max, priority |-> priority]
  BY <1>2, <1>6, <1>7, <1>8 DEF Submission!GasPrices
<1>10. QED
  BY <1>1, <1>2, <1>7, <1>8, <1>9

\* Whatever the bundler answers within 128 bits is what it is sent, with fees
\* above its own floor, through packing, signing, refusal and bump.
\* (pack_two_uint128, to_rpc_user_operation, erc4337/mod.rs:743, 1084)
THEOREM BundlerSeesTheEstimateCorrect == Spec => []BundlerSeesTheEstimate
<1>1. SubmissionInv => BundlerSeesTheEstimate
  <2> SUFFICES ASSUME SubmissionInv, NEW a \in Attempts, attempt[a].at \in {"send", "wait"}
               PROVE  LET rpc == Submission!Rpc(attempt[a].op)
                          e == attempt[a].answer.estimate
                          p == attempt[a].answer.prices
                      IN /\ rpc.call = e.call /\ rpc.verification = e.verification
                         /\ rpc.pvg >= e.pvg
                         /\ rpc.priority = p.priority /\ rpc.priority <= rpc.max
                         /\ rpc.max >= p.max /\ rpc.max >= 2 * p.base + p.priority
    BY DEF BundlerSeesTheEstimate
  <2>1. Estimated(attempt[a]) /\ Prepared(attempt[a])
    BY DEF SubmissionInv, AttemptOK, Prepared
  <2>2. PICK op, e, p, g :
          /\ op = attempt[a].op /\ e = attempt[a].answer.estimate
          /\ p = attempt[a].answer.prices /\ g = Submission!GasPrices(p)
    OBVIOUS
  <2>3. /\ e \in Estimates /\ p \in Prices
        /\ op.limits = Submission!PackTwo(e.verification, e.call)
        /\ op.fees = Submission!PackTwo(g.priority, g.max)
        /\ op.pvg \in Nat /\ e.pvg <= op.pvg
    BY <2>1, <2>2 DEF Estimated
  <2>4. /\ e.call \in 0..(2 ^ Half - 1) /\ e.verification \in 0..(2 ^ Half - 1)
        /\ e.pvg \in Nat /\ p.max \in Nat /\ p.priority \in Nat /\ p.base \in Nat
    BY <2>3, WidthsAssumption DEF WidthsAssumption
  <2>5. /\ g.max \in 0..(2 ^ Half - 1) /\ g.priority \in 0..(2 ^ Half - 1)
        /\ g.priority = p.priority /\ p.priority <= g.max
        /\ p.max <= g.max /\ 2 * p.base + p.priority <= g.max
    BY <2>2, <2>3, PricesFit
  <2>6. g.max \in Nat
    BY <2>5
  <2>7. Submission!UnpackTwo(op.limits) = <<e.verification, e.call>>
    BY <2>3, <2>4, UnpacksAsPacked
  <2>8. Submission!UnpackTwo(op.fees) = <<g.priority, g.max>>
    BY <2>3, <2>5, UnpacksAsPacked
  <2>9. Submission!Rpc(op) = [verification |-> e.verification, call |-> e.call,
                              pvg |-> op.pvg, priority |-> g.priority, max |-> g.max]
    BY <2>7, <2>8 DEF Submission!Rpc
  <2>10. /\ op.pvg >= e.pvg /\ g.max >= p.max /\ g.max >= 2 * p.base + p.priority
    BY <2>3, <2>4, <2>5, <2>6
  <2>11. QED
    BY <2>2, <2>5, <2>9, <2>10
<1>2. QED
  BY <1>1, SubmissionCorrect, PTL

\* No operation is executed later than one window after the attempt that sent
\* it sent last, however long the bundler kept it.
\* (validity_window_secs, paymaster/mod.rs:161-168)
THEOREM EffectsEndWithTheWindowCorrect == Spec => EffectsEndWithTheWindow
<1> DEFINE Timely == \A a \in Attempts :
         (\E r \in receipts' \ receipts : \E op \in attempt[a].sent : r.hash = Submission!OpHash(op))
            => submissionNow <= attempt[a].since + Window
<1>1. SubmissionInv /\ [Next]_vars => [Timely]_vars
  <2> SUFFICES ASSUME SubmissionInv, [Next]_vars, NEW a \in Attempts,
                      NEW r \in receipts' \ receipts, NEW op \in attempt[a].sent,
                      r.hash = Submission!OpHash(op)
               PROVE  submissionNow <= attempt[a].since + Window
    OBVIOUS
  <2>1. Submission!Next
    BY PartStep DEF submission
  <2>2. PICK included \in mempool, success \in BOOLEAN : Submission!Include(included, success)
    BY <2>1 DEF Submission!Next, Submission!ReadNonce, Submission!ReadCode,
       Submission!Estimate, Submission!GiveUp, Submission!Sign, Submission!Send,
       Submission!Poll, Submission!Worker, Submission!Tick
  <2>3. /\ r = [hash |-> Submission!OpHash(included), success |-> success]
        /\ IsOp(included) /\ Submission!Covered(included, submissionNow)
    BY <2>2 DEF Submission!Include, Submission!Includable, SubmissionInv
  <2>4. PICK n \in 0..attempt[a].since : SignedAt(op, n)
    BY DEF SubmissionInv, AttemptOK, SentWell
  <2>5. IsOp(op) /\ n \in Nat /\ attempt[a].since \in Nat /\ submissionNow \in Nat
        /\ n <= attempt[a].since
    BY <2>4 DEF SubmissionInv, AttemptOK, SentWell
  <2>6. op.paymaster.until = n + Window
    BY <2>4 DEF SignedAt
  <2>7. included.paymaster = op.paymaster
    <3>1. Submission!OpHash(included) = Submission!OpHash(op)
      BY <2>3
    <3>2. QED
      BY <2>3, <2>5, <3>1, HashKeeps
  <2>8. n + Window = 0 \/ submissionNow <= n + Window
    BY <2>3, <2>6, <2>7 DEF Submission!Covered
  <2>9. QED
    BY <2>5, <2>8, Widths
<1>2. QED
  BY <1>1, SubmissionCorrect, PTL DEF Spec, EffectsEndWithTheWindow
-----------------------------------------------------------------------------
(* Discovery.                                                              *)

Pools == Discovery!Created

\* Pools are created in order, at times that have passed.
ChainOK ==
    /\ block \in Seq(Nat) /\ born \in Seq(Nat) /\ Len(born) = Len(block)
    /\ discoveryNow \in Nat
    /\ \A p, q \in Pools : p <= q => block[p] <= block[q]

\* A listing has every pool that was there when its discovery began; Uniswap's
\* is of a time at which no pool it lacks was older than the time limit.
EntryOK ==
    /\ cache.at \in 0..discoveryNow /\ cache.began \in 0..Len(block)
    /\ cache.pools \subseteq Nat \ {0}
    /\ cache.known /\ ~cache.refused =>
         /\ 1..cache.began \subseteq cache.pools
         /\ service = "uniswap" =>
              \A p \in Pools : p > cache.began => cache.at <= born[p] + HttpTimeout

IsCaller(t) ==
    t = [at |-> t.at, from |-> t.from, page |-> t.page, got |-> t.got, began |-> t.began,
         asked |-> t.asked, since |-> t.since, snapshot |-> t.snapshot, knew |-> t.knew]

\* What a discovery has, page by page: every pool below the block it asks
\* from next.
Gathered(t) ==
    /\ t.began \in 0..Len(block) /\ t.asked \in t.began..Len(block)
    /\ t.from \in Nat /\ t.got \subseteq Nat \ {0}
    /\ \A p \in 1..t.began : block[p] < t.from => p \in t.got

\* Uniswap's request is no older than its time limit, and the pools created
\* since it began are younger.
WithinLimit(t) ==
    /\ t.since \in 0..discoveryNow /\ discoveryNow <= t.since + HttpTimeout
    /\ \A p \in Pools : p > t.began => t.since <= born[p]
    /\ t.snapshot.known = t.knew

CallerOK(t) ==
    /\ IsCaller(t)
    /\ t.at = "failed" => ~t.knew
    /\ t.at = "fetch" =>
         /\ Gathered(t)
         /\ service = "uniswap" => WithinLimit(t)
         /\ service # "uniswap" /\ t.knew => cache.known

DiscoveryInv ==
    /\ ChainOK /\ EntryOK
    /\ caller = [c \in Callers |-> caller[c]]
    /\ \A c \in Callers : CallerOK(caller[c])

LEMMA DiscoveryParams ==
    /\ PageSize \in Nat /\ PageSize # 0 /\ TTL \in Nat /\ HttpTimeout \in Nat
  BY ServicesAssumption DEF ServicesAssumption

LEMMA ChainFacts ==
    ASSUME ChainOK
    PROVE  /\ Len(block) \in Nat /\ Pools = 1..Len(block) /\ Pools \subseteq Nat
           /\ \A p \in Pools : block[p] \in Nat /\ born[p] \in Nat
<1>1. Len(block) \in Nat /\ Pools = 1..Len(block)
  BY DEF ChainOK, Pools, Discovery!Created
<1>2. \A p \in 1..Len(block) : block[p] \in Nat /\ born[p] \in Nat
  BY <1>1 DEF ChainOK
<1>3. QED
  BY <1>1, <1>2

\* A bounded, non-empty set of naturals has a greatest element, which Max
\* returns.
LEMMA MaxIsGreatest ==
    ASSUME NEW S, S \subseteq Nat, S # {}, NEW bound \in Nat, \A n \in S : n <= bound
    PROVE  Discovery!Max(S) \in S /\ \A n \in S : n <= Discovery!Max(S)
<1> DEFINE T == {bound - n : n \in S}
<1>1. T \subseteq Nat /\ T # {}
  <2>1. \A n \in S : n \in Nat /\ bound - n \in Nat
    OBVIOUS
  <2>2. QED
    BY <2>1
<1> HIDE DEF T
<1>2. PICK m \in T : \A n \in T : m <= n
  BY <1>1, MinIsLeast
<1>3. PICK x \in S : m = bound - x
  BY <1>2 DEF T
<1>4. \A n \in S : bound - x <= bound - n
  BY <1>2, <1>3 DEF T
<1>5. \A n \in S : x >= n
  BY <1>4
<1>6. \E y \in S : \A n \in S : y >= n
  BY <1>5
<1>7. Discovery!Max(S) \in S /\ \A n \in S : Discovery!Max(S) >= n
  BY <1>6 DEF Discovery!Max
<1>8. QED
  BY <1>7

Below(S, p) == {x \in S : x < p}

LEMMA PageMembers ==
    ASSUME NEW S
    PROVE  Discovery!FirstOf(S) = {p \in S : Cardinality(Below(S, p)) < PageSize}
<1>1. \A T : Discovery!Cardinality(T) = Cardinality(T)
  BY DEF Discovery!Cardinality, Cardinality
<1>2. QED
  BY <1>1 DEF Discovery!FirstOf, Below

LEMMA SmallerSetIsSmall ==
    ASSUME NEW S, IsFiniteSet(S), NEW T, T \subseteq S, Cardinality(S) < PageSize
    PROVE  Cardinality(T) < PageSize
<1>1. /\ Cardinality(T) <= Cardinality(S) /\ Cardinality(S) \in Nat /\ Cardinality(T) \in Nat
  BY FS_Subset, FS_CardinalityType
<1> DEFINE few == Cardinality(T)
           many == Cardinality(S)
<1>2. few \in Nat /\ many \in Nat /\ few <= many /\ many < PageSize
  BY <1>1
<1> HIDE DEF few, many
<1>3. few < PageSize
  BY <1>2, DiscoveryParams
<1>4. QED
  BY <1>3 DEF few

\* A page holds everything before what it holds.
LEMMA PageIsPrefix ==
    ASSUME NEW S, S \subseteq Nat, IsFiniteSet(S), NEW q \in Discovery!FirstOf(S),
           NEW p \in S, p <= q
    PROVE  p \in Discovery!FirstOf(S)
<1>1. q \in S /\ Cardinality(Below(S, q)) < PageSize
  BY PageMembers
<1>2. p \in Nat /\ q \in Nat /\ \A x \in S : x \in Nat
  BY <1>1
<1>3. Below(S, p) \subseteq Below(S, q)
  <2>1. \A x \in S : x < p => x < q
    BY <1>2
  <2>2. QED
    BY <2>1 DEF Below
<1>4. IsFiniteSet(Below(S, q))
  BY FS_Subset DEF Below
<1>5. Cardinality(Below(S, p)) < PageSize
  BY <1>1, <1>3, <1>4, SmallerSetIsSmall
<1>6. QED
  BY <1>5, PageMembers

\* A page that is not full is everything.
LEMMA ShortPageIsAll ==
    ASSUME NEW S, S \subseteq Nat, IsFiniteSet(S),
           Cardinality(Discovery!FirstOf(S)) < PageSize
    PROVE  S \subseteq Discovery!FirstOf(S)
<1> DEFINE page == Discovery!FirstOf(S)
<1> SUFFICES ASSUME S \ page # {}
             PROVE  FALSE
  OBVIOUS
<1>1. PICK m \in S \ page : \A n \in S \ page : m <= n
  <2>1. S \ page \subseteq Nat
    OBVIOUS
  <2> HIDE DEF page
  <2>2. Min(S \ page) \in S \ page /\ \A n \in S \ page : Min(S \ page) <= n
    BY <2>1, MinIsLeast
  <2>3. QED
    BY <2>2
<1> HIDE DEF page
<1>2. m \in Nat /\ \A x \in S : x \in Nat
  BY <1>1
<1>3. Below(S, m) \subseteq page
  <2>1. ASSUME NEW x \in S, x < m, x \notin page
        PROVE  FALSE
    <3>1. m <= x
      BY <1>1, <2>1
    <3>2. QED
      BY <1>2, <2>1, <3>1
  <2>2. QED
    BY <2>1 DEF Below
<1>4. IsFiniteSet(page)
  <2>1. page \subseteq S
    BY PageMembers DEF page
  <2>2. QED
    BY <2>1, FS_Subset
<1>5. Cardinality(Below(S, m)) < PageSize
  BY <1>3, <1>4, SmallerSetIsSmall DEF page
<1>6. m \in page
  BY <1>1, <1>5, PageMembers DEF page
<1>7. QED
  BY <1>1, <1>6

LEMMA IdleIsOK ==
    /\ IsCaller(Discovery!Idle) /\ CallerOK(Discovery!Idle)
    /\ Discovery!Idle.at = "answered" /\ Discovery!NoEntry.known = FALSE
  BY DEF Discovery!Idle, Discovery!NoEntry, IsCaller, CallerOK

LEMMA DiscoveryInit == Discovery!Init => DiscoveryInv
<1> SUFFICES ASSUME Discovery!Init
             PROVE  DiscoveryInv
  OBVIOUS
<1>1. /\ block = <<>> /\ born = <<>> /\ cache = Discovery!NoEntry /\ discoveryNow = 0
      /\ caller = [c \in Callers |-> Discovery!Idle]
  BY DEF Discovery!Init
<1>2. Len(block) = 0 /\ Len(born) = 0 /\ block \in Seq(Nat) /\ born \in Seq(Nat)
  BY <1>1
<1>3. ChainOK
  BY <1>1, <1>2 DEF ChainOK, Pools, Discovery!Created
<1>4. EntryOK
  BY <1>1, <1>2 DEF EntryOK, Discovery!NoEntry
<1>5. QED
  BY <1>1, <1>3, <1>4, IdleIsOK DEF DiscoveryInv

\* A discovery goes on, or ends, while chain and cache stay as they are.
LEMMA CallerGoesOn ==
    ASSUME DiscoveryInv, NEW c \in Callers, NEW t, CallerOK(t),
           caller' = [caller EXCEPT ![c] = t],
           UNCHANGED <<service, block, born, discoveryNow, cache>>
    PROVE  DiscoveryInv'
<1>1. caller' = [d \in Callers |-> IF d = c THEN t ELSE caller[d]]
  BY DEF DiscoveryInv
<1>2. ASSUME NEW u, CallerOK(u)
      PROVE  CallerOK(u)'
  BY <1>2 DEF CallerOK, Gathered, WithinLimit, Pools, Discovery!Created
<1>3. \A d \in Callers : CallerOK(caller[d])'
  BY <1>1, <1>2 DEF DiscoveryInv
<1>4. caller' = [d \in Callers |-> caller'[d]]
  BY <1>1, Zenon
<1>5. ChainOK' /\ EntryOK'
  BY DEF DiscoveryInv, ChainOK, EntryOK, Pools, Discovery!Created
<1>6. QED
  BY <1>3, <1>4, <1>5 DEF DiscoveryInv

\* A listing that has all that was there when its discovery began may be kept.
LEMMA ListingKept ==
    ASSUME DiscoveryInv, NEW c \in Callers, caller[c].at = "fetch",
           NEW pools, NEW refused \in BOOLEAN, Discovery!Listed(c, pools, refused),
           pools \subseteq Nat \ {0}, ~refused => 1..caller[c].began \subseteq pools
    PROVE  DiscoveryInv'
<1>1. PICK e : /\ e = [at |-> discoveryNow, pools |-> pools, began |-> caller[c].began,
                       refused |-> refused, known |-> TRUE]
               /\ cache' = e
  BY DEF Discovery!Listed
<1>2. /\ caller' = [caller EXCEPT ![c] = Discovery!Idle]
      /\ UNCHANGED <<service, block, born, discoveryNow>>
  BY DEF Discovery!Listed, Discovery!Update, Discovery!Environment
<1>3. CallerOK(caller[c]) /\ ChainOK
  BY DEF DiscoveryInv
<1>4. /\ e.at = discoveryNow /\ e.pools = pools /\ e.began = caller[c].began
      /\ e.refused = refused /\ e.known = TRUE
  BY <1>1
<1>5. ChainOK'
  BY <1>2, <1>3 DEF ChainOK, Pools, Discovery!Created
<1>6. ASSUME service = "uniswap", NEW p \in Pools, p > e.began
      PROVE  e.at <= born[p] + HttpTimeout
  <2>1. /\ caller[c].since \in Nat /\ discoveryNow <= caller[c].since + HttpTimeout
        /\ caller[c].since <= born[p]
    BY <1>3, <1>4, <1>6 DEF CallerOK, WithinLimit
  <2>2. born[p] \in Nat /\ discoveryNow \in Nat
    BY <1>3, ChainFacts DEF ChainOK
  <2>3. QED
    BY <1>4, <2>1, <2>2, DiscoveryParams
<1>7. e.at \in 0..discoveryNow /\ e.began \in 0..Len(block)
  BY <1>3, <1>4 DEF ChainOK, CallerOK, Gathered
<1>8. EntryOK'
  BY <1>1, <1>2, <1>4, <1>6, <1>7 DEF EntryOK, Pools, Discovery!Created
<1>9. caller' = [d \in Callers |-> IF d = c THEN Discovery!Idle ELSE caller[d]]
  BY <1>2 DEF DiscoveryInv
<1>10. ASSUME NEW u, CallerOK(u)
       PROVE  CallerOK(u)'
  BY <1>1, <1>2, <1>4, <1>10 DEF CallerOK, Gathered, WithinLimit, Pools, Discovery!Created
<1>11. \A d \in Callers : CallerOK(caller[d])'
  BY <1>9, <1>10, IdleIsOK DEF DiscoveryInv
<1>12. caller' = [d \in Callers |-> caller'[d]]
  BY <1>9, Zenon
<1>13. QED
  BY <1>5, <1>8, <1>11, <1>12 DEF DiscoveryInv

\* A discovery that falls back fails only without an entry.
LEMMA FallsBack ==
    ASSUME DiscoveryInv, NEW c \in Callers, caller[c].at = "fetch", Discovery!FallBack(c)
    PROVE  DiscoveryInv'
<1>1. PICK entry : /\ entry = IF service = "uniswap" THEN caller[c].snapshot ELSE cache
                   /\ Discovery!Failed(c, entry)
  BY DEF Discovery!FallBack
<1>2. PICK u : /\ u = IF entry.known THEN Discovery!Idle
                      ELSE [Discovery!Idle EXCEPT !.at = "failed", !.knew = caller[c].knew]
               /\ caller' = [caller EXCEPT ![c] = u]
  BY <1>1 DEF Discovery!Failed, Discovery!Update
<1>3. UNCHANGED <<service, block, born, discoveryNow, cache>>
  BY <1>1 DEF Discovery!Failed, Discovery!Environment
<1>4. CallerOK(caller[c])
  BY DEF DiscoveryInv
<1>5. ~entry.known => ~caller[c].knew
  BY <1>1, <1>4 DEF CallerOK, WithinLimit
<1>6. CASE entry.known
  BY <1>2, <1>3, <1>6, IdleIsOK, CallerGoesOn
<1>7. CASE ~entry.known
  <2>1. u = [Discovery!Idle EXCEPT !.at = "failed", !.knew = caller[c].knew]
    BY <1>2, <1>7
  <2>2. IsCaller(u) /\ u.at = "failed" /\ u.knew = caller[c].knew
    BY <2>1 DEF Discovery!Idle, IsCaller
  <2>3. CallerOK(u)
    BY <1>5, <1>7, <2>2 DEF CallerOK
  <2>4. QED
    BY <1>2, <1>3, <2>3, CallerGoesOn
<1>8. QED
  BY <1>6, <1>7

LEMMA LookupStep ==
    ASSUME DiscoveryInv, NEW c \in Callers, Discovery!Lookup(c)
    PROVE  DiscoveryInv'
<1>1. UNCHANGED <<service, block, born, discoveryNow, cache>>
  BY DEF Discovery!Lookup, Discovery!Environment
<1>2. CASE caller' = [caller EXCEPT ![c] = Discovery!Idle]
  BY <1>1, <1>2, IdleIsOK, CallerGoesOn
<1>3. CASE caller' # [caller EXCEPT ![c] = Discovery!Idle]
  <2>1. PICK since, snapshot, u :
          /\ since = IF service = "uniswap" THEN discoveryNow ELSE 0
          /\ snapshot = IF service = "uniswap" THEN cache ELSE Discovery!NoEntry
          /\ u = [Discovery!Idle EXCEPT !.at = "fetch", !.page = 1, !.began = Len(block),
                     !.asked = Len(block), !.knew = cache.known, !.since = since,
                     !.snapshot = snapshot]
          /\ caller' = [caller EXCEPT ![c] = u]
    BY <1>3 DEF Discovery!Lookup, Discovery!Update
  <2>2. /\ IsCaller(u) /\ u.at = "fetch" /\ u.began = Len(block) /\ u.asked = Len(block)
        /\ u.knew = cache.known /\ u.since = since /\ u.snapshot = snapshot
        /\ u.from = 0 /\ u.got = {}
    BY <2>1 DEF Discovery!Idle, IsCaller
  <2>3. /\ Len(block) \in Nat /\ \A p \in 1..Len(block) : block[p] \in Nat /\ ~(block[p] < 0)
        /\ Pools = 1..Len(block) /\ discoveryNow \in Nat
    BY ChainFacts DEF DiscoveryInv, ChainOK
  <2>4. Gathered(u)
    BY <2>2, <2>3 DEF Gathered
  <2>5. service = "uniswap" => WithinLimit(u)
    BY <2>1, <2>2, <2>3, DiscoveryParams DEF WithinLimit
  <2>6. CallerOK(u)
    BY <2>2, <2>4, <2>5 DEF CallerOK
  <2>7. QED
    BY <1>1, <2>1, <2>6, CallerGoesOn
<1>4. QED
  BY <1>2, <1>3

\* What the index answers to a discovery.
LEMMA AnswerFacts ==
    ASSUME DiscoveryInv, NEW c \in Callers, caller[c].at = "fetch", NEW from \in Nat,
           NEW answer \in Discovery!Answers(c, from)
    PROVE  /\ answer \subseteq Pools /\ answer \subseteq Nat \ {0} /\ IsFiniteSet(answer)
           /\ \A p \in 1..caller[c].began : from <= block[p] => p \in answer
           /\ \A p \in answer : from <= block[p]
<1>1. PICK k \in caller[c].asked..Len(block) : answer = {p \in 1..k : block[p] >= from}
  BY DEF Discovery!Answers
<1>2. /\ Gathered(caller[c]) /\ ChainOK
  BY DEF DiscoveryInv, CallerOK
<1>3. /\ caller[c].began \in Nat /\ k \in Nat /\ caller[c].began <= k /\ k <= Len(block)
      /\ Len(block) \in Nat /\ Pools = 1..Len(block) /\ \A p \in Pools : block[p] \in Nat
  BY <1>1, <1>2, ChainFacts DEF Gathered
<1>4. 1..k \subseteq Pools /\ 1..caller[c].began \subseteq 1..k /\ Pools \subseteq Nat \ {0}
  BY <1>3
<1>5. answer \subseteq Pools
  BY <1>1, <1>4
<1>6. \A p \in Pools : block[p] >= from <=> from <= block[p]
  BY <1>3
<1>7. IsFiniteSet(Pools)
  BY <1>3, FS_Interval
<1>8. IsFiniteSet(answer)
  BY <1>5, <1>7, FS_Subset
<1>9. QED
  BY <1>1, <1>4, <1>5, <1>6, <1>8

LEMMA FetchPairStep ==
    ASSUME DiscoveryInv, NEW c \in Callers, Discovery!FetchPair(c)
    PROVE  DiscoveryInv'
<1>1. caller[c].at = "fetch"
  BY DEF Discovery!FetchPair
<1>2. PICK logs \in Discovery!Answers(c, 0) :
        Discovery!Listed(c, logs, FALSE) \/ Discovery!FallBack(c)
  BY DEF Discovery!FetchPair
<1>3. /\ logs \subseteq Nat \ {0}
      /\ \A p \in 1..caller[c].began : 0 <= block[p] => p \in logs
  BY <1>1, <1>2, AnswerFacts
<1>4. \A p \in 1..caller[c].began : 0 <= block[p]
  <2>1. /\ caller[c].began \in 0..Len(block) /\ Len(block) \in Nat /\ Pools = 1..Len(block)
        /\ \A p \in Pools : block[p] \in Nat
    BY <1>1, ChainFacts DEF DiscoveryInv, CallerOK, Gathered
  <2>2. QED
    BY <2>1
<1>5. QED
  BY <1>1, <1>2, <1>3, <1>4, ListingKept, FallsBack

\* A full page that is followed by another one: what lies below the block of
\* its last entry is in hand.
LEMMA NextPage ==
    ASSUME DiscoveryInv, NEW c \in Callers, caller[c].at = "fetch",
           NEW answer \in Discovery!Answers(c, caller[c].from),
           NEW logs, logs = Discovery!FirstOf(answer), logs # {}
    PROVE  /\ Discovery!NextFrom(logs) \in Nat
           /\ \A p \in 1..caller[c].began :
                block[p] < Discovery!NextFrom(logs) => p \in caller[c].got \cup logs
<1>1. /\ Gathered(caller[c]) /\ ChainOK
  BY DEF DiscoveryInv, CallerOK
<1>2. /\ answer \subseteq Pools /\ answer \subseteq Nat \ {0} /\ IsFiniteSet(answer)
      /\ \A p \in 1..caller[c].began : caller[c].from <= block[p] => p \in answer
  BY <1>1, AnswerFacts DEF Gathered
<1>3. /\ Len(block) \in Nat /\ Pools = 1..Len(block) /\ Pools \subseteq Nat
      /\ \A p \in Pools : block[p] \in Nat
      /\ \A p, q \in Pools : p <= q => block[p] <= block[q]
  BY <1>1, ChainFacts DEF ChainOK
<1>4. logs \subseteq answer /\ logs \subseteq Pools
  BY <1>2, PageMembers
<1> DEFINE S == {block[p] : p \in logs}
<1>5. Len(block) \in Pools
  BY <1>3, <1>4
<1>6. S \subseteq Nat /\ S # {} /\ block[Len(block)] \in Nat
      /\ \A n \in S : n <= block[Len(block)]
  BY <1>3, <1>4, <1>5
<1>7. PICK max : max = Discovery!Max(S)
  OBVIOUS
<1>8. max \in S /\ max \in Nat
  <2> HIDE DEF S
  <2>1. QED
    BY <1>6, <1>7, MaxIsGreatest
<1>9. Discovery!NextFrom(logs) = max
  BY <1>7 DEF Discovery!NextFrom
<1>10. PICK q \in logs : block[q] = max
  BY <1>8
<1>11. ASSUME NEW p \in 1..caller[c].began, block[p] < max
       PROVE  p \in caller[c].got \cup logs
  <2>1. p \in Pools /\ q \in Pools
    BY <1>1, <1>3, <1>4 DEF Gathered
  <2>2. block[p] \in Nat /\ p \in Nat /\ q \in Nat /\ caller[c].from \in Nat
    BY <1>1, <1>3, <2>1 DEF Gathered
  <2>3. CASE block[p] < caller[c].from
    BY <1>1, <2>3 DEF Gathered
  <2>4. CASE caller[c].from <= block[p]
    <3>1. p \in answer
      BY <1>2, <2>4
    <3>2. ~(q <= p)
      <4>1. q <= p => max <= block[p]
        BY <1>3, <1>10, <2>1
      <4>2. QED
        BY <1>8, <1>11, <2>2, <4>1
    <3>3. p <= q
      BY <2>2, <3>2
    <3>4. answer \subseteq Nat
      BY <1>2
    <3>5. QED
      BY <1>2, <1>10, <3>1, <3>3, <3>4, PageIsPrefix
  <2>5. QED
    BY <2>2, <2>3, <2>4
<1>12. QED
  BY <1>8, <1>9, <1>11

LEMMA FetchPageStep ==
    ASSUME DiscoveryInv, NEW c \in Callers, Discovery!FetchPage(c)
    PROVE  DiscoveryInv'
<1> DEFINE t == caller[c]
<1>1. /\ t.at = "fetch" /\ CallerOK(t) /\ Gathered(t) /\ ChainOK
      /\ service = "paged"
  BY DEF Discovery!FetchPage, DiscoveryInv, CallerOK
<1>2. PICK answer, logs, all :
        /\ answer \in Discovery!Answers(c, t.from)
        /\ logs = Discovery!FirstOf(answer) /\ all = t.got \cup logs
        /\ \/ /\ Discovery!Cardinality(logs) < PageSize
              /\ Discovery!Listed(c, all, FALSE)
           \/ Discovery!FallBack(c)
           \/ /\ Discovery!Cardinality(logs) = PageSize
              /\ Discovery!Update(c, [t EXCEPT !.got = all, !.page = @ + 1,
                                    !.asked = Len(block), !.from = Discovery!NextFrom(logs)])
              /\ UNCHANGED cache
              /\ Discovery!Environment
  BY DEF Discovery!FetchPage
<1>3. Discovery!Cardinality(logs) = Cardinality(logs)
  BY DEF Discovery!Cardinality, Cardinality
<1>4. /\ answer \subseteq Nat \ {0} /\ answer \subseteq Nat /\ IsFiniteSet(answer)
      /\ \A p \in 1..t.began : t.from <= block[p] => p \in answer
  BY <1>1, <1>2, AnswerFacts DEF Gathered
<1>5. logs \subseteq answer /\ all \subseteq Nat \ {0}
  BY <1>1, <1>2, <1>4, PageMembers DEF Gathered
<1>6. t.began \in Nat /\ Len(block) \in Nat /\ t.began \in 0..Len(block)
      /\ \A p \in 1..t.began : block[p] \in Nat
  BY <1>1, ChainFacts DEF Gathered
<1>7. CASE Cardinality(logs) < PageSize /\ Discovery!Listed(c, all, FALSE)
  <2>1. answer \subseteq logs
    BY <1>2, <1>4, <1>7, ShortPageIsAll
  <2>2. ASSUME NEW p \in 1..t.began
        PROVE  p \in all
    <3>1. block[p] < t.from \/ t.from <= block[p]
      BY <1>1, <1>6 DEF Gathered
    <3>2. QED
      BY <1>1, <1>2, <1>4, <2>1, <3>1 DEF Gathered
  <2>3. QED
    BY <1>1, <1>5, <1>7, <2>2, ListingKept
<1>8. CASE Discovery!FallBack(c)
  BY <1>1, <1>8, FallsBack
<1>9. CASE /\ Cardinality(logs) = PageSize
           /\ Discovery!Update(c, [t EXCEPT !.got = all, !.page = @ + 1,
                                    !.asked = Len(block), !.from = Discovery!NextFrom(logs)])
           /\ UNCHANGED cache /\ Discovery!Environment
  <2>1. PICK from, u : /\ from = Discovery!NextFrom(logs)
                       /\ u = [t EXCEPT !.got = all, !.page = @ + 1,
                                        !.asked = Len(block), !.from = from]
                       /\ caller' = [caller EXCEPT ![c] = u]
    BY <1>9 DEF Discovery!Update
  <2>2. UNCHANGED <<service, block, born, discoveryNow, cache>>
    BY <1>9 DEF Discovery!Environment
  <2>3. logs # {}
    BY <1>9, FS_EmptySet, DiscoveryParams
  <2>4. from \in Nat /\ \A p \in 1..t.began : block[p] < from => p \in all
    BY <1>1, <1>2, <2>1, <2>3, NextPage
  <2>5. CallerOK(u)
    <3> HIDE DEF t
    <3>1. /\ IsCaller(u) /\ u.at = t.at /\ u.got = all /\ u.from = from /\ u.began = t.began
          /\ u.asked = Len(block) /\ u.knew = t.knew
      BY <1>1, <2>1 DEF CallerOK, IsCaller
    <3>2. Gathered(u)
      BY <1>1, <1>5, <1>6, <2>4, <3>1 DEF Gathered
    <3>3. QED
      BY <1>1, <3>1, <3>2 DEF CallerOK
  <2>6. QED
    BY <2>1, <2>2, <2>5, CallerGoesOn
<1>10. QED
  BY <1>2, <1>3, <1>7, <1>8, <1>9

LEMMA RefusedStep ==
    ASSUME DiscoveryInv, NEW c \in Callers,
           Discovery!FetchPairRefused(c) \/ Discovery!FetchPageRefused(c)
    PROVE  DiscoveryInv'
<1>1. caller[c].at = "fetch"
  BY DEF Discovery!FetchPairRefused, Discovery!FetchPageRefused
<1>2. PICK pools \in {{}, caller[c].got} :
        Discovery!Listed(c, pools, TRUE) \/ Discovery!FallBack(c)
  BY DEF Discovery!FetchPairRefused, Discovery!FetchPageRefused
<1>3. pools \subseteq Nat \ {0}
  BY <1>1, <1>2 DEF DiscoveryInv, CallerOK, Gathered
<1>4. QED
  BY <1>1, <1>2, <1>3, ListingKept, FallsBack

LEMMA FetchFailsStep ==
    ASSUME DiscoveryInv, NEW c \in Callers, Discovery!FetchFails(c)
    PROVE  DiscoveryInv'
  BY FallsBack DEF Discovery!FetchFails

LEMMA CreateStep == DiscoveryInv /\ Discovery!Create => DiscoveryInv'
<1> SUFFICES ASSUME DiscoveryInv, Discovery!Create
             PROVE  DiscoveryInv'
  OBVIOUS
<1> DEFINE n == Len(block)
<1>1. /\ ChainOK /\ n \in Nat /\ Pools = 1..n /\ Pools \subseteq Nat
      /\ \A p \in Pools : block[p] \in Nat /\ born[p] \in Nat
      /\ block \in Seq(Nat) /\ born \in Seq(Nat) /\ Len(born) = n /\ discoveryNow \in Nat
  BY ChainFacts DEF DiscoveryInv, ChainOK
<1>2. PICK last : last = IF block = <<>> THEN 0 ELSE block[Len(block)]
  OBVIOUS
<1>3. last \in Nat /\ \A p \in Pools : block[p] <= last
  <2>1. CASE block = <<>>
    BY <1>1, <1>2, <2>1
  <2>2. CASE block # <<>>
    <3>1. n \in Pools /\ last = block[n]
      BY <1>1, <1>2, <2>2
    <3>2. \A p \in Pools : p <= n
      BY <1>1
    <3>3. QED
      BY <1>1, <3>1, <3>2 DEF ChainOK
  <2>3. QED
    BY <2>1, <2>2
<1>4. PICK b \in {Discovery!Max({last, 1}), last + 1} : block' = Append(block, b)
  BY <1>2 DEF Discovery!Create
<1>5. b \in Nat /\ last <= b
  <2>1. {last, 1} \subseteq Nat /\ \A x \in {last, 1} : x <= last + 1
    BY <1>3
  <2>2. last + 1 \in Nat /\ {last, 1} # {}
    BY <1>3
  <2>3. Discovery!Max({last, 1}) \in {last, 1} /\ last <= Discovery!Max({last, 1})
    BY <2>1, <2>2, MaxIsGreatest
  <2>4. QED
    BY <1>3, <1>4, <2>3
<1>6. /\ born' = Append(born, discoveryNow)
      /\ UNCHANGED <<service, cache, caller, discoveryNow>>
  BY DEF Discovery!Create
<1>7. /\ block' \in Seq(Nat) /\ born' \in Seq(Nat) /\ Len(block') = n + 1 /\ Len(born') = n + 1
      /\ block'[n + 1] = b /\ born'[n + 1] = discoveryNow
      /\ \A p \in 1..n : block'[p] = block[p] /\ born'[p] = born[p]
  BY <1>1, <1>4, <1>5, <1>6
<1>8. /\ Pools' = 1..(n + 1) /\ \A p \in Pools' : p \in Pools \/ p = n + 1
      /\ \A p \in Pools : p \in Pools' /\ p <= n
  BY <1>1, <1>7 DEF Pools, Discovery!Created
<1>9. ASSUME NEW p \in Pools', NEW q \in Pools', p <= q
      PROVE  block'[p] <= block'[q]
  <2>1. CASE p \in Pools /\ q \in Pools
    BY <1>1, <1>7, <1>9, <2>1 DEF ChainOK
  <2>2. CASE p \in Pools /\ q = n + 1
    <3>1. block'[p] = block[p] /\ block'[q] = b /\ block[p] \in Nat /\ block[p] <= last
      BY <1>1, <1>3, <1>7, <2>2
    <3>2. QED
      BY <1>3, <1>5, <3>1
  <2>3. CASE p = n + 1 /\ q \in Pools
    BY <1>1, <1>8, <1>9, <2>3
  <2>4. CASE p = n + 1 /\ q = n + 1
    BY <1>5, <1>7, <2>4
  <2>5. QED
    BY <1>8, <2>1, <2>2, <2>3, <2>4
<1>10. ChainOK'
  BY <1>1, <1>6, <1>7, <1>9 DEF ChainOK
<1>11. n <= n + 1 /\ \A k : k \in 0..n => k \in 0..(n + 1)
  BY <1>1
<1>12. EntryOK'
  <2>1. EntryOK
    BY DEF DiscoveryInv
  <2>2. \A p \in Pools' : p \in Pools \/ born'[p] = discoveryNow
    BY <1>7, <1>8
  <2>3. \A p \in Pools : born'[p] = born[p]
    BY <1>1, <1>7
  <2>4. cache.at <= discoveryNow + HttpTimeout
    BY <1>1, <2>1, DiscoveryParams DEF EntryOK
  <2>5. cache'.began \in 0..Len(block') /\ cache'.at \in 0..discoveryNow'
    BY <1>6, <1>7, <1>11, <2>1 DEF EntryOK
  <2>6. QED
    BY <1>6, <2>1, <2>2, <2>3, <2>4, <2>5 DEF EntryOK
<1>13. ASSUME NEW t, CallerOK(t)
       PROVE  CallerOK(t)'
  <2>1. ASSUME Gathered(t)
        PROVE  Gathered(t)'
    <3>1. t.began \in Nat /\ t.asked \in Nat /\ t.began <= n /\ t.asked <= n /\ t.began <= t.asked
      BY <1>1, <2>1 DEF Gathered
    <3>2. t.began \in 0..(n + 1) /\ t.asked \in t.began..(n + 1)
      BY <1>1, <3>1
    <3>3. \A p \in 1..t.began : block'[p] = block[p]
      BY <1>1, <1>7, <3>1
    <3>4. QED
      BY <1>7, <2>1, <3>2, <3>3 DEF Gathered
  <2>2. ASSUME WithinLimit(t)
        PROVE  WithinLimit(t)'
    <3>1. \A p \in Pools' : (p \in Pools /\ born'[p] = born[p]) \/ born'[p] = discoveryNow
      BY <1>1, <1>7, <1>8
    <3>2. t.since <= discoveryNow
      BY <1>1, <2>2 DEF WithinLimit
    <3>3. QED
      BY <1>6, <2>2, <3>1, <3>2 DEF WithinLimit
  <2>3. QED
    BY <1>6, <1>13, <2>1, <2>2 DEF CallerOK
<1>14. QED
  BY <1>6, <1>10, <1>12, <1>13 DEF DiscoveryInv

\* Time passes only while no request of Uniswap is at its limit.
LEMMA DiscoveryTick == DiscoveryInv /\ Discovery!Tick => DiscoveryInv'
<1> SUFFICES ASSUME DiscoveryInv, Discovery!Tick
             PROVE  DiscoveryInv'
  OBVIOUS
<1>1. /\ discoveryNow' = discoveryNow + 1 /\ discoveryNow \in Nat /\ discoveryNow' \in Nat
      /\ UNCHANGED <<service, block, born, cache, caller>>
  BY DEF Discovery!Tick, DiscoveryInv, ChainOK
<1>2. \A n \in 0..discoveryNow : n \in 0..discoveryNow'
  BY <1>1
<1>3. ChainOK' /\ EntryOK'
  BY <1>1, <1>2 DEF DiscoveryInv, ChainOK, EntryOK, Pools, Discovery!Created
<1>4. ASSUME NEW c \in Callers
      PROVE  CallerOK(caller[c])'
  <2>1. CallerOK(caller[c])
    BY DEF DiscoveryInv
  <2>2. ASSUME WithinLimit(caller[c]), caller[c].at = "fetch", service = "uniswap"
        PROVE  WithinLimit(caller[c])'
    <3>1. discoveryNow < caller[c].since + HttpTimeout
      BY <2>2 DEF Discovery!Tick, Discovery!MayWait
    <3>2. caller[c].since \in 0..discoveryNow
      BY <2>2 DEF WithinLimit
    <3>3. discoveryNow' <= caller[c].since + HttpTimeout
      BY <1>1, <3>1, <3>2, DiscoveryParams
    <3>4. QED
      BY <1>1, <1>2, <2>2, <3>3 DEF WithinLimit, Pools, Discovery!Created
  <2>3. QED
    BY <1>1, <2>1, <2>2 DEF CallerOK, Gathered
<1>5. QED
  BY <1>1, <1>3, <1>4 DEF DiscoveryInv

LEMMA DiscoveryStepInv ==
    DiscoveryInv /\ (Discovery!Next \/ UNCHANGED discovery) => DiscoveryInv'
<1>1. UNCHANGED discovery /\ DiscoveryInv => DiscoveryInv'
  BY DEF discovery, DiscoveryInv, ChainOK, EntryOK, CallerOK, Gathered, WithinLimit,
     Pools, Discovery!Created
<1>2. QED
  BY <1>1, LookupStep, FetchPairStep, FetchPageStep, RefusedStep, FetchFailsStep,
     CreateStep, DiscoveryTick DEF Discovery!Next

LEMMA DiscoveryCorrect == Spec => []DiscoveryInv
<1>1. Init => DiscoveryInv
  BY PartInit, DiscoveryInit
<1>2. DiscoveryInv /\ [Next]_vars => DiscoveryInv'
  BY PartStep, DiscoveryStepInv
<1>3. QED
  BY <1>1, <1>2, PTL DEF Spec

\* However the pages are cut and whatever is created between them, a listing
\* has every pool there was when its discovery began; and where Uniswap
\* answers from it, no pool it lacks is older than the TTL and the time limit.
\* (fetch_registered_pools_from_blockscout, fetch_markets_from_blockscout,
\* fetch_pool_keys_from_blockscout)
THEOREM ListingsAreCompleteCorrect == Spec => []ListingsAreComplete
<1>1. DiscoveryInv => ListingsAreComplete
  <2> SUFFICES ASSUME DiscoveryInv, cache.known, ~cache.refused
               PROVE  /\ 1..cache.began \subseteq cache.pools
                      /\ service = "uniswap" /\ Discovery!Young(cache) =>
                           \A p \in Pools \ cache.pools :
                             born[p] + TTL + HttpTimeout > discoveryNow
    BY DEF ListingsAreComplete, Pools
  <2>1. /\ 1..cache.began \subseteq cache.pools /\ cache.began \in Nat /\ cache.at \in Nat
        /\ service = "uniswap" =>
             \A p \in Pools : p > cache.began => cache.at <= born[p] + HttpTimeout
    BY DEF DiscoveryInv, EntryOK
  <2>2. ASSUME service = "uniswap", Discovery!Young(cache), NEW p \in Pools \ cache.pools
        PROVE  born[p] + TTL + HttpTimeout > discoveryNow
    <3>1. p \in Nat /\ p # 0 /\ born[p] \in Nat /\ discoveryNow \in Nat
      BY ChainFacts DEF DiscoveryInv, ChainOK
    <3>2. p > cache.began
      BY <2>1, <3>1
    <3>3. cache.at <= born[p] + HttpTimeout
      BY <2>1, <2>2, <3>2
    <3>4. discoveryNow < cache.at + TTL
      BY <2>2 DEF Discovery!Young
    <3>5. QED
      BY <2>1, <3>1, <3>3, <3>4, DiscoveryParams
  <2>3. QED
    BY <2>1, <2>2
<1>2. QED
  BY <1>1, DiscoveryCorrect, PTL

\* A pool that is listed stays so until a discovery that began before it was
\* created, or that the index refused, replaces the entry; and a request fails
\* for the index only when there was no entry as it began.
\* (the Err arms of discover_pool_keys, discover_registered_pools,
\* discover_markets)
THEOREM KnownPoolsAreKeptCorrect == Spec => KnownPoolsAreKept
<1> DEFINE Kept == /\ \A p \in cache.pools \ cache'.pools : cache'.refused \/ cache'.began < p
                   /\ \A c \in Callers : caller'[c].at = "failed" => ~caller'[c].knew
<1>1. DiscoveryInv /\ DiscoveryInv' /\ [Next]_vars => [Kept]_vars
  <2> SUFFICES ASSUME DiscoveryInv, DiscoveryInv', [Next]_vars
               PROVE  Kept
    OBVIOUS
  <2>1. ASSUME NEW c \in Callers, caller'[c].at = "failed"
        PROVE  ~caller'[c].knew
    BY <2>1 DEF DiscoveryInv, CallerOK
  <2>2. ASSUME NEW p \in cache.pools \ cache'.pools
        PROVE  cache'.refused \/ cache'.began < p
    <3>1. Discovery!Next /\ cache' # cache
      BY <2>2, PartStep DEF discovery
    <3>2. PICK c \in Callers :
            \/ Discovery!FetchPair(c) \/ Discovery!FetchPairRefused(c)
            \/ Discovery!FetchPage(c) \/ Discovery!FetchPageRefused(c)
      BY <3>1 DEF Discovery!Next, Discovery!Lookup, Discovery!FetchFails,
         Discovery!FallBack, Discovery!Failed, Discovery!Create, Discovery!Tick
    <3>3. \E pools, refused : Discovery!Listed(c, pools, refused)
      BY <3>1, <3>2 DEF Discovery!FetchPair, Discovery!FetchPairRefused,
         Discovery!FetchPage, Discovery!FetchPageRefused, Discovery!FallBack,
         Discovery!Failed
    <3>4. cache'.known
      BY <3>3 DEF Discovery!Listed
    <3>5. cache'.began \in Nat /\ p \in Nat /\ p # 0
          /\ (cache'.refused \/ 1..cache'.began \subseteq cache'.pools)
      BY <3>4 DEF DiscoveryInv, EntryOK
    <3>6. QED
      BY <2>2, <3>5
  <2>3. QED
    BY <2>1, <2>2
<1>2. QED
  BY <1>1, DiscoveryCorrect, PTL DEF Spec, KnownPoolsAreKept
-----------------------------------------------------------------------------
(* Issuance.  The counts are stated of rows and waiting requests given as  *)
(* parameters, so that the same lemmas serve before and after a step.      *)

W == Issuance!WindowLength

\* Requests let in from x on and before y: those that have their row, and
\* those that wait for it.
Rows(rows, x, y) == {k \in rows : x <= k.since /\ k.since < y}
Inserting(vs) == {v \in Visitors : vs[v].at = "insert"}
Waiting(vs, x, y) == {v \in Inserting(vs) : x <= vs[v].since /\ vs[v].since < y}
Entered(rows, vs, x, y) == Cardinality(Rows(rows, x, y)) + Cardinality(Waiting(vs, x, y))

CounterOK(c, n) ==
    /\ c = [count |-> c.count, expires |-> c.expires, since |-> c.since]
    /\ c.count \in Nat
    /\ c.count > 0 => c.since \in 0..n /\ c.expires = c.since + W /\ n < c.expires

BooksOK(rows, vs, n) ==
    /\ n \in Nat
    /\ IsFiniteSet(rows) /\ IsFiniteSet(Inserting(vs))
    /\ vs = [v \in Visitors |-> vs[v]]
    /\ \A k \in rows : k.since \in 0..n
    /\ \A v \in Inserting(vs) : vs[v].since \in 0..n

\* Whoever was let in or refused now met a counter that has not expired yet.
NoneNow(rows, vs, ps, n) ==
    /\ \A k \in rows : k.since < n
    /\ \A v \in Inserting(vs) : vs[v].since < n
    /\ \A p \in ps : p.refused < n

\* No more than the limit in the window of the counter, nor in the last window
\* length before it or, without a counter, before now.
Paced(c, rows, vs, n) ==
    /\ \A t \in Int : Entered(rows, vs, t, t + W) <= 2 * Limit
    /\ c.count > 0 =>
         /\ Entered(rows, vs, c.since, n + 1) <= c.count
         /\ Entered(rows, vs, c.since, n + 1) <= Limit
         /\ \A t \in Int : t > c.since - W => Entered(rows, vs, t, c.since) <= Limit
    /\ c.count = 0 =>
         \A t \in Int : t > n - W => Entered(rows, vs, t, n + 1) <= Limit

\* A refused client is sent away beyond the counter it met, up to the rounding.
PromiseOK(p, c, n) ==
    /\ p.refused \in 0..n /\ p.back \in Int
    /\ c.count > 0 /\ c.since <= p.refused => 2 * c.expires < 2 * p.back + Second

InvOf(c, rows, vs, ps, n) ==
    /\ CounterOK(c, n) /\ BooksOK(rows, vs, n)
    /\ \A p \in ps : PromiseOK(p, c, n)
    /\ Limit = 0 => ps = {}
    /\ Limit > 0 => Paced(c, rows, vs, n) /\ (c.count = 0 => NoneNow(rows, vs, ps, n))

IssuanceInv == InvOf(counter, issued, visitor, promises, issuanceNow)
LEMMA WindowParams == Limit \in Nat /\ Second \in Nat /\ Second # 0 /\ W \in Nat /\ W # 0
<1>1. Limit \in Nat /\ Second \in Nat /\ Second # 0 /\ WindowSecs \in Nat
  BY ServicesAssumption DEF ServicesAssumption
<1>2. PICK secs \in Nat \ {0} : secs = IF WindowSecs > 1 THEN WindowSecs ELSE 1
  BY <1>1
<1>3. W = secs * Second
  BY <1>2 DEF W, Issuance!WindowLength
<1>4. secs * Second \in Nat /\ secs * Second # 0
  BY <1>1, <1>2
<1>5. QED
  BY <1>1, <1>3, <1>4

\* What Redis rounds is less than half a second short.
LEMMA TtlReaches ==
    ASSUME NEW rest \in Nat, NEW ttl \in Nat, ttl = (2 * rest + Second) \div (2 * Second),
           NEW m \in Nat, ttl <= m
    PROVE  2 * rest < 2 * (m * Second) + Second /\ m * Second \in Nat
<1>1. PICK s \in Nat \ {0} : s = Second
  BY WindowParams
<1>2. PICK x \in Nat, d \in Nat \ {0} : x = 2 * rest + s /\ d = 2 * s
  BY <1>1
<1>3. ttl = x \div d
  BY <1>1, <1>2
<1>4. x < d * ttl + d
  BY <1>2, <1>3
<1>5. d * ttl = 2 * (ttl * s) /\ ttl * s <= m * s /\ m * s \in Nat /\ ttl * s \in Nat
  BY <1>2
<1>6. QED
  BY <1>1, <1>2, <1>4, <1>5

LEMMA EnteredFinite ==
    ASSUME NEW rows, NEW vs, NEW n, BooksOK(rows, vs, n), NEW x \in Int, NEW y \in Int
    PROVE  /\ IsFiniteSet(Rows(rows, x, y)) /\ IsFiniteSet(Waiting(vs, x, y))
           /\ Cardinality(Rows(rows, x, y)) \in Nat /\ Cardinality(Waiting(vs, x, y)) \in Nat
           /\ Entered(rows, vs, x, y) \in Nat
<1>1. IsFiniteSet(Rows(rows, x, y)) /\ IsFiniteSet(Waiting(vs, x, y))
  BY FS_Subset DEF BooksOK, Rows, Waiting
<1>2. QED
  BY <1>1, FS_CardinalityType DEF Entered

\* A shorter period has no more, and the parts of a period together no less.
LEMMA EnteredWithin ==
    ASSUME NEW rows, NEW vs, NEW n, BooksOK(rows, vs, n),
           NEW x \in Int, NEW y \in Int, NEW u \in Int, NEW z \in Int, x <= u, z <= y
    PROVE  Entered(rows, vs, u, z) <= Entered(rows, vs, x, y)
<1>1. /\ \A k \in rows : k.since \in Nat
      /\ \A i \in Inserting(vs) : vs[i].since \in Nat
  BY DEF BooksOK
<1>2. Rows(rows, u, z) \subseteq Rows(rows, x, y) /\ Waiting(vs, u, z) \subseteq Waiting(vs, x, y)
  BY <1>1 DEF Rows, Waiting
<1>3. /\ Cardinality(Rows(rows, u, z)) <= Cardinality(Rows(rows, x, y))
      /\ Cardinality(Waiting(vs, u, z)) <= Cardinality(Waiting(vs, x, y))
  BY <1>2, EnteredFinite, FS_Subset
<1>4. /\ Cardinality(Rows(rows, u, z)) \in Nat /\ Cardinality(Rows(rows, x, y)) \in Nat
      /\ Cardinality(Waiting(vs, u, z)) \in Nat /\ Cardinality(Waiting(vs, x, y)) \in Nat
  BY EnteredFinite
<1>5. QED
  BY <1>3, <1>4 DEF Entered

LEMMA UnionBound ==
    ASSUME NEW S, NEW T, NEW U, IsFiniteSet(S), IsFiniteSet(T), U \subseteq S \cup T
    PROVE  Cardinality(U) <= Cardinality(S) + Cardinality(T)
<1>1. /\ IsFiniteSet(S \cup T) /\ IsFiniteSet(S \cap T)
      /\ Cardinality(S \cup T) = Cardinality(S) + Cardinality(T) - Cardinality(S \cap T)
  BY FS_Union, FS_Intersection
<1>2. IsFiniteSet(U) /\ Cardinality(U) <= Cardinality(S \cup T)
  BY <1>1, FS_Subset
<1>3. /\ Cardinality(S) \in Nat /\ Cardinality(T) \in Nat /\ Cardinality(S \cap T) \in Nat
      /\ Cardinality(U) \in Nat
  BY <1>1, <1>2, FS_CardinalityType
<1>4. QED
  BY <1>1, <1>2, <1>3

LEMMA EnteredParts ==
    ASSUME NEW rows, NEW vs, NEW n, BooksOK(rows, vs, n),
           NEW x \in Int, NEW y \in Int, NEW z \in Int
    PROVE  Entered(rows, vs, x, y) <= Entered(rows, vs, x, z) + Entered(rows, vs, z, y)
<1>1. /\ \A k \in rows : k.since \in Nat
      /\ \A i \in Inserting(vs) : vs[i].since \in Nat
  BY DEF BooksOK
<1>2. /\ Rows(rows, x, y) \subseteq Rows(rows, x, z) \cup Rows(rows, z, y)
      /\ Waiting(vs, x, y) \subseteq Waiting(vs, x, z) \cup Waiting(vs, z, y)
  BY <1>1 DEF Rows, Waiting
<1>3. /\ Cardinality(Rows(rows, x, y)) <= Cardinality(Rows(rows, x, z)) + Cardinality(Rows(rows, z, y))
      /\ Cardinality(Waiting(vs, x, y)) <= Cardinality(Waiting(vs, x, z)) + Cardinality(Waiting(vs, z, y))
  BY <1>2, EnteredFinite, UnionBound
<1>4. /\ Cardinality(Rows(rows, x, y)) \in Nat /\ Cardinality(Rows(rows, x, z)) \in Nat
      /\ Cardinality(Rows(rows, z, y)) \in Nat /\ Cardinality(Waiting(vs, x, y)) \in Nat
      /\ Cardinality(Waiting(vs, x, z)) \in Nat /\ Cardinality(Waiting(vs, z, y)) \in Nat
  BY EnteredFinite
<1>5. QED
  BY <1>3, <1>4 DEF Entered


LEMMA NoneEntered ==
    ASSUME NEW rows, NEW vs, NEW n, BooksOK(rows, vs, n), NEW x \in Int, NEW y \in Int,
           \A k \in rows : k.since < x, \A v \in Inserting(vs) : vs[v].since < x
    PROVE  Entered(rows, vs, x, y) = 0
<1>1. /\ \A k \in rows : k.since \in Nat
      /\ \A i \in Inserting(vs) : vs[i].since \in Nat
  BY DEF BooksOK
<1>2. Rows(rows, x, y) = {} /\ Waiting(vs, x, y) = {}
  BY <1>1 DEF Rows, Waiting
<1>3. QED
  BY <1>2, FS_EmptySet DEF Entered

\* Nobody has entered in the future.
LEMMA EnteredUntilNow ==
    ASSUME NEW rows, NEW vs, NEW n, BooksOK(rows, vs, n), NEW x \in Int, NEW y \in Int
    PROVE  Entered(rows, vs, x, y) <= Entered(rows, vs, x, n + 1)
<1>1. n \in Nat /\ n + 1 \in Int
  BY DEF BooksOK
<1>2. Entered(rows, vs, n + 1, y) = 0
  <2>1. /\ \A k \in rows : k.since < n + 1
        /\ \A v \in Inserting(vs) : vs[v].since < n + 1
    BY <1>1 DEF BooksOK
  <2>2. QED
    BY <1>1, <2>1, NoneEntered
<1>3. Entered(rows, vs, x, y) <= Entered(rows, vs, x, n + 1) + Entered(rows, vs, n + 1, y)
  BY <1>1, EnteredParts
<1>4. Entered(rows, vs, x, n + 1) \in Nat /\ Entered(rows, vs, x, y) \in Nat
  BY <1>1, EnteredFinite
<1>5. QED
  BY <1>2, <1>3, <1>4
-----------------------------------------------------------------------------
(* What a step does to the counts.                                         *)

\* A request is let in now.
LEMMA EnteredLetIn ==
    ASSUME NEW rows, NEW vs, NEW n, BooksOK(rows, vs, n), NEW v \in Visitors, vs[v].at = "away",
           NEW ws, ws = [vs EXCEPT ![v] = [at |-> "insert", since |-> n]]
    PROVE  /\ BooksOK(rows, ws, n)
           /\ \A x, y \in Int :
                /\ Entered(rows, ws, x, y) <= Entered(rows, vs, x, y) + 1
                /\ ~(x <= n /\ n < y) => Entered(rows, ws, x, y) <= Entered(rows, vs, x, y)
<1>1. /\ ws = [w \in Visitors |-> ws[w]]
      /\ ws[v] = [at |-> "insert", since |-> n]
      /\ \A w \in Visitors : w # v => ws[w] = vs[w]
  BY DEF BooksOK
<1>2. Inserting(ws) = Inserting(vs) \cup {v} /\ v \notin Inserting(vs)
  BY <1>1 DEF Inserting
<1>3. IsFiniteSet(Inserting(ws))
  BY <1>2, FS_AddElement DEF BooksOK
<1>4. BooksOK(rows, ws, n)
  BY <1>1, <1>2, <1>3 DEF BooksOK, Inserting
<1>5. ASSUME NEW x \in Int, NEW y \in Int
      PROVE  /\ Entered(rows, ws, x, y) <= Entered(rows, vs, x, y) + 1
             /\ ~(x <= n /\ n < y) => Entered(rows, ws, x, y) <= Entered(rows, vs, x, y)
  <2>1. /\ IsFiniteSet(Waiting(vs, x, y)) /\ Cardinality(Rows(rows, x, y)) \in Nat
        /\ Cardinality(Waiting(vs, x, y)) \in Nat /\ Cardinality(Waiting(ws, x, y)) \in Nat
    BY <1>4, EnteredFinite
  <2>2. Waiting(ws, x, y) \subseteq Waiting(vs, x, y) \cup {v}
    BY <1>1, <1>2 DEF Waiting, Inserting
  <2>3. Cardinality(Waiting(ws, x, y)) <= Cardinality(Waiting(vs, x, y)) + 1
    <3>1. IsFiniteSet({v}) /\ Cardinality({v}) = 1
      BY FS_Singleton
    <3>2. QED
      BY <2>1, <2>2, <3>1, UnionBound
  <2>4. ASSUME ~(x <= n /\ n < y)
        PROVE  Cardinality(Waiting(ws, x, y)) <= Cardinality(Waiting(vs, x, y))
    <3>1. Waiting(ws, x, y) \subseteq Waiting(vs, x, y)
      BY <1>1, <1>2, <2>2, <2>4 DEF Waiting
    <3>2. QED
      BY <2>1, <3>1, FS_Subset
  <2>5. QED
    BY <2>1, <2>3, <2>4 DEF Entered
<1>6. QED
  BY <1>4, <1>5

\* A request that was let in gets its row, or fails.
LEMMA EnteredStored ==
    ASSUME NEW rows, NEW vs, NEW n, BooksOK(rows, vs, n), NEW v \in Visitors, vs[v].at = "insert",
           NEW r, r.since = vs[v].since,
           NEW stored, stored = rows \/ stored = rows \cup {r},
           NEW ws, ws = [w \in Visitors |-> ws[w]], ws[v].at = "away",
           \A w \in Visitors : w # v => ws[w] = vs[w]
    PROVE  /\ BooksOK(stored, ws, n)
           /\ \A x, y \in Int : Entered(stored, ws, x, y) <= Entered(rows, vs, x, y)
<1>1. Inserting(ws) = Inserting(vs) \ {v} /\ v \in Inserting(vs)
  BY DEF Inserting
<1>2. IsFiniteSet(Inserting(ws)) /\ IsFiniteSet(stored)
  BY <1>1, FS_Subset, FS_AddElement DEF BooksOK
<1>3. BooksOK(stored, ws, n)
  <2>1. \A k \in stored : k.since \in 0..n
    BY <1>1 DEF BooksOK
  <2>2. \A w \in Inserting(ws) : ws[w].since \in 0..n
    BY <1>1 DEF BooksOK, Inserting
  <2>3. QED
    BY <1>2, <2>1, <2>2 DEF BooksOK
<1>4. ASSUME NEW x \in Int, NEW y \in Int
      PROVE  Entered(stored, ws, x, y) <= Entered(rows, vs, x, y)
  <2>1. /\ IsFiniteSet(Waiting(vs, x, y)) /\ IsFiniteSet(Rows(rows, x, y))
        /\ Cardinality(Rows(rows, x, y)) \in Nat /\ Cardinality(Rows(stored, x, y)) \in Nat
        /\ Cardinality(Waiting(vs, x, y)) \in Nat /\ Cardinality(Waiting(ws, x, y)) \in Nat
    BY <1>3, EnteredFinite
  <2>2. CASE x <= r.since /\ r.since < y
    <3>1. Waiting(ws, x, y) = Waiting(vs, x, y) \ {v} /\ v \in Waiting(vs, x, y)
      BY <1>1, <2>2 DEF Waiting, Inserting
    <3>2. Cardinality(Waiting(ws, x, y)) = Cardinality(Waiting(vs, x, y)) - 1
      BY <2>1, <3>1, FS_RemoveElement
    <3>3. Rows(stored, x, y) \subseteq Rows(rows, x, y) \cup {r}
      BY DEF Rows
    <3>4. IsFiniteSet({r}) /\ Cardinality({r}) = 1
      BY FS_Singleton
    <3>5. Cardinality(Rows(stored, x, y)) <= Cardinality(Rows(rows, x, y)) + 1
      BY <2>1, <3>3, <3>4, UnionBound
    <3>6. QED
      BY <2>1, <3>2, <3>5 DEF Entered
  <2>3. CASE ~(x <= r.since /\ r.since < y)
    <3>1. Waiting(ws, x, y) \subseteq Waiting(vs, x, y)
      BY <1>1 DEF Waiting, Inserting
    <3>2. Rows(stored, x, y) \subseteq Rows(rows, x, y)
      BY <2>3 DEF Rows
    <3>3. /\ Cardinality(Waiting(ws, x, y)) <= Cardinality(Waiting(vs, x, y))
          /\ Cardinality(Rows(stored, x, y)) <= Cardinality(Rows(rows, x, y))
      BY <2>1, <3>1, <3>2, FS_Subset
    <3>4. QED
      BY <2>1, <3>3 DEF Entered
  <2>4. QED
    BY <2>2, <2>3
<1>5. QED
  BY <1>3, <1>4

\* INCR: one more, in the window that runs or in one that starts now.
LEMMA CountedFacts ==
    ASSUME NEW c, NEW n \in Nat, c = counter, n = issuanceNow, CounterOK(c, n),
           NEW d, d = Issuance!Counted
    PROVE  /\ d.count = c.count + 1 /\ d.count \in Nat /\ d.count > 0
           /\ c.count = 0 => d.since = n
           /\ c.count > 0 => d.since = c.since /\ d.expires = c.expires
           /\ d.since \in 0..n /\ d.expires \in Nat /\ n < d.expires
           /\ CounterOK(d, n)
<1>1. W \in Nat /\ W # 0 /\ c.count \in Nat
  BY WindowParams DEF CounterOK
<1>2. CASE c.count = 0
  <2>1. d = [count |-> 1, expires |-> n + W, since |-> n]
    BY <1>2 DEF Issuance!Counted, W
  <2>2. d.count = 1 /\ d.expires = n + W /\ d.since = n
    BY <2>1
  <2>3. QED
    BY <1>1, <1>2, <2>1, <2>2 DEF CounterOK
<1>3. CASE c.count # 0
  <2>1. PICK k \in Nat : k = c.count + 1 /\ k > 0
    BY <1>1
  <2>2. d = [c EXCEPT !.count = k]
    BY <1>3, <2>1 DEF Issuance!Counted
  <2>3. /\ d.count = k /\ d.since = c.since /\ d.expires = c.expires
        /\ d = [count |-> d.count, expires |-> d.expires, since |-> d.since]
    BY <2>2 DEF CounterOK
  <2>4. c.count > 0
    BY <1>1, <1>3
  <2>5. c.since \in 0..n /\ c.expires = c.since + W /\ n < c.expires
    BY <2>4 DEF CounterOK
  <2>6. QED
    BY <1>1, <1>3, <2>1, <2>3, <2>4, <2>5 DEF CounterOK
<1>4. QED
  BY <1>2, <1>3

\* The counter is one more, and at most one request came in, if it still may.
LEMMA CountedPaced ==
    ASSUME NEW c, NEW n, NEW rows, NEW vs, NEW ps, Limit > 0,
           CounterOK(c, n), BooksOK(rows, vs, n), Paced(c, rows, vs, n),
           c.count = 0 => NoneNow(rows, vs, ps, n),
           NEW d, d.count = c.count + 1, d.since \in 0..n,
           c.count = 0 => d.since = n, c.count > 0 => d.since = c.since,
           NEW ws, BooksOK(rows, ws, n),
           \/ ws = vs
           \/ /\ d.count <= Limit
              /\ \A x, y \in Int :
                   /\ Entered(rows, ws, x, y) <= Entered(rows, vs, x, y) + 1
                   /\ ~(x <= n /\ n < y) => Entered(rows, ws, x, y) <= Entered(rows, vs, x, y)
    PROVE  Paced(d, rows, ws, n)
<1>1. /\ n \in Nat /\ n + 1 \in Int /\ Limit \in Nat /\ W \in Nat /\ W # 0 /\ c.count \in Nat
      /\ d.since \in Int /\ d.since <= n /\ d.count # 0
  BY WindowParams DEF BooksOK, CounterOK
<1>2. PICK s \in Int : s = d.since
  BY <1>1
<1>3. /\ \A x, y \in Int : Entered(rows, vs, x, y) \in Nat
      /\ \A x, y \in Int : Entered(rows, ws, x, y) \in Nat
  BY EnteredFinite
<1>4. \A x, y \in Int :
        /\ Entered(rows, ws, x, y) <= Entered(rows, vs, x, y) + 1
        /\ ~(x <= n /\ n < y) => Entered(rows, ws, x, y) <= Entered(rows, vs, x, y)
  <2>1. CASE ws = vs
    <3>1. ASSUME NEW e \in Nat
          PROVE  e <= e + 1 /\ e <= e
      OBVIOUS
    <3>2. QED
      BY <1>3, <2>1, <3>1
  <2>2. CASE ws # vs
    BY <2>2
  <2>3. QED
    BY <2>1, <2>2
\* Before the request, from the start of its counter on and before it.
<1>5. Entered(rows, vs, s, n + 1) <= c.count /\ Entered(rows, vs, s, n + 1) <= Limit
  <2>1. CASE c.count = 0
    <3>1. Entered(rows, vs, n, n + 1) = 0
      BY <1>1, <2>1, NoneEntered DEF NoneNow
    <3>2. QED
      BY <1>1, <1>2, <2>1, <3>1
  <2>2. CASE c.count > 0
    BY <1>2, <2>2 DEF Paced
  <2>3. QED
    BY <1>1, <2>1, <2>2
<1>6. ASSUME NEW t \in Int, t > s - W
      PROVE  Entered(rows, vs, t, s) <= Limit
  <2>1. CASE c.count = 0
    <3>1. Entered(rows, vs, t, n + 1) <= Limit
      BY <1>2, <1>6, <2>1 DEF Paced
    <3>2. Entered(rows, vs, t, s) <= Entered(rows, vs, t, n + 1)
      BY <1>2, EnteredUntilNow
    <3>3. Entered(rows, vs, t, s) \in Nat /\ Entered(rows, vs, t, n + 1) \in Nat
      BY <1>1, <1>3
    <3>4. QED
      BY <1>1, <3>1, <3>2, <3>3
  <2>2. CASE c.count > 0
    BY <1>2, <1>6, <2>2 DEF Paced
  <2>3. QED
    BY <1>1, <2>1, <2>2
\* And after it.
<1>7. Entered(rows, ws, s, n + 1) <= d.count /\ Entered(rows, ws, s, n + 1) <= Limit
  <2>1. /\ Entered(rows, vs, s, n + 1) \in Nat /\ Entered(rows, ws, s, n + 1) \in Nat
        /\ Entered(rows, ws, s, n + 1) <= Entered(rows, vs, s, n + 1) + 1
    BY <1>1, <1>3, <1>4
  <2>2. CASE ws = vs
    BY <1>1, <1>5, <2>1, <2>2
  <2>3. CASE d.count <= Limit
    BY <1>1, <1>5, <2>1, <2>3
  <2>4. QED
    BY <2>2, <2>3
<1>8. ASSUME NEW t \in Int, t > s - W
      PROVE  Entered(rows, ws, t, s) <= Limit
  <2>1. /\ Entered(rows, vs, t, s) \in Nat /\ Entered(rows, ws, t, s) \in Nat
        /\ Entered(rows, ws, t, s) <= Entered(rows, vs, t, s)
    <3>1. ~(t <= n /\ n < s)
      BY <1>1, <1>2
    <3>2. Entered(rows, ws, t, s) <= Entered(rows, vs, t, s)
      BY <1>2, <1>4, <3>1
    <3>3. QED
      BY <1>2, <1>3, <3>2
  <2>2. QED
    BY <1>1, <1>6, <1>8, <2>1
<1>9. ASSUME NEW t \in Int
      PROVE  Entered(rows, ws, t, t + W) <= 2 * Limit
  <2>1. PICK u \in Int : u = t + W
    BY <1>1
  <2>2. /\ Entered(rows, vs, t, u) \in Nat /\ Entered(rows, ws, t, u) \in Nat
        /\ Entered(rows, vs, t, u) <= 2 * Limit
        /\ Entered(rows, ws, t, u) <= Entered(rows, vs, t, u) + 1
        /\ ~(t <= n /\ n < u) => Entered(rows, ws, t, u) <= Entered(rows, vs, t, u)
    BY <1>3, <1>4, <2>1 DEF Paced
  <2>3. CASE ws = vs \/ ~(t <= n /\ n < u)
    BY <1>1, <2>1, <2>2, <2>3
  <2>4. CASE ws # vs /\ t <= n /\ n < u
    <3>1. t > s - W
      BY <1>1, <1>2, <2>1, <2>4
    <3>2. Entered(rows, ws, t, u) <= Entered(rows, ws, t, s) + Entered(rows, ws, s, u)
      BY <1>2, <2>1, EnteredParts
    <3>3. Entered(rows, ws, s, u) <= Entered(rows, ws, s, n + 1)
      BY <1>2, <2>1, EnteredUntilNow
    <3>4. /\ Entered(rows, ws, t, s) \in Nat /\ Entered(rows, ws, s, u) \in Nat
          /\ Entered(rows, ws, s, n + 1) \in Nat
      BY <1>1, <1>2, <1>3, <2>1
    <3>5. QED
      BY <1>1, <1>7, <1>8, <2>1, <2>2, <3>1, <3>2, <3>3, <3>4
  <2>5. QED
    BY <2>3, <2>4
<1>10. QED
  BY <1>1, <1>2, <1>7, <1>8, <1>9 DEF Paced

\* No more have entered, at the same counter.
LEMMA FewerPaced ==
    ASSUME NEW c, NEW n, NEW rows, NEW vs, CounterOK(c, n), BooksOK(rows, vs, n),
           Paced(c, rows, vs, n),
           NEW stored, NEW ws, BooksOK(stored, ws, n),
           \A x, y \in Int : Entered(stored, ws, x, y) <= Entered(rows, vs, x, y)
    PROVE  Paced(c, stored, ws, n)
<1>1. n \in Nat /\ n + 1 \in Int /\ Limit \in Nat /\ W \in Nat /\ c.count \in Nat
  BY WindowParams DEF BooksOK, CounterOK
<1>2. \A x, y \in Int : Entered(rows, vs, x, y) \in Nat /\ Entered(stored, ws, x, y) \in Nat
  BY EnteredFinite
<1>3. \A x, y \in Int : \A most \in Nat :
        Entered(rows, vs, x, y) <= most => Entered(stored, ws, x, y) <= most
  BY <1>2
<1>4. \A t \in Int : Entered(stored, ws, t, t + W) <= 2 * Limit
  BY <1>1, <1>3 DEF Paced
<1>5. CASE c.count > 0
  <2>1. PICK s \in Int : s = c.since
    BY <1>5 DEF CounterOK
  <2>2. QED
    BY <1>1, <1>3, <1>4, <1>5, <2>1 DEF Paced
<1>6. CASE c.count = 0
  BY <1>1, <1>3, <1>4, <1>6 DEF Paced
<1>7. QED
  BY <1>1, <1>5, <1>6

\* Time passes, and the counter is dropped when its window is over.
LEMMA TickPaced ==
    ASSUME NEW c, NEW n, NEW rows, NEW vs, CounterOK(c, n), BooksOK(rows, vs, n),
           Paced(c, rows, vs, n),
           NEW d, d = IF c.count > 0 /\ c.expires <= n + 1 THEN Issuance!NoCounter ELSE c
    PROVE  Paced(d, rows, vs, n + 1) /\ CounterOK(d, n + 1) /\ BooksOK(rows, vs, n + 1)
<1>1. n \in Nat /\ n + 1 \in Nat /\ n + 1 \in Int /\ n + 2 \in Int /\ (n + 1) + 1 = n + 2
      /\ Limit \in Nat /\ W \in Nat /\ W # 0 /\ c.count \in Nat
  BY WindowParams DEF BooksOK, CounterOK
<1>2. BooksOK(rows, vs, n + 1)
  BY <1>1 DEF BooksOK
<1>3. \A x, y \in Int : Entered(rows, vs, x, y) \in Nat
  BY EnteredFinite
<1>4. \A x \in Int : Entered(rows, vs, x, n + 2) <= Entered(rows, vs, x, n + 1)
  BY <1>1, EnteredUntilNow
<1>5. \A t \in Int : Entered(rows, vs, t, t + W) <= 2 * Limit
  BY DEF Paced
<1>6. CASE c.count = 0
  <2>1. d = c
    BY <1>6
  <2>2. ASSUME NEW t \in Int, t > n + 1 - W
        PROVE  Entered(rows, vs, t, n + 2) <= Limit
    <3>1. Entered(rows, vs, t, n + 1) <= Limit
      BY <1>1, <1>6, <2>2 DEF Paced
    <3>2. QED
      BY <1>1, <1>3, <1>4, <3>1
  <2>3. QED
    BY <1>1, <1>2, <1>5, <1>6, <2>1, <2>2 DEF Paced, CounterOK
<1>7. CASE c.count > 0
  <2>1. PICK s \in Nat : s \in Int /\ s = c.since /\ c.expires = s + W /\ n < s + W /\ s <= n
    BY <1>1, <1>7 DEF CounterOK
  <2>2. /\ Entered(rows, vs, s, n + 1) <= c.count /\ Entered(rows, vs, s, n + 1) <= Limit
        /\ \A t \in Int : t > s - W => Entered(rows, vs, t, s) <= Limit
    BY <1>7, <2>1 DEF Paced
  <2>3. /\ Entered(rows, vs, s, n + 2) <= c.count /\ Entered(rows, vs, s, n + 2) <= Limit
    <3>1. /\ Entered(rows, vs, s, n + 2) \in Nat /\ Entered(rows, vs, s, n + 1) \in Nat
          /\ Entered(rows, vs, s, n + 2) <= Entered(rows, vs, s, n + 1)
      <4>1. Entered(rows, vs, s, n + 2) \in Nat
        BY <1>1, <1>3, <2>1
      <4>2. Entered(rows, vs, s, n + 1) \in Nat
        BY <1>1, <1>3, <2>1
      <4>3. QED
        BY <1>4, <2>1, <4>1, <4>2
    <3>2. QED
      BY <1>1, <2>2, <3>1
  <2>4. CASE c.expires <= n + 1
    <3>1. s = n + 1 - W
      BY <1>1, <2>1, <2>4
    <3>2. d = Issuance!NoCounter /\ d.count = 0
      BY <1>7, <2>4 DEF Issuance!NoCounter
    <3>3. ASSUME NEW t \in Int, t > n + 1 - W
          PROVE  Entered(rows, vs, t, n + 2) <= Limit
      <4>1. Entered(rows, vs, t, n + 2) <= Entered(rows, vs, s, n + 2)
        BY <1>1, <2>1, <3>1, <3>3, EnteredWithin
      <4>2. Entered(rows, vs, t, n + 2) \in Nat /\ Entered(rows, vs, s, n + 2) \in Nat
        BY <1>1, <1>3, <2>1
      <4>3. QED
        BY <1>1, <2>3, <4>1, <4>2
    <3>4. CounterOK(d, n + 1)
      BY <3>2 DEF CounterOK, Issuance!NoCounter
    <3>5. QED
      BY <1>1, <1>2, <1>5, <3>2, <3>3, <3>4 DEF Paced
  <2>5. CASE ~(c.expires <= n + 1)
    <3>1. d = c
      BY <2>5
    <3>2. CounterOK(d, n + 1)
      BY <1>1, <1>7, <2>1, <2>5, <3>1 DEF CounterOK
    <3>3. QED
      BY <1>1, <1>2, <1>5, <1>7, <2>1, <2>2, <2>3, <3>1, <3>2 DEF Paced
  <2>6. QED
    BY <2>4, <2>5
<1>8. QED
  BY <1>1, <1>6, <1>7
-----------------------------------------------------------------------------
(* The steps.                                                              *)

\* What promises were made holds of the counter after a request too.
LEMMA CountedPromises ==
    ASSUME NEW c, NEW n, NEW rows, NEW vs, NEW ps, InvOf(c, rows, vs, ps, n), Limit > 0,
           c = counter, n = issuanceNow, NEW d, d = Issuance!Counted
    PROVE  \A p \in ps : PromiseOK(p, d, n)
<1>1. n \in Nat /\ CounterOK(c, n) /\ c.count \in Nat
  BY DEF InvOf, BooksOK, CounterOK
<1>2. /\ c.count = 0 => d.since = n
      /\ c.count > 0 => d.since = c.since /\ d.expires = c.expires
  BY <1>1, CountedFacts
<1>3. ASSUME NEW p \in ps
      PROVE  PromiseOK(p, d, n)
  <2>1. PromiseOK(p, c, n)
    BY DEF InvOf
  <2>2. CASE c.count > 0
    BY <1>2, <2>1, <2>2 DEF PromiseOK
  <2>3. CASE c.count = 0
    <3>1. p.refused < n /\ p.refused \in Nat
      BY <1>1, <2>1, <2>3 DEF InvOf, NoneNow, PromiseOK
    <3>2. QED
      BY <1>1, <1>2, <2>1, <2>3, <3>1 DEF PromiseOK
  <2>4. QED
    BY <1>1, <2>2, <2>3
<1>4. QED
  BY <1>3

\* And a client that is refused now is told to stay away long enough.
LEMMA NewPromise ==
    ASSUME NEW c, NEW n \in Nat, c = counter, n = issuanceNow, CounterOK(c, n),
           NEW d, d = Issuance!Counted,
           NEW p, p = [refused |-> n,
                       back |-> n + Issuance!Max({Issuance!Ttl(d), 1}) * Second]
    PROVE  PromiseOK(p, d, n)
<1>1. d.expires \in Nat /\ n < d.expires
  BY CountedFacts
<1>2. PICK rest \in Nat : rest = d.expires - n
  BY <1>1
<1>3. Second \in Nat \ {0}
  BY WindowParams
<1>4. PICK ttl \in Nat : ttl = (2 * rest + Second) \div (2 * Second)
  <2>1. PICK s \in Nat \ {0} : s = Second
    BY <1>3
  <2>2. 2 * rest + s \in Nat /\ 2 * s \in Nat \ {0}
    BY <1>2
  <2>3. (2 * rest + s) \div (2 * s) \in Nat
    BY <2>2
  <2>4. QED
    BY <2>1, <2>3
<1>5. Issuance!Ttl(d) = ttl
  BY <1>2, <1>4 DEF Issuance!Ttl
<1>6. PICK m \in Nat : m = Issuance!Max({ttl, 1}) /\ ttl <= m
  BY <1>4 DEF Issuance!Max
<1>7. 2 * rest < 2 * (m * Second) + Second /\ m * Second \in Nat
  BY <1>2, <1>4, <1>6, TtlReaches
<1>8. p.refused = n /\ p.back = n + m * Second
  BY <1>5, <1>6
<1>9. PICK e \in Nat : e = m * Second
  BY <1>7
<1>10. p.back = n + e /\ 2 * rest < 2 * e + Second
  BY <1>7, <1>8, <1>9
<1>11. QED
  BY <1>1, <1>2, <1>3, <1>8, <1>9, <1>10 DEF PromiseOK

LEMMA RequestKeyInv ==
    ASSUME NEW v \in Visitors, IssuanceInv, Issuance!RequestKey(v)
    PROVE  IssuanceInv'
<1>1. PICK c, n, rows, vs, ps : /\ c = counter /\ n = issuanceNow /\ rows = issued
                                /\ vs = visitor /\ ps = promises
  OBVIOUS
<1>2. PICK d, ws, qs : d = counter' /\ ws = visitor' /\ qs = promises'
  OBVIOUS
<1>3. InvOf(c, rows, vs, ps, n)
  BY <1>1 DEF IssuanceInv
<1>4. /\ CounterOK(c, n) /\ BooksOK(rows, vs, n) /\ n \in Nat /\ c.count \in Nat
      /\ Limit \in Nat
  BY <1>3, WindowParams DEF InvOf, BooksOK, CounterOK
<1>5. /\ vs[v].at = "away" /\ rows = issued' /\ n = issuanceNow'
      /\ d = IF Limit = 0 THEN c ELSE Issuance!Counted
  BY <1>1, <1>2 DEF Issuance!RequestKey
<1>6. CASE Issuance!LetIn(d)
  <2>1. ws = [vs EXCEPT ![v] = [at |-> "insert", since |-> n]] /\ qs = ps
    BY <1>1, <1>2, <1>6 DEF Issuance!RequestKey
  <2>2. /\ BooksOK(rows, ws, n)
        /\ \A x, y \in Int :
             /\ Entered(rows, ws, x, y) <= Entered(rows, vs, x, y) + 1
             /\ ~(x <= n /\ n < y) => Entered(rows, ws, x, y) <= Entered(rows, vs, x, y)
    BY <1>4, <1>5, <2>1, EnteredLetIn
  <2>3. InvOf(d, rows, ws, qs, n)
    <3>1. CASE Limit = 0
      BY <1>3, <1>5, <2>1, <2>2, <3>1 DEF InvOf
    <3>2. CASE Limit > 0
      <4>1. d = Issuance!Counted
        BY <1>5, <3>2
      <4>2. /\ d.count = c.count + 1 /\ d.count > 0 /\ d.since \in 0..n /\ CounterOK(d, n)
            /\ c.count = 0 => d.since = n
            /\ c.count > 0 => d.since = c.since
        BY <1>1, <1>4, <4>1, CountedFacts
      <4>3. d.count <= Limit
        BY <1>6, <3>2 DEF Issuance!LetIn
      <4>4. Paced(c, rows, vs, n) /\ (c.count = 0 => NoneNow(rows, vs, ps, n))
        BY <1>3, <3>2 DEF InvOf
      <4>5. Paced(d, rows, ws, n)
        BY <1>4, <2>2, <3>2, <4>2, <4>3, <4>4, CountedPaced
      <4>6. \A p \in qs : PromiseOK(p, d, n)
        BY <1>1, <1>3, <2>1, <3>2, <4>1, CountedPromises
      <4>7. QED
        BY <1>4, <2>2, <3>2, <4>2, <4>5, <4>6 DEF InvOf
    <3>3. QED
      BY <1>4, <3>1, <3>2
  <2>4. QED
    BY <1>2, <1>5, <2>3 DEF IssuanceInv
<1>7. CASE ~Issuance!LetIn(d)
  <2>1. ws = vs /\ Limit > 0
    BY <1>1, <1>2, <1>4, <1>7 DEF Issuance!RequestKey, Issuance!LetIn
  <2>2. PICK p : p = [refused |-> n,
                      back |-> n + Issuance!Max({Issuance!Ttl(d), 1}) * Second]
    OBVIOUS
  <2>3. qs = ps \cup {p}
    <3>1. issuanceNow = n /\ ~Issuance!LetIn(counter')
      BY <1>1, <1>2, <1>7
    <3>2. promises' = promises \cup
             {[refused |-> issuanceNow,
               back |-> issuanceNow + Issuance!Max({Issuance!Ttl(counter'), 1}) * Second]}
      BY <3>1 DEF Issuance!RequestKey
    <3>3. QED
      BY <1>1, <1>2, <2>2, <3>2
  <2>4. d = Issuance!Counted
    BY <1>5, <2>1
  <2>5. /\ d.count = c.count + 1 /\ d.count > 0 /\ d.since \in 0..n /\ CounterOK(d, n)
        /\ c.count = 0 => d.since = n
        /\ c.count > 0 => d.since = c.since
    BY <1>1, <1>4, <2>4, CountedFacts
  <2>6. Paced(c, rows, vs, n) /\ (c.count = 0 => NoneNow(rows, vs, ps, n))
    BY <1>3, <2>1 DEF InvOf
  <2>7. Paced(d, rows, ws, n)
    BY <1>4, <2>1, <2>5, <2>6, CountedPaced
  <2>8. \A p2 \in ps : PromiseOK(p2, d, n)
    BY <1>1, <1>3, <2>1, <2>4, CountedPromises
  <2>9. PromiseOK(p, d, n)
    BY <1>1, <1>4, <2>2, <2>4, NewPromise
  <2>10. InvOf(d, rows, ws, qs, n)
    BY <1>4, <2>1, <2>3, <2>5, <2>7, <2>8, <2>9 DEF InvOf
  <2>11. QED
    BY <1>2, <1>5, <2>10 DEF IssuanceInv
<1>8. QED
  BY <1>6, <1>7

LEMMA LimiterFailsInv ==
    ASSUME NEW v \in Visitors, IssuanceInv, Issuance!LimiterFails(v)
    PROVE  IssuanceInv'
<1>1. PICK c, n, rows, vs, ps : /\ c = counter /\ n = issuanceNow /\ rows = issued
                                /\ vs = visitor /\ ps = promises
  OBVIOUS
<1>2. PICK d : d = counter'
  OBVIOUS
<1>3. InvOf(c, rows, vs, ps, n)
  BY <1>1 DEF IssuanceInv
<1>4. /\ CounterOK(c, n) /\ BooksOK(rows, vs, n) /\ n \in Nat /\ c.count \in Nat
      /\ Limit \in Nat
  BY <1>3, WindowParams DEF InvOf, BooksOK, CounterOK
<1>5. /\ rows = issued' /\ vs = visitor' /\ ps = promises' /\ n = issuanceNow'
      /\ d = c \/ (Limit > 0 /\ d = Issuance!Counted)
  BY <1>1, <1>2, <1>4 DEF Issuance!LimiterFails
<1>6. CASE d = c
  BY <1>2, <1>3, <1>5, <1>6 DEF IssuanceInv
<1>7. CASE Limit > 0 /\ d = Issuance!Counted
  <2>1. /\ d.count = c.count + 1 /\ d.count > 0 /\ d.since \in 0..n /\ CounterOK(d, n)
        /\ c.count = 0 => d.since = n
        /\ c.count > 0 => d.since = c.since
    BY <1>1, <1>4, <1>7, CountedFacts
  <2>2. Paced(c, rows, vs, n) /\ (c.count = 0 => NoneNow(rows, vs, ps, n))
    BY <1>3, <1>7 DEF InvOf
  <2>3. Paced(d, rows, vs, n)
    BY <1>4, <1>7, <2>1, <2>2, CountedPaced
  <2>4. \A p \in ps : PromiseOK(p, d, n)
    BY <1>1, <1>3, <1>7, CountedPromises
  <2>5. InvOf(d, rows, vs, ps, n)
    BY <1>4, <1>7, <2>1, <2>3, <2>4 DEF InvOf
  <2>6. QED
    BY <1>2, <1>5, <2>5 DEF IssuanceInv
<1>8. QED
  BY <1>5, <1>6, <1>7

LEMMA InsertRowInv ==
    ASSUME NEW v \in Visitors, IssuanceInv, Issuance!InsertRow(v)
    PROVE  IssuanceInv'
<1>1. PICK c, n, rows, vs, ps : /\ c = counter /\ n = issuanceNow /\ rows = issued
                                /\ vs = visitor /\ ps = promises
  OBVIOUS
<1>2. PICK stored, ws : stored = issued' /\ ws = visitor'
  OBVIOUS
<1>3. InvOf(c, rows, vs, ps, n)
  BY <1>1 DEF IssuanceInv
<1>4. CounterOK(c, n) /\ BooksOK(rows, vs, n) /\ n \in Nat /\ c.count \in Nat
  BY <1>3 DEF InvOf, BooksOK, CounterOK
<1>5. PICK r : r = [id |-> Issuance!Cardinality(rows) + 1, since |-> vs[v].since]
  OBVIOUS
<1>6. /\ vs[v].at = "insert" /\ stored \in {rows, rows \cup {r}}
      /\ ws = [vs EXCEPT ![v] = Issuance!Away]
      /\ c = counter' /\ ps = promises' /\ n = issuanceNow'
  BY <1>1, <1>2, <1>5 DEF Issuance!InsertRow
<1>7. r.since = vs[v].since
  BY <1>5
<1>8. /\ BooksOK(stored, ws, n)
      /\ \A x, y \in Int : Entered(stored, ws, x, y) <= Entered(rows, vs, x, y)
  <2>1. vs[v].at = "insert" /\ r.since = vs[v].since
    BY <1>6, <1>7
  <2>2. stored = rows \/ stored = rows \cup {r}
    BY <1>6
  <2>3. /\ ws = [w \in Visitors |-> ws[w]] /\ ws[v].at = "away"
        /\ \A w \in Visitors : w # v => ws[w] = vs[w]
    BY <1>4, <1>6 DEF BooksOK, Issuance!Away
  <2>4. BooksOK(rows, vs, n)
    BY <1>4
  <2>5. QED
    BY <2>1, <2>2, <2>3, <2>4, EnteredStored
<1>9. ASSUME Limit > 0
      PROVE  /\ Paced(c, stored, ws, n)
             /\ c.count = 0 => NoneNow(stored, ws, ps, n)
  <2>1. Paced(c, stored, ws, n)
    BY <1>3, <1>4, <1>8, <1>9, FewerPaced DEF InvOf
  <2>2. ASSUME c.count = 0
        PROVE  NoneNow(stored, ws, ps, n)
    <3>1. NoneNow(rows, vs, ps, n)
      BY <1>3, <1>9, <2>2 DEF InvOf
    <3>2. r.since < n
      BY <1>6, <1>7, <3>1 DEF NoneNow, Inserting
    <3>3. \A w \in Inserting(ws) : w \in Inserting(vs) /\ ws[w] = vs[w]
      BY <1>4, <1>6 DEF Inserting, BooksOK, Issuance!Away
    <3>4. QED
      BY <1>6, <3>1, <3>2, <3>3 DEF NoneNow
  <2>3. QED
    BY <2>1, <2>2
<1>10. InvOf(c, stored, ws, ps, n)
  BY <1>3, <1>4, <1>8, <1>9 DEF InvOf
<1>11. QED
  BY <1>2, <1>6, <1>10 DEF IssuanceInv

LEMMA IssuanceTickInv ==
    ASSUME IssuanceInv, Issuance!Tick
    PROVE  IssuanceInv'
<1>1. PICK c, n, rows, vs, ps : /\ c = counter /\ n = issuanceNow /\ rows = issued
                                /\ vs = visitor /\ ps = promises
  OBVIOUS
<1>2. PICK d : d = counter'
  OBVIOUS
<1>3. InvOf(c, rows, vs, ps, n)
  BY <1>1 DEF IssuanceInv
<1>4. /\ CounterOK(c, n) /\ BooksOK(rows, vs, n) /\ n \in Nat /\ c.count \in Nat
      /\ Limit \in Nat
  BY <1>3, WindowParams DEF InvOf, BooksOK, CounterOK
<1>5. /\ rows = issued' /\ vs = visitor' /\ ps = promises' /\ issuanceNow' = n + 1
      /\ d = IF c.count > 0 /\ c.expires <= n + 1 THEN Issuance!NoCounter ELSE c
  BY <1>1, <1>2 DEF Issuance!Tick
<1>6. d = c \/ d.count = 0
  BY <1>5 DEF Issuance!NoCounter
<1>7. \A p \in ps : PromiseOK(p, d, n + 1) /\ p.refused < n + 1
  BY <1>3, <1>4, <1>6 DEF InvOf, PromiseOK
<1>8. BooksOK(rows, vs, n + 1) /\ CounterOK(d, n + 1)
  <2>1. BooksOK(rows, vs, n + 1)
    BY <1>4 DEF BooksOK
  <2>2. CASE c.count > 0 /\ c.expires <= n + 1
    <3>1. d = Issuance!NoCounter
      BY <1>5, <2>2
    <3>2. QED
      BY <2>1, <3>1 DEF CounterOK, Issuance!NoCounter
  <2>3. CASE ~(c.count > 0 /\ c.expires <= n + 1)
    <3>1. d = c
      BY <1>5, <2>3
    <3>2. W \in Nat
      BY WindowParams
    <3>3. QED
      BY <1>4, <2>1, <2>3, <3>1, <3>2 DEF CounterOK
  <2>4. QED
    BY <2>2, <2>3
<1>9. ASSUME Limit > 0
      PROVE  Paced(d, rows, vs, n + 1) /\ NoneNow(rows, vs, ps, n + 1)
  <2>1. Paced(d, rows, vs, n + 1)
    BY <1>3, <1>4, <1>5, <1>9, TickPaced DEF InvOf
  <2>2. NoneNow(rows, vs, ps, n + 1)
    BY <1>4, <1>7 DEF NoneNow, BooksOK
  <2>3. QED
    BY <2>1, <2>2
<1>10. InvOf(d, rows, vs, ps, n + 1)
  BY <1>3, <1>7, <1>8, <1>9 DEF InvOf
<1>11. QED
  BY <1>2, <1>5, <1>10 DEF IssuanceInv

LEMMA IssuanceInit == Init => IssuanceInv
<1> SUFFICES ASSUME Init PROVE IssuanceInv
  OBVIOUS
<1>1. /\ counter = Issuance!NoCounter /\ visitor = [v \in Visitors |-> Issuance!Away]
      /\ issued = {} /\ promises = {} /\ issuanceNow = 0
  BY PartInit DEF Issuance!Init
<1>2. PICK c, n, rows, vs, ps : /\ c = counter /\ n = issuanceNow /\ rows = issued
                                /\ vs = visitor /\ ps = promises
  OBVIOUS
<1>3. CounterOK(c, n) /\ c.count = 0
  BY <1>1, <1>2 DEF CounterOK, Issuance!NoCounter
<1>4. Inserting(vs) = {}
  BY <1>1, <1>2 DEF Inserting, Issuance!Away
<1>5. BooksOK(rows, vs, n)
  BY <1>1, <1>2, <1>4, FS_EmptySet DEF BooksOK
<1>6. \A x, y \in Int : Entered(rows, vs, x, y) = 0
  <2>1. \A x, y \in Int : Rows(rows, x, y) = {} /\ Waiting(vs, x, y) = {}
    BY <1>1, <1>2, <1>4 DEF Rows, Waiting
  <2>2. Cardinality({}) + Cardinality({}) = 0
    BY FS_EmptySet
  <2>3. QED
    BY <2>1, <2>2, Zenon DEF Entered
<1>7. Paced(c, rows, vs, n)
  <2>1. W \in Nat /\ Limit \in Nat /\ n \in Nat /\ n + 1 \in Int /\ 0 <= Limit /\ 0 <= 2 * Limit
    BY WindowParams, <1>1, <1>2
  <2>2. \A t \in Int : t + W \in Int
    BY <2>1
  <2>3. QED
    BY <1>3, <1>6, <2>1, <2>2 DEF Paced
<1>8. NoneNow(rows, vs, ps, n)
  BY <1>1, <1>2, <1>4 DEF NoneNow
<1>9. InvOf(c, rows, vs, ps, n)
  BY <1>1, <1>2, <1>3, <1>5, <1>7, <1>8 DEF InvOf
<1>10. QED
  BY <1>2, <1>9 DEF IssuanceInv

LEMMA IssuanceCorrect == Spec => []IssuanceInv
<1>1. IssuanceInv /\ [Next]_vars => IssuanceInv'
  <2> SUFFICES ASSUME IssuanceInv, [Next]_vars PROVE IssuanceInv'
    OBVIOUS
  <2>1. CASE UNCHANGED issuance
    BY <2>1 DEF issuance, IssuanceInv
  <2>2. CASE Issuance!Next
    BY <2>2, RequestKeyInv, LimiterFailsInv, InsertRowInv, IssuanceTickInv DEF Issuance!Next
  <2>3. QED
    BY <2>1, <2>2, PartStep
<1>2. QED
  BY IssuanceInit, <1>1, PTL DEF Spec

(* A client gets at most twice PUBLIC_API_KEY_LIMIT keys in any period of  *)
(* one window, counted when they were let in, whatever requests, failing   *)
(* commands and slow inserts come between; and when it is refused, coming  *)
(* back after retry_after it finds that window over                        *)
(* (enforce_api_key_issuance_limit, routes/mod.rs:1849-1890).              *)
THEOREM IssuanceKeepsItsWindowCorrect == Spec => []IssuanceKeepsItsWindow
<1>1. IssuanceInv => IssuanceKeepsItsWindow
  <2> SUFFICES ASSUME IssuanceInv PROVE IssuanceKeepsItsWindow
    OBVIOUS
  <2>1. PICK c, n, rows, vs, ps : /\ c = counter /\ n = issuanceNow /\ rows = issued
                                  /\ vs = visitor /\ ps = promises
    OBVIOUS
  <2>2. InvOf(c, rows, vs, ps, n)
    BY <2>1 DEF IssuanceInv
  <2>3. CounterOK(c, n) /\ BooksOK(rows, vs, n) /\ n \in Nat /\ c.count \in Nat
    BY <2>2 DEF InvOf, BooksOK, CounterOK
  <2>4. ASSUME Limit > 0, NEW t \in 0..IssuanceTime
        PROVE  Cardinality({k \in rows : t <= k.since /\ k.since < t + W}) <= 2 * Limit
    <3>1. IssuanceTime \in Nat
      BY ServicesAssumption DEF ServicesAssumption
    <3>2. t \in Int /\ t + W \in Int /\ Limit \in Nat
      BY <3>1, WindowParams
    <3>3. Entered(rows, vs, t, t + W) <= 2 * Limit
      BY <2>2, <2>4, <3>2 DEF InvOf, Paced
    <3>4. /\ Cardinality(Rows(rows, t, t + W)) \in Nat
          /\ Cardinality(Waiting(vs, t, t + W)) \in Nat
      BY <2>3, <3>2, EnteredFinite
    <3>5. Cardinality(Rows(rows, t, t + W)) <= 2 * Limit
      BY <3>2, <3>3, <3>4 DEF Entered
    <3>6. QED
      BY <3>5 DEF Rows
  <2>5. ASSUME NEW p \in ps, 2 * (n - p.back) >= Second, c.count # 0
        PROVE  c.since > p.refused
    <3>1. PromiseOK(p, c, n)
      BY <2>2 DEF InvOf
    <3>2. c.since \in Nat /\ c.expires \in Int /\ n < c.expires /\ p.refused \in Nat /\ p.back \in Int
      BY <2>3, <2>5, <3>1, WindowParams DEF CounterOK, PromiseOK
    <3>3. CASE c.since <= p.refused
      <4>1. 2 * c.expires < 2 * p.back + Second
        BY <2>3, <2>5, <3>1, <3>3 DEF PromiseOK
      <4>2. QED
        BY <2>3, <2>5, <3>2, <4>1, WindowParams
    <3>4. QED
      BY <3>2, <3>3
  <2>6. QED
    BY <2>1, <2>4, <2>5 DEF IssuanceKeepsItsWindow, W
<1>2. QED
  BY <1>1, IssuanceCorrect, PTL
=============================================================================
