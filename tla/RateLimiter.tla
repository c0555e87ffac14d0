----------------------------- MODULE RateLimiter -----------------------------
(***************************************************************************)
(* The token buckets of src/rate_limit/mod.rs.  A request task reads the   *)
(* clock, then takes the lock of its bucket; between the two other tasks   *)
(* may use the bucket, and the eviction task removes idle buckets.         *)
(*                                                                         *)
(* Tokens are counted in the ticks it takes to refill them: a request      *)
(* costs Cost = 1/rate ticks and a full bucket holds Capacity = burst/rate *)
(* ticks, so refilling adds the elapsed time.                              *)
(***************************************************************************)
EXTENDS Naturals

CONSTANTS
    Keys,         \* ids of API keys
    Tasks,        \* concurrent request tasks
    Cost,         \* 1 / rate
    Capacity,     \* burst / rate; at least one token
    Grace,        \* the minute evict_stale adds to the refill time
    MaxLag,       \* how long a task may take from the clock to the lock
    MaxClock      \* the end of the clock in one behaviour

ASSUME LimiterAssumption ==
    /\ Cost \in Nat \ {0} /\ Capacity \in Nat /\ Cost <= Capacity
    /\ Grace \in Nat /\ MaxLag \in Nat /\ MaxLag <= Grace
    /\ MaxClock \in Nat

VARIABLES
    clock,
    bucket,       \* bucket[k]: tokens and last_refill, or NoBucket
    task,         \* task[t]: the key and the `now` of a check, or Idle
    sweep,        \* `now` of a running evict_stale, or NoSweep
    unvisited,    \* keys evict_stale has not looked at yet
    spent,        \* history, spent[k]: Cost of all requests admitted for k
    rewound,      \* history, rewound[k]: ticks last_refill was moved back
    promise       \* history, promise[k]: when the last refusal said to come back

vars == <<clock, bucket, task, sweep, unvisited, spent, rewound, promise>>

NoBucket == [tokens |-> 0, last_refill |-> MaxClock + 1]

Bucket == [tokens : 0..Capacity, last_refill : 0..MaxClock]

Idle == [key |-> "none", now |-> MaxClock + 1]

NoSweep == MaxClock + 1

NoPromise == MaxClock + Cost + 1

TypeOK ==
    /\ clock \in 0..MaxClock
    /\ bucket \in [Keys -> Bucket \cup {NoBucket}]
    /\ task \in [Tasks -> [key : Keys, now : 0..MaxClock] \cup {Idle}]
    /\ sweep \in 0..MaxClock \cup {NoSweep}
    /\ unvisited \subseteq Keys
    /\ unvisited # {} => sweep # NoSweep
    /\ spent \in [Keys -> Nat]
    /\ rewound \in [Keys -> Nat]
    /\ promise \in [Keys -> 0..NoPromise]

Init ==
    /\ clock = 0
    /\ bucket = [k \in Keys |-> NoBucket]
    /\ task = [t \in Tasks |-> Idle]
    /\ sweep = NoSweep
    /\ unvisited = {}
    /\ spent = [k \in Keys |-> 0]
    /\ rewound = [k \in Keys |-> 0]
    /\ promise = [k \in Keys |-> NoPromise]
-----------------------------------------------------------------------------
AtMost(a, b) == IF a <= b THEN a ELSE b

\* Time passes, but no task stays between its clock and its lock for longer
\* than MaxLag.
Tick ==
    /\ clock < MaxClock
    /\ \A t \in Tasks : task[t] # Idle => clock < task[t].now + MaxLag
    /\ clock' = clock + 1
    /\ UNCHANGED <<bucket, task, sweep, unvisited, spent, rewound, promise>>

\* The first line of check: `now` is read before the entry is locked.
ReadClock(t, k) ==
    /\ task[t] = Idle
    /\ task' = [task EXCEPT ![t] = [key |-> k, now |-> clock]]
    /\ UNCHANGED <<clock, bucket, sweep, unvisited, spent, rewound, promise>>

\* The bucket of k, or the full one or_insert_with makes.
Entry(k, now) ==
    IF bucket[k] = NoBucket THEN [tokens |-> Capacity, last_refill |-> now]
                            ELSE bucket[k]

\* duration_since: zero when the bucket was used by a later clock.
Elapsed(b, now) == IF b.last_refill <= now THEN now - b.last_refill ELSE 0

\* Mutant of Refilled: the refill is rounded down to whole tokens.
RefilledWhole(b, now) ==
    AtMost(b.tokens + (Elapsed(b, now) \div Cost) * Cost, Capacity)

Refilled(b, now) == AtMost(b.tokens + Elapsed(b, now), Capacity)

\* The rest of check, under the lock of the entry.
Check(t) ==
    LET k == task[t].key
        now == task[t].now
        b == Entry(k, now)
        tokens == Refilled(b, now)
    IN  /\ task[t] # Idle
        /\ task' = [task EXCEPT ![t] = Idle]
        /\ rewound' = [rewound EXCEPT ![k] =
                          IF now < b.last_refill THEN @ + (b.last_refill - now) ELSE @]
        /\ \/ /\ tokens >= Cost
              /\ bucket' = [bucket EXCEPT ![k] =
                               [tokens |-> tokens - Cost, last_refill |-> now]]
              /\ spent' = [spent EXCEPT ![k] = @ + Cost]
              /\ promise' = [promise EXCEPT ![k] = NoPromise]
           \/ /\ tokens < Cost
              /\ bucket' = [bucket EXCEPT ![k] = [tokens |-> tokens, last_refill |-> now]]
              /\ promise' = [promise EXCEPT ![k] = now + (Cost - tokens)]
              /\ UNCHANGED spent
        /\ UNCHANGED <<clock, sweep, unvisited>>
-----------------------------------------------------------------------------
\* evict_stale reads the clock once, then looks at the buckets one by one.
StartSweep ==
    /\ sweep = NoSweep
    /\ sweep' = clock
    /\ unvisited' = Keys
    /\ UNCHANGED <<clock, bucket, task, spent, rewound, promise>>

\* Mutant of Stale: the time the bucket needs to refill is forgotten.
StaleAfterGrace(b) == Elapsed(b, sweep) >= Grace

Stale(b) == Elapsed(b, sweep) >= Capacity + Grace

\* retain looks at the key k, and drops its bucket when it is stale.
Visit(k) ==
    /\ k \in unvisited
    /\ bucket' = IF bucket[k] # NoBucket /\ Stale(bucket[k])
                 THEN [bucket EXCEPT ![k] = NoBucket]
                 ELSE bucket
    /\ unvisited' = unvisited \ {k}
    /\ sweep' = IF unvisited' = {} THEN NoSweep ELSE sweep
    /\ UNCHANGED <<clock, task, spent, rewound, promise>>

Next ==
    \/ Tick
    \/ \E t \in Tasks, k \in Keys : ReadClock(t, k)
    \/ \E t \in Tasks : Check(t)
    \/ StartSweep
    \/ \E k \in Keys : Visit(k)

Spec == Init /\ [][Next]_vars
-----------------------------------------------------------------------------
\* A key is never admitted more than its burst, its rate and the time by
\* which late tasks moved last_refill back; eviction gives it nothing.
\* (rate_limit/mod.rs:73-115)
AdmissionsAccounted ==
    \A k \in Keys : spent[k] <= Capacity + clock + rewound[k]

\* A client that was refused and comes back at the promised time is admitted,
\* unless another request of the key was admitted meanwhile: neither late
\* tasks nor eviction take its tokens away.  (rate_limit/mod.rs:88-97)
RetryAfterHonoured ==
    [][\A t \in Tasks :
          LET k == task[t].key
          IN  task[t] # Idle /\ task'[t] = Idle /\ task[t].now >= promise[k] =>
                  spent'[k] > spent[k]]_vars
=============================================================================
