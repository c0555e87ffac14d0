-------------------------- MODULE RateLimiterProofs --------------------------
(***************************************************************************)
(* The token buckets grant what the rate allows, for any number of keys    *)
(* and tasks, any rate, burst and grace.                                   *)
(***************************************************************************)
EXTENDS RateLimiter, TLAPS

\* A task holds a clock reading that is at most MaxLag old.
RecentTasks ==
    \A t \in Tasks :
        task[t] # Idle => task[t].now <= clock /\ clock <= task[t].now + MaxLag

\* The books of key k: what was admitted and what is left come from the first
\* burst, the time up to last_refill and the rewinds.  Without a bucket, a task
\* that makes a full one reads the clock after the old one had refilled.
Books(k) ==
    /\ bucket[k] # NoBucket =>
          /\ bucket[k].last_refill <= clock
          /\ spent[k] + bucket[k].tokens
                <= Capacity + bucket[k].last_refill + rewound[k]
    /\ bucket[k] = NoBucket =>
          spent[k] = 0 \/ spent[k] + MaxLag <= clock + rewound[k]

LimiterInv ==
    /\ TypeOK
    /\ RecentTasks
    /\ sweep # NoSweep => sweep <= clock
    /\ \A k \in Keys : Books(k)
-----------------------------------------------------------------------------
LEMMA Params ==
    /\ Cost \in Nat \ {0} /\ Capacity \in Nat /\ Cost <= Capacity
    /\ Grace \in Nat /\ MaxLag \in Nat /\ MaxLag <= Grace /\ MaxClock \in Nat
    /\ NoSweep = MaxClock + 1 /\ NoPromise = MaxClock + Cost + 1
  BY LimiterAssumption DEF NoSweep, NoPromise

LEMMA NoBucketIsNone == NoBucket \notin Bucket
  BY Params DEF NoBucket, Bucket

\* A bucket that is in use.
LEMMA BucketFields ==
    ASSUME TypeOK, NEW k \in Keys, bucket[k] # NoBucket
    PROVE  /\ bucket[k] \in Bucket
           /\ bucket[k].tokens \in 0..Capacity
           /\ bucket[k].last_refill \in 0..MaxClock
  BY DEF TypeOK, Bucket

\* The bucket a check works on keeps the books at the time it reads.
LEMMA EntryBooks ==
    ASSUME LimiterInv, NEW t \in Tasks, task[t] # Idle
    PROVE  LET k == task[t].key
               now == task[t].now
               b == Entry(k, now)
           IN  /\ k \in Keys /\ now \in 0..MaxClock /\ now <= clock
               /\ b.tokens \in 0..Capacity /\ b.last_refill \in 0..MaxClock
               /\ spent[k] \in Nat /\ rewound[k] \in Nat
               /\ spent[k] + b.tokens <= Capacity + b.last_refill + rewound[k]
<1> DEFINE k == task[t].key
           now == task[t].now
<1>1. k \in Keys /\ now \in 0..MaxClock
  BY Params DEF LimiterInv, TypeOK, Idle
<1>2. clock \in Nat /\ spent[k] \in Nat /\ rewound[k] \in Nat
  BY <1>1 DEF LimiterInv, TypeOK
<1>3. now <= clock /\ clock <= now + MaxLag
  BY DEF LimiterInv, RecentTasks
<1>4. Books(k)
  BY <1>1 DEF LimiterInv
<1>5. CASE bucket[k] = NoBucket
  <2>1. spent[k] <= now + rewound[k]
    <3> HIDE DEF k, now
    <3> QED BY <1>1, <1>2, <1>3, <1>4, <1>5, Params DEF Books
  <2>2. Entry(k, now).tokens = Capacity /\ Entry(k, now).last_refill = now
    BY <1>5 DEF Entry
  <2> HIDE DEF k, now
  <2>3. spent[k] + Capacity <= Capacity + now + rewound[k] /\ Capacity \in 0..Capacity
    BY <1>1, <1>2, <2>1, Params
  <2>4. QED
    BY <1>1, <1>2, <1>3, <2>2, <2>3 DEF k, now
<1>6. CASE bucket[k] # NoBucket
  <2>1. Entry(k, now) = bucket[k]
    BY <1>6 DEF Entry
  <2>2. bucket[k].tokens \in 0..Capacity /\ bucket[k].last_refill \in 0..MaxClock
    BY <1>1, <1>6, BucketFields DEF LimiterInv
  <2>3. QED
    BY <1>1, <1>2, <1>3, <1>4, <1>6, <2>1, <2>2 DEF Books
<1>7. QED
  BY <1>5, <1>6
-----------------------------------------------------------------------------
LEMMA LimiterInit == Init => LimiterInv
<1> SUFFICES ASSUME Init
             PROVE  LimiterInv
  OBVIOUS
<1>1. TypeOK
  BY Params DEF Init, TypeOK
<1>2. QED
  BY <1>1, Params DEF Init, LimiterInv, RecentTasks, Books

\* Time passes: tasks get older, idle keys gain.
LEMMA TickStep == LimiterInv /\ Tick => LimiterInv'
<1> SUFFICES ASSUME LimiterInv, Tick
             PROVE  LimiterInv'
  OBVIOUS
<1>1. /\ clock \in Nat /\ clock' = clock + 1 /\ clock' \in 0..MaxClock
      /\ UNCHANGED <<bucket, task, sweep, unvisited, spent, rewound, promise>>
  BY Params DEF LimiterInv, TypeOK, Tick
<1>2. TypeOK'
  BY <1>1 DEF LimiterInv, TypeOK
<1>3. RecentTasks'
  <2>1. ASSUME NEW t \in Tasks, task[t] # Idle
        PROVE  task[t].now <= clock + 1 /\ clock + 1 <= task[t].now + MaxLag
    <3>1. task[t].now \in Nat
      BY <2>1, Params DEF LimiterInv, TypeOK
    <3>2. task[t].now <= clock /\ clock < task[t].now + MaxLag
      BY <2>1 DEF LimiterInv, RecentTasks, Tick
    <3>3. QED
      BY <1>1, <3>1, <3>2, Params
  <2>2. QED
    BY <1>1, <2>1 DEF RecentTasks
<1>4. ASSUME NEW k \in Keys
      PROVE  Books(k)'
  <2>1. Books(k) /\ spent[k] \in Nat /\ rewound[k] \in Nat
    BY DEF LimiterInv, TypeOK
  <2>2. bucket[k] # NoBucket => bucket[k].last_refill \in Nat
    BY BucketFields, Params DEF LimiterInv
  <2>3. QED
    BY <1>1, <2>1, <2>2, Params DEF Books
<1>5. sweep' # NoSweep => sweep' <= clock'
  <2>1. sweep # NoSweep => sweep \in Nat
    BY Params DEF LimiterInv, TypeOK
  <2>2. QED
    BY <1>1, <2>1, Params DEF LimiterInv
<1>6. QED
  BY <1>2, <1>3, <1>4, <1>5 DEF LimiterInv

\* A check moves tokens to the books, and counts what a late clock gives back.
LEMMA CheckStep == LimiterInv /\ (\E t \in Tasks : Check(t)) => LimiterInv'
<1> SUFFICES ASSUME LimiterInv, NEW t \in Tasks, Check(t)
             PROVE  LimiterInv'
  OBVIOUS
<1> DEFINE k == task[t].key
           now == task[t].now
           b == Entry(k, now)
           tokens == Refilled(b, now)
           lost == IF now < b.last_refill THEN b.last_refill - now ELSE 0
<1>1. /\ k \in Keys /\ now \in 0..MaxClock /\ now <= clock /\ clock \in 0..MaxClock
      /\ b.tokens \in 0..Capacity /\ b.last_refill \in 0..MaxClock
      /\ spent[k] \in Nat /\ rewound[k] \in Nat
      /\ spent[k] + b.tokens <= Capacity + b.last_refill + rewound[k]
  BY EntryBooks DEF Check, LimiterInv, TypeOK
<1>2. /\ tokens \in 0..Capacity /\ lost \in Nat
      /\ spent[k] + tokens <= Capacity + now + (rewound[k] + lost)
  <2>1. tokens = IF b.tokens + Elapsed(b, now) <= Capacity
                 THEN b.tokens + Elapsed(b, now) ELSE Capacity
    BY DEF Refilled, AtMost
  <2>2. CASE b.last_refill <= now
    <3>1. Elapsed(b, now) = now - b.last_refill /\ lost = 0
      <4>1. Elapsed(b, now) = now - b.last_refill
        BY <2>2 DEF Elapsed
      <4>2. ~(now < b.last_refill)
        <5> HIDE DEF now, b
        <5> QED BY <1>1, <2>2, Params
      <4>3. QED
        BY <4>1, <4>2
    <3> HIDE DEF k, now, b, tokens, lost
    <3>2. QED
      BY <1>1, <2>1, <2>2, <3>1, Params
  <2>3. CASE ~(b.last_refill <= now)
    <3>1. Elapsed(b, now) = 0 /\ lost = b.last_refill - now
      <4>1. Elapsed(b, now) = 0
        BY <2>3 DEF Elapsed
      <4>2. now < b.last_refill
        <5> HIDE DEF now, b
        <5> QED BY <1>1, <2>3, Params
      <4>3. QED
        BY <4>1, <4>2
    <3> HIDE DEF k, now, b, tokens, lost
    <3>2. QED
      BY <1>1, <2>1, <2>3, <3>1, Params
  <2>4. QED
    BY <2>2, <2>3
<1>3. /\ task' = [task EXCEPT ![t] = Idle]
      /\ rewound' = [rewound EXCEPT ![k] = rewound[k] + lost]
      /\ UNCHANGED <<clock, sweep, unvisited>>
  <2>1. /\ task' = [task EXCEPT ![t] = Idle]
        /\ rewound' = [rewound EXCEPT ![k] = IF now < b.last_refill
                                             THEN rewound[k] + (b.last_refill - now)
                                             ELSE rewound[k]]
        /\ UNCHANGED <<clock, sweep, unvisited>>
    BY DEF Check
  <2>2. (IF now < b.last_refill THEN rewound[k] + (b.last_refill - now) ELSE rewound[k])
           = rewound[k] + lost
    <3> HIDE DEF k, now, b
    <3> QED BY <1>1
  <2>3. QED
    BY <2>1, <2>2
<1>4. \/ /\ tokens >= Cost
         /\ bucket' = [bucket EXCEPT ![k] = [tokens |-> tokens - Cost, last_refill |-> now]]
         /\ spent' = [spent EXCEPT ![k] = spent[k] + Cost]
         /\ promise' = [promise EXCEPT ![k] = NoPromise]
      \/ /\ tokens < Cost
         /\ bucket' = [bucket EXCEPT ![k] = [tokens |-> tokens, last_refill |-> now]]
         /\ spent' = spent
         /\ promise' = [promise EXCEPT ![k] = now + (Cost - tokens)]
  BY DEF Check
<1> HIDE DEF k, now, b, tokens, lost
<1>5. PICK left, paid, due :
         /\ left \in 0..Capacity /\ paid \in Nat /\ due \in 0..NoPromise
         /\ paid + left = spent[k] + tokens
         /\ bucket' = [bucket EXCEPT ![k] = [tokens |-> left, last_refill |-> now]]
         /\ spent' = [spent EXCEPT ![k] = paid]
         /\ promise' = [promise EXCEPT ![k] = due]
  <2>1. CASE tokens >= Cost
    <3>1. /\ tokens - Cost \in 0..Capacity /\ spent[k] + Cost \in Nat
          /\ NoPromise \in 0..NoPromise
          /\ (spent[k] + Cost) + (tokens - Cost) = spent[k] + tokens
          /\ ~(tokens < Cost)
      BY <1>1, <1>2, <2>1, Params
    <3>2. QED
      BY <1>4, <3>1
  <2>2. CASE ~(tokens >= Cost)
    <3>1. now + (Cost - tokens) \in 0..NoPromise
      BY <1>1, <1>2, <2>2, Params
    <3>2. spent = [spent EXCEPT ![k] = spent[k]]
      BY <1>1 DEF LimiterInv, TypeOK
    <3>3. QED
      BY <1>1, <1>2, <1>4, <2>2, <3>1, <3>2
  <2>3. QED
    BY <2>1, <2>2
<1>6. [tokens |-> left, last_refill |-> now] \in Bucket
  BY <1>1, <1>5 DEF Bucket
<1>7. rewound[k] + lost \in Nat
  BY <1>1, <1>2
<1>8. TypeOK'
  BY <1>1, <1>3, <1>5, <1>6, <1>7 DEF LimiterInv, TypeOK
<1>9. RecentTasks'
  BY <1>3 DEF LimiterInv, TypeOK, RecentTasks
<1>10. ASSUME NEW j \in Keys
       PROVE  Books(j)'
  <2>1. CASE j = k
    <3>1. /\ bucket'[k] = [tokens |-> left, last_refill |-> now]
          /\ spent'[k] = paid /\ rewound'[k] = rewound[k] + lost
      BY <1>1, <1>3, <1>5 DEF LimiterInv, TypeOK
    <3>2. bucket'[k] # NoBucket
      BY <1>6, <3>1, NoBucketIsNone
    <3>3. paid + left <= Capacity + now + (rewound[k] + lost)
      BY <1>2, <1>5
    <3>4. QED
      BY <1>1, <1>3, <2>1, <3>1, <3>2, <3>3 DEF Books
  <2>2. CASE j # k
    <3>1. bucket'[j] = bucket[j] /\ spent'[j] = spent[j] /\ rewound'[j] = rewound[j]
      BY <1>3, <1>5, <2>2 DEF LimiterInv, TypeOK
    <3>2. QED
      BY <1>3, <3>1 DEF LimiterInv, Books
  <2>3. QED
    BY <2>1, <2>2
<1>11. QED
  BY <1>3, <1>8, <1>9, <1>10 DEF LimiterInv
-----------------------------------------------------------------------------
\* An evicted bucket had refilled before any task at its clock could return.
LEMMA VisitStep == LimiterInv /\ (\E k \in Keys : Visit(k)) => LimiterInv'
<1> SUFFICES ASSUME LimiterInv, NEW k \in Keys, Visit(k)
             PROVE  LimiterInv'
  OBVIOUS
<1>1. UNCHANGED <<clock, task, spent, rewound, promise>>
  BY DEF Visit
<1>2. \/ bucket' = bucket
      \/ /\ bucket[k] # NoBucket /\ Stale(bucket[k])
         /\ bucket' = [bucket EXCEPT ![k] = NoBucket]
  BY DEF Visit
<1>3. sweep \in 0..MaxClock /\ sweep <= clock /\ clock \in Nat
  BY Params DEF LimiterInv, TypeOK, Visit
<1>4. TypeOK' /\ (sweep' # NoSweep => sweep' <= clock')
  BY <1>1, <1>2, <1>3 DEF LimiterInv, TypeOK, Visit
<1>5. ASSUME NEW j \in Keys
      PROVE  Books(j)'
  <2>1. CASE bucket'[j] = bucket[j]
    BY <1>1, <2>1 DEF LimiterInv, Books
  <2>2. CASE bucket'[j] # bucket[j]
    <3>1. /\ j = k /\ bucket[k] # NoBucket /\ bucket'[k] = NoBucket
          /\ Stale(bucket[k])
      BY <1>2, <2>2 DEF LimiterInv, TypeOK
    <3>2. /\ bucket[k].tokens \in 0..Capacity /\ bucket[k].last_refill \in 0..MaxClock
          /\ spent[k] \in Nat /\ rewound[k] \in Nat
          /\ spent[k] + bucket[k].tokens
                <= Capacity + bucket[k].last_refill + rewound[k]
      BY <3>1, BucketFields DEF LimiterInv, TypeOK, Books
    <3>3. sweep >= bucket[k].last_refill + Capacity + Grace \/ Capacity + Grace = 0
      <4>1. CASE bucket[k].last_refill <= sweep
        <5>1. sweep - bucket[k].last_refill >= Capacity + Grace
          BY <3>1, <4>1 DEF Stale, Elapsed
        <5>2. QED
          BY <1>3, <3>2, <5>1, Params
      <4>2. CASE ~(bucket[k].last_refill <= sweep)
        <5>1. 0 >= Capacity + Grace
          BY <3>1, <4>2 DEF Stale, Elapsed
        <5>2. QED
          BY <5>1, Params
      <4>3. QED
        BY <4>1, <4>2
    <3>4. spent[k] + MaxLag <= clock + rewound[k]
      BY <1>3, <3>2, <3>3, Params
    <3>5. QED
      BY <1>1, <3>1, <3>4 DEF Books
  <2>3. QED
    BY <2>1, <2>2
<1>6. QED
  BY <1>1, <1>4, <1>5 DEF LimiterInv, RecentTasks

LEMMA LimiterStep == LimiterInv /\ [Next]_vars => LimiterInv'
<1> SUFFICES ASSUME LimiterInv, [Next]_vars
             PROVE  LimiterInv'
  OBVIOUS
<1>1. ASSUME NEW t \in Tasks, NEW k \in Keys, ReadClock(t, k)
      PROVE  LimiterInv'
  <2>1. clock \in 0..MaxClock /\ clock <= clock + MaxLag
    BY Params DEF LimiterInv, TypeOK
  <2>2. QED
    BY <1>1, <2>1 DEF ReadClock, LimiterInv, TypeOK, RecentTasks, Books
<1>2. CASE StartSweep
  <2>1. clock \in 0..MaxClock /\ clock <= clock /\ clock # NoSweep
    BY Params DEF LimiterInv, TypeOK
  <2>2. QED
    BY <1>2, <2>1 DEF StartSweep, LimiterInv, TypeOK, RecentTasks, Books
<1>3. CASE UNCHANGED vars
  BY <1>3 DEF vars, LimiterInv, TypeOK, RecentTasks, Books
<1>4. QED
  BY <1>1, <1>2, <1>3, TickStep, CheckStep, VisitStep DEF Next

\* A key is admitted at most its burst, its rate times the time, and what late
\* tasks rewound; creating, evicting and making a bucket again adds nothing.
\* (rate_limit/mod.rs:73-115)
THEOREM AdmissionsCorrect == Spec => []AdmissionsAccounted
<1>1. LimiterInv => AdmissionsAccounted
  <2> SUFFICES ASSUME LimiterInv, NEW k \in Keys
               PROVE  spent[k] <= Capacity + clock + rewound[k]
    BY DEF AdmissionsAccounted
  <2>1. Books(k) /\ spent[k] \in Nat /\ rewound[k] \in Nat /\ clock \in Nat
    BY DEF LimiterInv, TypeOK
  <2>2. CASE bucket[k] = NoBucket
    BY <2>1, <2>2, Params DEF Books
  <2>3. CASE bucket[k] # NoBucket
    <3>1. bucket[k].tokens \in Nat /\ bucket[k].last_refill \in Nat
      BY <2>3, BucketFields, Params DEF LimiterInv
    <3>2. QED
      BY <2>1, <2>3, <3>1, Params DEF Books
  <2>4. QED
    BY <2>2, <2>3
<1>2. Spec => []LimiterInv
  BY LimiterInit, LimiterStep, PTL DEF Spec
<1>3. QED
  BY <1>1, <1>2, PTL
-----------------------------------------------------------------------------
\* The last refusal of k promised no less than its bucket needs to refill.
Honoured(k) ==
    promise[k] # NoPromise /\ bucket[k] # NoBucket
        => bucket[k].last_refill + Cost <= promise[k] + bucket[k].tokens

HonourInv == \A k \in Keys : Honoured(k)

\* What a check finds and writes for its key.
LEMMA CheckFacts ==
    ASSUME LimiterInv, HonourInv, NEW t \in Tasks, Check(t)
    PROVE  LET k == task[t].key
               now == task[t].now
           IN  /\ k \in Keys /\ now \in 0..MaxClock
               /\ \A j \in Keys \ {k} : bucket'[j] = bucket[j] /\ promise'[j] = promise[j]
               /\ promise'[k] # NoPromise =>
                     bucket'[k].last_refill + Cost <= promise'[k] + bucket'[k].tokens
               /\ now >= promise[k] => spent'[k] > spent[k]
<1> DEFINE k == task[t].key
           now == task[t].now
           b == Entry(k, now)
           tokens == Refilled(b, now)
<1>1. /\ k \in Keys /\ now \in 0..MaxClock
      /\ b.tokens \in 0..Capacity /\ b.last_refill \in 0..MaxClock
      /\ spent[k] \in Nat
  BY EntryBooks DEF Check
<1>2. tokens \in Nat /\ tokens = AtMost(b.tokens + Elapsed(b, now), Capacity)
  <2> HIDE DEF k, now, b
  <2>1. Elapsed(b, now) \in Nat
    BY <1>1, Params DEF Elapsed
  <2>2. QED
    BY <1>1, <2>1, Params DEF AtMost, Refilled
<1>3. \/ /\ tokens >= Cost
         /\ bucket' = [bucket EXCEPT ![k] = [tokens |-> tokens - Cost, last_refill |-> now]]
         /\ spent' = [spent EXCEPT ![k] = @ + Cost]
         /\ promise' = [promise EXCEPT ![k] = NoPromise]
      \/ /\ tokens < Cost
         /\ bucket' = [bucket EXCEPT ![k] = [tokens |-> tokens, last_refill |-> now]]
         /\ promise' = [promise EXCEPT ![k] = now + (Cost - tokens)]
  BY DEF Check
<1>4. now >= promise[k] => tokens >= Cost
  <2> SUFFICES ASSUME now >= promise[k]
               PROVE  tokens >= Cost
    OBVIOUS
  <2>1. promise[k] \in Nat /\ promise[k] # NoPromise
    BY <1>1, Params DEF LimiterInv, TypeOK
  <2>2. CASE bucket[k] = NoBucket
    <3>1. b.tokens = Capacity /\ b.last_refill = now
      BY <2>2 DEF Entry
    <3> HIDE DEF k, now, b, tokens
    <3>2. QED
      BY <1>1, <1>2, <3>1, Params DEF Elapsed, AtMost
  <2>3. CASE bucket[k] # NoBucket
    <3>1. b = bucket[k]
      BY <2>3 DEF Entry
    <3>2. b.last_refill + Cost <= promise[k] + b.tokens
      BY <1>1, <2>1, <2>3, <3>1 DEF HonourInv, Honoured
    <3> HIDE DEF k, now, b, tokens
    <3>3. QED
      BY <1>1, <1>2, <2>1, <3>2, Params DEF Elapsed, AtMost
  <2>4. QED
    BY <2>2, <2>3
<1>5. bucket \in [Keys -> Bucket \cup {NoBucket}] /\ spent \in [Keys -> Nat]
      /\ promise \in [Keys -> 0..NoPromise]
  BY DEF LimiterInv, TypeOK
<1> HIDE DEF k, now, b, tokens
<1>6. \A j \in Keys \ {k} : bucket'[j] = bucket[j] /\ promise'[j] = promise[j]
  BY <1>3, <1>5
<1>7. CASE tokens >= Cost
  <2>1. spent'[k] = spent[k] + Cost /\ promise'[k] = NoPromise
    BY <1>1, <1>2, <1>3, <1>5, <1>7, Params
  <2>2. QED
    BY <1>1, <1>6, <2>1, Params DEF k, now
<1>8. CASE tokens < Cost
  <2>1. /\ bucket'[k] = [tokens |-> tokens, last_refill |-> now]
        /\ promise'[k] = now + (Cost - tokens)
    BY <1>1, <1>2, <1>3, <1>5, <1>8, Params
  <2>2. bucket'[k].last_refill + Cost <= promise'[k] + bucket'[k].tokens
    BY <1>1, <1>2, <2>1, Params
  <2>3. ~(now >= promise[k])
    BY <1>2, <1>4, <1>8, Params
  <2>4. QED
    BY <1>1, <1>6, <2>2, <2>3 DEF k, now
<1>9. QED
  BY <1>2, <1>7, <1>8, Params

LEMMA HonourStep == LimiterInv /\ HonourInv /\ [Next]_vars => HonourInv'
<1> SUFFICES ASSUME LimiterInv, HonourInv, [Next]_vars, NEW k \in Keys
             PROVE  Honoured(k)'
  BY DEF HonourInv
<1>1. ASSUME NEW t \in Tasks, Check(t)
      PROVE  Honoured(k)'
  <2>1. CASE k = task[t].key
    BY <1>1, <2>1, CheckFacts DEF Honoured
  <2>2. CASE k # task[t].key
    BY <1>1, <2>2, CheckFacts DEF Honoured, HonourInv
  <2>3. QED
    BY <2>1, <2>2
<1>2. ASSUME NEW j \in Keys, Visit(j)
      PROVE  Honoured(k)'
  <2>1. bucket'[k] \in {bucket[k], NoBucket} /\ promise' = promise
    BY <1>2 DEF Visit, LimiterInv, TypeOK
  <2>2. QED
    BY <2>1 DEF Honoured, HonourInv
<1>3. CASE UNCHANGED <<bucket, promise>>
  BY <1>3 DEF Honoured, HonourInv
<1>4. QED
  BY <1>1, <1>2, <1>3 DEF Next, vars, Tick, ReadClock, StartSweep

\* A client that was refused and comes back at the promised time is admitted,
\* unless another request of the key was admitted meanwhile, for any number of
\* keys and tasks: a refused check stores what the bucket had by its clock, so
\* neither a late task nor an eviction can make the promise too early.
\* (rate_limit/mod.rs:88-97)
THEOREM RetryAfterCorrect == Spec => RetryAfterHonoured
<1> DEFINE Kept(t) == task[t] # Idle /\ task'[t] = Idle /\ task[t].now >= promise[task[t].key]
                          => spent'[task[t].key] > spent[task[t].key]
<1>1. Init => LimiterInv /\ HonourInv
  BY LimiterInit DEF Init, HonourInv, Honoured
<1>2. LimiterInv /\ HonourInv /\ [Next]_vars => (LimiterInv /\ HonourInv)'
  BY LimiterStep, HonourStep
<1>3. LimiterInv /\ HonourInv /\ [Next]_vars => \A t \in Tasks : Kept(t)
  <2> SUFFICES ASSUME LimiterInv, HonourInv, [Next]_vars, NEW t \in Tasks
               PROVE  Kept(t)
    OBVIOUS
  <2>1. CASE Check(t)
    BY <2>1, CheckFacts
  <2>2. CASE task'[t] = task[t]
    BY <2>2
  <2>3. ASSUME NEW s \in Tasks, s # t, Check(s)
        PROVE  task'[t] = task[t]
    BY <2>3 DEF Check, LimiterInv, TypeOK
  <2>4. ASSUME NEW s \in Tasks, NEW k \in Keys, ReadClock(s, k)
        PROVE  task'[t] = task[t] \/ task[t] = Idle
    BY <2>4 DEF ReadClock, LimiterInv, TypeOK
  <2>5. QED
    BY <2>1, <2>2, <2>3, <2>4 DEF Next, vars, Tick, StartSweep, Visit
<1>4. QED
  BY <1>1, <1>2, <1>3, PTL DEF Spec, RetryAfterHonoured
=============================================================================
