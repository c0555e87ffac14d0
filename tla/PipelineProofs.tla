---------------------------- MODULE PipelineProofs ----------------------------
(***************************************************************************)
(* What is proved of the execution pipeline, for any number of requests and*)
(* workers, any limits and any backlog: its types; that what the platform  *)
(* says of an outcome is on the chain; where the jobs of a request are;    *)
(* that the pipeline implements JobDelivery; and the bounds on attempts,   *)
(* effects, failures, webhooks and statuses.                               *)
(***************************************************************************)
EXTENDS ExecutionPipeline, PipelineRefinement, SequencesExt, SequenceTheorems,
        FiniteSetTheorems, WellFoundedInduction, TLAPS

(* What the list operators that model Redis commands return.  The proofs   *)
(* of the pipeline cite these and never expand the operators.              *)

\* Every non-empty set of naturals has a least element, which Min returns.
LEMMA MinIsLeast ==
    ASSUME NEW S, S \subseteq Nat, S # {}
    PROVE  Min(S) \in S /\ \A n \in S : Min(S) <= n
<1> DEFINE R == {pair \in Nat \X Nat : pair[1] < pair[2]}
<1>1. IsWellFoundedOn(R, Nat)
  BY NatLessThanWellFounded DEF OpToRel
<1>2. \E x \in S : \A y \in S : <<y, x>> \notin R
  <2> HIDE DEF R
  <2> QED BY <1>1, WFMin
<1>3. \E x \in S : \A y \in S : x <= y
  <2>1. PICK x \in S : \A y \in S : <<y, x>> \notin R
    BY <1>2
  <2>2. ASSUME NEW y \in S
        PROVE  x <= y
    <3>1. x \in Nat /\ y \in Nat
      OBVIOUS
    <3>2. y < x => <<y, x>> \in R
      BY <3>1
    <3>3. ~(y < x)
      BY <2>1, <3>2
    <3>4. QED
      BY <3>1, <3>3
  <2>3. QED
    BY <2>2
<1>4. QED
  BY <1>3 DEF Min

\* LPUSH adds one element at the head.
LEMMA ConsType ==
    ASSUME NEW S, NEW s \in Seq(S), NEW e \in S
    PROVE  /\ Cons(e, s) \in Seq(S)
           /\ Len(Cons(e, s)) = Len(s) + 1
           /\ Cons(e, s)[1] = e
           /\ \A i \in 1..Len(s) : Cons(e, s)[i + 1] = s[i]
  BY DEF Cons

\* A pop from the right returns the last element and leaves the others.
LEMMA PopType ==
    ASSUME NEW S, NEW s \in Seq(S), s # <<>>
    PROVE  /\ Last(s) \in S
           /\ Front(s) \in Seq(S)
           /\ Len(Front(s)) = Len(s) - 1
           /\ \A i \in 1..Len(s) - 1 : Front(s)[i] = s[i]
<1>1. Len(s) \in Nat \ {0}
  BY EmptySeq
<1>2. \A i \in 1..Len(s) - 1 : s[i] \in S
  BY <1>1, ElementOfSeq
<1>3. /\ SubSeq(s, 1, Len(s) - 1) \in Seq(S)
      /\ Len(SubSeq(s, 1, Len(s) - 1)) = IF 1 <= Len(s) - 1 THEN Len(s) - 1 - 1 + 1 ELSE 0
      /\ \A i \in 1..Len(s) - 1 - 1 + 1 : SubSeq(s, 1, Len(s) - 1)[i] = s[1 + i - 1]
  BY <1>1, <1>2, SubSeqProperties
<1>4. Last(s) \in S
  BY <1>1, ElementOfSeq DEF Last
<1>5. Len(Front(s)) = Len(s) - 1
  <2> DEFINE f == Front(s)
             n == Len(s)
  <2>1. n \in Nat \ {0} /\ Len(f) = IF 1 <= n - 1 THEN n - 1 - 1 + 1 ELSE 0
    BY <1>1, <1>3 DEF Front
  <2>2. Len(f) = n - 1
    <3> HIDE DEF f, n
    <3>1. n = 1 \/ 1 <= n - 1
      BY <2>1
    <3>2. QED
      BY <2>1, <3>1
  <2>3. QED
    BY <2>2
<1>6. \A i \in 1..Len(s) - 1 : Front(s)[i] = s[i]
  BY <1>1, <1>3 DEF Front
<1>7. QED
  BY <1>3, <1>4, <1>5, <1>6 DEF Front

\* LREM 1 leaves a list over the same elements.
LEMMA RemoveFirstType ==
    ASSUME NEW S, NEW s \in Seq(S), NEW e
    PROVE  RemoveFirst(s, e) \in Seq(S)
<1>1. CASE \E i \in 1..Len(s) : s[i] = e
  <2> DEFINE I == {i \in 1..Len(s) : s[i] = e}
             k == Min(I)
  <2>1. k \in 1..Len(s)
    <3>1. I \subseteq Nat /\ I # {}
      BY <1>1
    <3>2. k \in I
      <4> HIDE DEF I
      <4> QED BY <3>1, MinIsLeast
    <3>3. QED
      BY <3>2
  <2>2. RemoveFirst(s, e) = RemoveAt(s, k)
    BY <1>1 DEF RemoveFirst, SelectInSeq
  <2>3. SubSeq(s, 1, k - 1) \in Seq(S) /\ SubSeq(s, k + 1, Len(s)) \in Seq(S)
    <3> HIDE DEF k
    <3>1. \A i \in 1..k - 1 : s[i] \in S
      BY <2>1, ElementOfSeq
    <3>2. \A i \in k + 1..Len(s) : s[i] \in S
      BY <2>1, ElementOfSeq
    <3>3. k \in Int /\ Len(s) \in Int
      BY <2>1
    <3>4. QED
      BY <3>1, <3>2, <3>3, SubSeqProperties
  <2>4. QED
    BY <2>2, <2>3, ConcatProperties DEF RemoveAt
<1>2. CASE ~ \E i \in 1..Len(s) : s[i] = e
  BY <1>2 DEF RemoveFirst
<1>3. QED
  BY <1>1, <1>2

\* An appended element is the only new member of a list.
LEMMA AppendMembers ==
    ASSUME NEW S, NEW s \in Seq(S), NEW e \in S
    PROVE  ToSet(Append(s, e)) = ToSet(s) \cup {e}
<1>1. Len(s) \in Nat /\ DOMAIN s = 1..Len(s)
  BY LenProperties
<1>2. /\ Append(s, e) \in Seq(S) /\ Len(Append(s, e)) = Len(s) + 1
      /\ \A i \in 1..Len(s) : Append(s, e)[i] = s[i]
      /\ Append(s, e)[Len(s) + 1] = e
  BY AppendProperties
<1>3. DOMAIN Append(s, e) = 1..Len(s) + 1
  BY <1>2, LenProperties
<1>4. 1..Len(s) + 1 = (1..Len(s)) \cup {Len(s) + 1}
  BY <1>1
<1>5. QED
  BY <1>1, <1>2, <1>3, <1>4 DEF ToSet
-----------------------------------------------------------------------------
\* Where the members of a set T stand in a list: somewhere, and at one
\* position at most.  With T the jobs of a request these are what Redis
\* commands do to the request.
Occurs(T, s) == \E i \in DOMAIN s : s[i] \in T

Once(T, s) == \A i, j \in DOMAIN s : s[i] \in T /\ s[j] \in T => i = j

LEMMA EmptyPlaces ==
    ASSUME NEW T
    PROVE  ~Occurs(T, <<>>) /\ Once(T, <<>>)
  BY DEF Occurs, Once

\* A push at the head adds one place.
LEMMA ConsPlaces ==
    ASSUME NEW S, NEW s \in Seq(S), NEW e \in S, NEW T
    PROVE  /\ Occurs(T, Cons(e, s)) <=> e \in T \/ Occurs(T, s)
           /\ Once(T, s) /\ ~(e \in T /\ Occurs(T, s)) => Once(T, Cons(e, s))
<1> DEFINE c == Cons(e, s)
<1>1. /\ c \in Seq(S) /\ Len(c) = Len(s) + 1 /\ c[1] = e
      /\ \A i \in 1..Len(s) : c[i + 1] = s[i]
  BY DEF Cons
<1>2. Len(s) \in Nat /\ DOMAIN s = 1..Len(s) /\ DOMAIN c = 1..Len(s) + 1
  BY <1>1, LenProperties
<1> HIDE DEF c
<1>3. \A i \in DOMAIN c : i = 1 \/ (i - 1 \in DOMAIN s /\ c[i] = s[i - 1])
  <2>1. ASSUME NEW i \in 1..Len(s) + 1, i # 1
        PROVE  i - 1 \in 1..Len(s) /\ c[i] = s[i - 1]
    <3>1. i - 1 \in 1..Len(s) /\ (i - 1) + 1 = i
      BY <1>2, <2>1
    <3>2. QED
      BY <1>1, <3>1
  <2>2. QED
    BY <1>2, <2>1
<1>4. 1 \in DOMAIN c /\ \A i \in DOMAIN s : i + 1 \in DOMAIN c /\ c[i + 1] = s[i]
  BY <1>1, <1>2
<1>5. Occurs(T, c) <=> e \in T \/ Occurs(T, s)
  BY <1>1, <1>3, <1>4 DEF Occurs
<1>6. ASSUME Once(T, s), ~(e \in T /\ Occurs(T, s))
      PROVE  Once(T, c)
  <2>1. ASSUME NEW i \in DOMAIN c, NEW j \in DOMAIN c, c[i] \in T, c[j] \in T
        PROVE  i = j
    <3>1. CASE e \in T
      BY <1>3, <1>6, <2>1, <3>1 DEF Occurs
    <3>2. CASE e \notin T
      <4>1. i # 1 /\ j # 1
        BY <1>1, <2>1, <3>2
      <4>2. /\ i - 1 \in DOMAIN s /\ s[i - 1] \in T
            /\ j - 1 \in DOMAIN s /\ s[j - 1] \in T
        BY <1>3, <2>1, <4>1
      <4>3. i - 1 = j - 1
        BY <1>6, <4>2 DEF Once
      <4>4. i \in Nat /\ j \in Nat
        BY <1>2
      <4>5. QED
        BY <4>3, <4>4
    <3>3. QED
      BY <3>1, <3>2
  <2>2. QED
    BY <2>1 DEF Once
<1>7. QED
  BY <1>5, <1>6 DEF c

\* A pop from the right takes the place of the last element.
LEMMA PopPlaces ==
    ASSUME NEW S, NEW s \in Seq(S), s # <<>>, NEW T
    PROVE  /\ Occurs(T, s) <=> Last(s) \in T \/ Occurs(T, Front(s))
           /\ Once(T, s) => Once(T, Front(s)) /\ ~(Last(s) \in T /\ Occurs(T, Front(s)))
<1> DEFINE f == Front(s)
           n == Len(s)
<1>1. n \in Nat \ {0} /\ DOMAIN s = 1..n /\ s[n] = Last(s)
  BY EmptySeq DEF Last
<1>2. f \in Seq(S) /\ Len(f) = n - 1 /\ \A i \in 1..n - 1 : f[i] = s[i]
  BY PopType
<1>3. DOMAIN f = 1..n - 1
  BY <1>1, <1>2, LenProperties
<1> HIDE DEF f, n
<1>4. DOMAIN s = DOMAIN f \cup {n} /\ n \notin DOMAIN f
  BY <1>1, <1>3
<1>5. Occurs(T, s) <=> Last(s) \in T \/ Occurs(T, f)
  BY <1>1, <1>2, <1>3, <1>4 DEF Occurs
<1>6. Once(T, s) => Once(T, f) /\ ~(Last(s) \in T /\ Occurs(T, f))
  BY <1>1, <1>2, <1>3, <1>4 DEF Once, Occurs
<1>7. QED
  BY <1>5, <1>6 DEF f

\* LREM 1 closes the gap at the first position of the element.
LEMMA RemoveFirstGap ==
    ASSUME NEW S, NEW s \in Seq(S), NEW e, \E i \in 1..Len(s) : s[i] = e
    PROVE  \E k \in 1..Len(s) :
              /\ s[k] = e
              /\ Len(RemoveFirst(s, e)) = Len(s) - 1
              /\ \A i \in 1..Len(s) - 1 :
                    RemoveFirst(s, e)[i] = IF i < k THEN s[i] ELSE s[i + 1]
<1> DEFINE I == {i \in 1..Len(s) : s[i] = e}
           k == Min(I)
           a == SubSeq(s, 1, k - 1)
           b == SubSeq(s, k + 1, Len(s))
<1>1. k \in I
  <2>1. I \subseteq Nat /\ I # {}
    OBVIOUS
  <2> HIDE DEF I
  <2>2. QED
    BY <2>1, MinIsLeast
<1>2. RemoveFirst(s, e) = a \o b
  BY DEF RemoveFirst, SelectInSeq, RemoveAt
<1>3. k \in 1..Len(s) /\ s[k] = e /\ Len(s) \in Nat
  BY <1>1
<1> HIDE DEF I, k
<1>4. /\ a \in Seq(S) /\ Len(a) = k - 1
      /\ \A i \in 1..k - 1 : a[i] = s[i]
  <2>1. \A i \in 1..k - 1 : s[i] \in S
    BY <1>3, ElementOfSeq
  <2>2. k - 1 \in Int /\ (1 <= k - 1 \/ k - 1 = 0)
    BY <1>3
  <2>3. /\ a \in Seq(S)
        /\ Len(a) = IF 1 <= k - 1 THEN (k - 1) - 1 + 1 ELSE 0
        /\ \A i \in 1..(k - 1) - 1 + 1 : a[i] = s[1 + i - 1]
    BY <2>1, <2>2, SubSeqProperties
  <2> HIDE DEF a
  <2>4. \A i \in 1..k - 1 : 1 + i - 1 = i /\ i \in 1..(k - 1) - 1 + 1
    BY <1>3
  <2>5. QED
    BY <1>3, <2>2, <2>3, <2>4
<1>5. /\ b \in Seq(S) /\ Len(b) = Len(s) - k
      /\ \A i \in 1..Len(s) - k : b[i] = s[k + i]
  <2>1. \A i \in k + 1..Len(s) : s[i] \in S
    BY <1>3, ElementOfSeq
  <2>2. /\ b \in Seq(S)
        /\ Len(b) = IF k + 1 <= Len(s) THEN Len(s) - (k + 1) + 1 ELSE 0
        /\ \A i \in 1..Len(s) - (k + 1) + 1 : b[i] = s[k + 1 + i - 1]
    <3>1. k + 1 \in Int /\ Len(s) \in Int
      BY <1>3
    <3>2. QED
      BY <2>1, <3>1, SubSeqProperties
  <2> HIDE DEF b
  <2>3. \A i \in 1..Len(s) - k : k + 1 + i - 1 = k + i /\ i \in 1..Len(s) - (k + 1) + 1
    BY <1>3
  <2>4. QED
    BY <1>3, <2>2, <2>3
<1> HIDE DEF a, b
<1>6. /\ Len(a \o b) = (k - 1) + (Len(s) - k)
      /\ \A i \in 1..(k - 1) + (Len(s) - k) :
            (a \o b)[i] = IF i <= k - 1 THEN a[i] ELSE b[i - (k - 1)]
  <2>1. /\ Len(a \o b) = Len(a) + Len(b)
        /\ \A i \in 1..Len(a) + Len(b) :
              (a \o b)[i] = IF i <= Len(a) THEN a[i] ELSE b[i - Len(a)]
    BY <1>4, <1>5, ConcatProperties
  <2>2. Len(a) = k - 1 /\ Len(b) = Len(s) - k
    BY <1>4, <1>5
  <2>3. QED
    BY <2>1, <2>2
<1>7. (k - 1) + (Len(s) - k) = Len(s) - 1
  BY <1>3
<1>8. ASSUME NEW i \in 1..Len(s) - 1
      PROVE  (a \o b)[i] = IF i < k THEN s[i] ELSE s[i + 1]
  <2>1. CASE i < k
    BY <1>3, <1>4, <1>6, <1>7, <2>1
  <2>2. CASE ~(i < k)
    <3>1. i - (k - 1) \in 1..Len(s) - k /\ k + (i - (k - 1)) = i + 1 /\ ~(i <= k - 1)
      BY <1>3, <2>2
    <3>2. QED
      BY <1>5, <1>6, <1>7, <2>2, <3>1
  <2>3. QED
    BY <2>1, <2>2
<1>9. QED
  BY <1>2, <1>3, <1>6, <1>7, <1>8

\* LREM 1 takes one place away, that of the element, if there is one.
LEMMA RemoveFirstPlaces ==
    ASSUME NEW S, NEW s \in Seq(S), NEW e, NEW T
    PROVE  /\ Occurs(T, RemoveFirst(s, e)) => Occurs(T, s)
           /\ Occurs(T, s) => e \in T \/ Occurs(T, RemoveFirst(s, e))
           /\ Once(T, s) => Once(T, RemoveFirst(s, e))
           /\ Once(T, s) /\ e \in T /\ Occurs({e}, s) => ~Occurs(T, RemoveFirst(s, e))
<1> DEFINE t == RemoveFirst(s, e)
           n == Len(s)
<1>1. n \in Nat /\ DOMAIN s = 1..n /\ t \in Seq(S) /\ DOMAIN t = 1..Len(t)
  BY LenProperties, RemoveFirstType
<1>2. CASE \E i \in 1..n : s[i] = e
  <2>1. PICK k \in 1..n :
           /\ s[k] = e /\ Len(t) = n - 1
           /\ \A i \in 1..n - 1 : t[i] = IF i < k THEN s[i] ELSE s[i + 1]
    BY <1>2, RemoveFirstGap
  <2> HIDE DEF t, n
  <2> DEFINE Old(i) == IF i < k THEN i ELSE i + 1
  <2>2. \A i \in DOMAIN t : Old(i) \in DOMAIN s /\ Old(i) # k /\ t[i] = s[Old(i)]
    BY <1>1, <2>1
  <2>3. \A j \in DOMAIN s : j = k \/ \E i \in DOMAIN t : Old(i) = j
    <3>1. ASSUME NEW j \in 1..n, j # k
          PROVE  \E i \in 1..n - 1 : Old(i) = j
      <4>1. CASE j < k
        <5>1. j \in 1..n - 1 /\ Old(j) = j
          BY <1>1, <4>1
        <5>2. QED
          BY <5>1
      <4>2. CASE k < j
        <5>1. j - 1 \in 1..n - 1 /\ Old(j - 1) = j
          BY <1>1, <4>2
        <5>2. QED
          BY <5>1
      <4>3. QED
        BY <1>1, <3>1, <4>1, <4>2
    <3>2. QED
      BY <1>1, <2>1, <3>1
  <2>4. \A i, j \in DOMAIN t : Old(i) = Old(j) => i = j
    BY <1>1, <2>1
  <2>5. k \in DOMAIN s /\ Occurs({e}, s)
    BY <1>1, <2>1 DEF Occurs
  <2> HIDE DEF Old
  <2>6. Occurs(T, t) => Occurs(T, s)
    BY <2>2 DEF Occurs
  <2>7. Occurs(T, s) => e \in T \/ Occurs(T, t)
    <3>1. SUFFICES ASSUME NEW j \in DOMAIN s, s[j] \in T, e \notin T
                   PROVE  Occurs(T, t)
      BY DEF Occurs
    <3>2. PICK i \in DOMAIN t : Old(i) = j
      BY <2>1, <2>3, <3>1
    <3>3. t[i] \in T
      BY <2>2, <3>1, <3>2
    <3>4. QED
      BY <3>3 DEF Occurs
  <2>8. Once(T, s) => Once(T, t)
    BY <2>2, <2>4 DEF Once
  <2>9. Once(T, s) /\ e \in T => ~Occurs(T, t)
    BY <2>1, <2>2, <2>5 DEF Once, Occurs
  <2>10. QED
    BY <2>6, <2>7, <2>8, <2>9 DEF t
<1>3. CASE ~ \E i \in 1..n : s[i] = e
  <2>1. t = s /\ ~Occurs({e}, s)
    BY <1>1, <1>3 DEF RemoveFirst, Occurs
  <2>2. QED
    BY <2>1
<1>4. QED
  BY <1>2, <1>3

-----------------------------------------------------------------------------
(* Type correctness.                                                       *)

\* What TypeOK needs of a worker's hand: a payload where the code uses one,
\* a readable job where it reads its fields, and a verdict to announce.
HandOK(w) ==
    /\ pc[w] \notin {"idle", "recovering", "stopped"} =>
          held[w] \in Payload
    /\ pc[w] \notin {"idle", "recovering", "stopped", "dlq_rem", "dlq_push"} =>
          held[w] \in Job
    /\ pc[w] = "notify" => verdict[w] \in Terminal

TypeInv == TypeOK /\ \A w \in WorkerIds : HandOK(w)
-----------------------------------------------------------------------------
\* The assumptions of all modules of the pipeline.
LEMMA Constants ==
    /\ NumWorkers \in Nat \ {0} /\ MaxAttempts \in Nat \ {0}
    /\ MaxFaults \in Nat /\ MaxCrashes \in Nat /\ MaxPanics \in Nat
    /\ Corrupt \notin Job /\ NoJob \notin Payload
    /\ Backlog \in Seq(Payload)
  BY PlatformAssumption, QueueAssumption, WorkerAssumption, PipelineAssumption

LEMMA BumpedType ==
    ASSUME NEW job \in Job
    PROVE  /\ Bumped(job) \in Job
           /\ Bumped(job).req = job.req
           /\ Bumped(job).attempt = job.attempt + 1
  BY DEF Bumped, Job

\* Writing a job gives a payload again.
LEMMA ReserializedType ==
    ASSUME NEW payload \in Payload
    PROVE  Reserialized(payload) \in Payload
  BY DEF Reserialized, Payload, Job

\* An answered command keeps the count of failures within its bound.
LEMMA AnswerType ==
    ASSUME FaultsTypeOK, NEW reply, Answer(reply)
    PROVE  FaultsTypeOK'
  BY Constants DEF FaultsTypeOK, Answer

-----------------------------------------------------------------------------
\* Each Redis command keeps the lists well typed.
LEMMA EnqueueJobType ==
    ASSUME QueueTypeOK, NEW job \in Payload, NEW reply, EnqueueJob(job, reply)
    PROVE  QueueTypeOK'
<1>1. queue \in Seq(Payload)
  BY DEF QueueTypeOK
<1>2. Cons(Reserialized(job), queue) \in Seq(Payload)
  BY <1>1, ReserializedType, ConsType
<1>3. QED
  BY <1>1, <1>2 DEF QueueTypeOK, EnqueueJob

LEMMA DequeueJobType ==
    ASSUME QueueTypeOK, NEW w \in WorkerIds, DequeueJob(w)
    PROVE  QueueTypeOK' /\ Last(queue) \in Payload
<1>1. queue \in Seq(Payload) /\ queue # <<>>
  BY DEF QueueTypeOK, DequeueJob
<1>2. Last(queue) \in Payload /\ Front(queue) \in Seq(Payload)
  BY <1>1, PopType
<1>3. processing[w] \in Seq(Payload)
  BY DEF QueueTypeOK
<1>4. Cons(Last(queue), processing[w]) \in Seq(Payload)
  BY <1>2, <1>3, ConsType
<1>5. QED
  BY <1>2, <1>4 DEF QueueTypeOK, DequeueJob

LEMMA RemoveFromProcessingType ==
    ASSUME QueueTypeOK, NEW w \in WorkerIds, NEW payload, NEW reply,
           RemoveFromProcessing(w, payload, reply)
    PROVE  QueueTypeOK'
<1>1. processing[w] \in Seq(Payload)
  BY DEF QueueTypeOK
<1>2. RemoveFirst(processing[w], Reserialized(payload)) \in Seq(Payload)
  BY <1>1, RemoveFirstType
<1>3. QED
  BY <1>2 DEF QueueTypeOK, RemoveFromProcessing

LEMMA PushToDlqType ==
    ASSUME QueueTypeOK, NEW payload \in Payload, NEW reply,
           PushToDlq(payload, reply)
    PROVE  QueueTypeOK'
<1>1. deadLetter \in Seq(Payload)
  BY DEF QueueTypeOK
<1>2. Cons(Reserialized(payload), deadLetter) \in Seq(Payload)
  BY <1>1, ReserializedType, ConsType
<1>3. QED
  BY <1>1, <1>2 DEF QueueTypeOK, PushToDlq

LEMMA RecoverOneType ==
    ASSUME QueueTypeOK, NEW w \in WorkerIds, NEW reply, RecoverOne(w, reply)
    PROVE  QueueTypeOK'
<1>1. queue \in Seq(Payload) /\ processing[w] \in Seq(Payload)
  BY DEF QueueTypeOK
<1>2. processing[w] # <<>>
  BY DEF RecoverOne
<1>3. Last(processing[w]) \in Payload /\ Front(processing[w]) \in Seq(Payload)
  BY <1>1, <1>2, PopType
<1>4. Cons(Last(processing[w]), queue) \in Seq(Payload)
  BY <1>1, <1>3, ConsType
<1>5. QED
  BY <1>3, <1>4 DEF QueueTypeOK, RecoverOne

-----------------------------------------------------------------------------
\* Each SQL statement keeps the rows well typed.
LEMMA UpdateStatusType ==
    ASSUME StoreTypeOK, NEW r, NEW new \in ExecutionStatus, NEW reply,
           UpdateExecutionStatus(r, new, reply)
    PROVE  StoreTypeOK'
  BY DEF StoreTypeOK, UpdateExecutionStatus

LEMMA InsertTypes ==
    ASSUME StoreTypeOK, NEW r, NEW reply,
           InsertExecutionRequest(r, reply) \/ InsertTransaction(r, reply)
    PROVE  StoreTypeOK'
  BY DEF StoreTypeOK, InsertExecutionRequest, InsertTransaction, ExecutionStatus

-----------------------------------------------------------------------------
\* Each step of the bundler and the chain keeps the operations well typed.
LEMMA SubmitType ==
    ASSUME ChainTypeOK, NEW r \in Requests, NEW submitters, Submit(r, submitters)
    PROVE  ChainTypeOK'
<1>1. Pending(r) \in [req : Requests, state : OpState]
  BY DEF Pending, OpState
<1>2. ASSUME NEW w \in WorkerIds, watched[w] = Pending(r)
      PROVE  [watched[w] EXCEPT !.state = "replaced"] \in
                [req : Requests, state : OpState]
  BY <1>1, <1>2 DEF OpState
<1>3. QED
  BY <1>1, <1>2 DEF ChainTypeOK, Submit

LEMMA AbandonType ==
    ASSUME ChainTypeOK, NEW gone \in SUBSET WorkerIds, Abandon(gone)
    PROVE  ChainTypeOK'
<1>1. ASSUME NEW v \in gone, watched[v].state = "pending"
      PROVE  watched[v].req \in Requests
  BY <1>1 DEF ChainTypeOK, NoOp
<1>2. orphaned' \subseteq Requests
  BY <1>1 DEF ChainTypeOK, Abandon
<1>3. QED
  BY <1>2 DEF ChainTypeOK, Abandon

LEMMA ChainStepType ==
    ASSUME ChainTypeOK, ChainStep
    PROVE  ChainTypeOK'
<1>1. ASSUME NEW w \in WorkerIds, NEW success \in BOOLEAN, IncludeWatched(w, success)
      PROVE  ChainTypeOK'
  <2>1. watched[w] \in [req : Requests, state : OpState]
    BY <1>1 DEF ChainTypeOK, IncludeWatched, NoOp
  <2>2. [watched[w] EXCEPT !.state = IF success THEN "succeeded" ELSE "reverted"]
           \in [req : Requests, state : OpState]
    BY <2>1 DEF OpState
  <2>3. watched' \in [WorkerIds -> [req : Requests, state : OpState] \cup {NoOp}]
    BY <1>1, <2>2 DEF ChainTypeOK, IncludeWatched
  <2>4. QED
    BY <1>1, <2>1, <2>3 DEF ChainTypeOK, IncludeWatched, Include
<1>2. ASSUME NEW r \in Requests, NEW success \in BOOLEAN, IncludeOrphan(r, success)
      PROVE  ChainTypeOK'
  BY <1>2 DEF ChainTypeOK, IncludeOrphan, Include
<1>3. ASSUME NEW r \in Requests, ExpireOrphan(r)
      PROVE  ChainTypeOK'
  BY <1>3 DEF ChainTypeOK, ExpireOrphan
<1>4. QED
  BY <1>1, <1>2, <1>3 DEF ChainStep

-----------------------------------------------------------------------------
\* A component that a step leaves alone stays well typed.
LEMMA UnchangedTypes ==
    /\ QueueTypeOK /\ UNCHANGED queueVars => QueueTypeOK'
    /\ StoreTypeOK /\ UNCHANGED storeVars => StoreTypeOK'
    /\ ChainTypeOK /\ UNCHANGED chainVars => ChainTypeOK'
    /\ FaultsTypeOK /\ UNCHANGED faults => FaultsTypeOK'
  BY DEF QueueTypeOK, StoreTypeOK, ChainTypeOK, FaultsTypeOK,
         queueVars, storeVars, chainVars

\* The worker's part of a step that only moves it to another await.
LEMMA GotoType ==
    ASSUME WorkerTypeOK, \A v \in WorkerIds : HandOK(v),
           NEW w \in WorkerIds, NEW next \in Pc, Goto(w, next),
           next \notin {"idle", "recovering", "stopped"} => held[w] \in Payload,
           next \notin {"idle", "recovering", "stopped"} \cup DlqPc => held[w] \in Job,
           next # "notify",
           runs' \in [Requests -> Nat], events' \in [Requests -> Seq(Terminal)]
    PROVE  WorkerTypeOK' /\ \A v \in WorkerIds : HandOK(v)'
  BY DEF WorkerTypeOK, HandOK, Goto, DlqPc

LEMMA FinishType ==
    ASSUME WorkerTypeOK, \A v \in WorkerIds : HandOK(v),
           NEW w \in WorkerIds, Finish(w),
           runs' \in [Requests -> Nat], events' \in [Requests -> Seq(Terminal)]
    PROVE  WorkerTypeOK' /\ \A v \in WorkerIds : HandOK(v)'
  BY DEF WorkerTypeOK, HandOK, Finish, Pc

\* The worker's part of a step that ends at the webhook.
LEMMA NotifyType ==
    ASSUME WorkerTypeOK, \A v \in WorkerIds : HandOK(v),
           NEW w \in WorkerIds, NEW outcome \in Terminal,
           verdict' = [verdict EXCEPT ![w] = outcome],
           pc' = [pc EXCEPT ![w] = "notify"],
           held[w] \in Job, UNCHANGED <<held, runs, events>>
    PROVE  WorkerTypeOK' /\ \A v \in WorkerIds : HandOK(v)'
<1>1. pc' \in [WorkerIds -> Pc] /\ verdict' \in [WorkerIds -> Terminal \cup {"none"}]
  BY DEF WorkerTypeOK, Pc, OutcomePc
<1>2. WorkerTypeOK'
  BY <1>1 DEF WorkerTypeOK
<1>3. ASSUME NEW v \in WorkerIds
      PROVE  HandOK(v)'
  BY Constants DEF WorkerTypeOK, HandOK, Payload
<1>4. QED
  BY <1>2, <1>3
-----------------------------------------------------------------------------
\* Each await of a worker preserves the invariant.
LEMMA WorkerStepType ==
    ASSUME TypeInv, NEW w \in WorkerIds, WorkerStep(w)
    PROVE  /\ FaultsTypeOK' /\ QueueTypeOK' /\ StoreTypeOK' /\ ChainTypeOK'
           /\ WorkerTypeOK' /\ \A v \in WorkerIds : HandOK(v)'
<1> USE DEF TypeInv, TypeOK
<1>a. runs \in [Requests -> Nat] /\ events \in [Requests -> Seq(Terminal)]
  BY DEF WorkerTypeOK
<1>b. HandOK(w) /\ Job \subseteq Payload /\ {"failed", "confirmed", "reverted"} = Terminal
  BY DEF Payload, Terminal
<1>c. Terminal \cup {"pending", "queued", "broadcasting"} \subseteq ExecutionStatus
  BY DEF ExecutionStatus
<1> DEFINE Chosen == CASE Last(queue) = Corrupt -> "dlq_rem"
                       [] Last(queue) # Corrupt /\ Last(queue).attempt >= MaxAttempts
                            -> "poison_status"
                       [] OTHER -> "broadcast"
<1>1. CASE Dequeue(w)
  <2>1. QueueTypeOK' /\ Last(queue) \in Payload /\ FaultsTypeOK'
    BY <1>1, DequeueJobType, AnswerType DEF Dequeue
  <2>2. CASE UNCHANGED <<pc, held, verdict>>
    BY <1>1, <1>a, <2>1, <2>2, UnchangedTypes DEF Dequeue, WorkerTypeOK, HandOK
  <2>3. CASE /\ held' = [held EXCEPT ![w] = Last(queue)]
             /\ pc' = [pc EXCEPT ![w] = Chosen]
             /\ UNCHANGED verdict
    <3>1. Chosen \in {"dlq_rem", "poison_status", "broadcast"} /\ Chosen \in Pc
      BY DEF Pc, DlqPc
    <3>2. Chosen # "dlq_rem" => Last(queue) \in Job
      BY <2>1, Constants DEF Payload
    <3>3. WorkerTypeOK'
      BY <1>1, <1>a, <2>1, <2>3, <3>1 DEF Dequeue, WorkerTypeOK
    <3>4. \A v \in WorkerIds : HandOK(v)'
      <4> HIDE DEF Chosen
      <4> QED BY <2>1, <2>3, <3>1, <3>2 DEF WorkerTypeOK, HandOK
    <3>5. QED
      BY <1>1, <2>1, <3>3, <3>4, UnchangedTypes DEF Dequeue
  <2>4. QED
    BY <1>1, <2>2, <2>3 DEF Dequeue
<1>2. CASE PoisonStatus(w)
  <2>1. held[w] \in Job
    BY <1>2, <1>b DEF PoisonStatus, HandOK
  <2>2. WorkerTypeOK' /\ \A v \in WorkerIds : HandOK(v)'
    BY <1>2, <1>b, <2>1, NotifyType DEF PoisonStatus
  <2>3. QED
    BY <1>2, <1>b, <1>c, <2>2, AnswerType, UpdateStatusType, UnchangedTypes DEF PoisonStatus
<1>3. CASE MoveToDlqRemove(w)
  <2>1. held[w] \in Payload
    BY <1>3, <1>b DEF MoveToDlqRemove, HandOK
  <2>2. runs' = runs /\ events' = events /\ (Goto(w, "dlq_push") \/ Finish(w))
    BY <1>3 DEF MoveToDlqRemove
  <2>3. WorkerTypeOK' /\ \A v \in WorkerIds : HandOK(v)'
    <3>1. CASE Goto(w, "dlq_push")
      BY <1>a, <2>1, <2>2, <3>1, GotoType DEF DlqPc, Pc
    <3>2. CASE Finish(w)
      BY <1>a, <2>2, <3>2, FinishType
    <3>3. QED
      BY <2>2, <3>1, <3>2
  <2>4. QED
    BY <1>3, <2>3, AnswerType, RemoveFromProcessingType, UnchangedTypes DEF MoveToDlqRemove
<1>4. CASE MoveToDlqPush(w)
  <2>1. held[w] \in Payload
    BY <1>4, <1>b DEF MoveToDlqPush, HandOK
  <2>2. WorkerTypeOK' /\ \A v \in WorkerIds : HandOK(v)'
    BY <1>4, <1>a, FinishType DEF MoveToDlqPush
  <2>3. QED
    BY <1>4, <2>1, <2>2, AnswerType, PushToDlqType, UnchangedTypes DEF MoveToDlqPush
<1>5. CASE Broadcast(w)
  <2>1. held[w] \in Job
    BY <1>5, <1>b DEF Broadcast, HandOK
  <2>2. runs' \in [Requests -> Nat] /\ events' \in [Requests -> Seq(Terminal)]
    <3>1. held[w].req \in Requests
      BY <2>1 DEF Job
    <3>2. runs[held[w].req] + 1 \in Nat
      BY <1>a, <3>1
    <3>3. [runs EXCEPT ![held[w].req] = runs[held[w].req] + 1] \in [Requests -> Nat]
      BY <1>a, <3>2
    <3>4. QED
      BY <1>5, <1>a, <3>3 DEF Broadcast
  <2>3. WorkerTypeOK' /\ \A v \in WorkerIds : HandOK(v)'
    BY <1>5, <1>b, <2>1, <2>2, GotoType DEF Broadcast, Pc, RunPc
  <2>4. QED
    BY <1>5, <1>c, <2>3, AnswerType, UpdateStatusType, UnchangedTypes DEF Broadcast
<1>6. CASE \/ ExecuteFails(w) \/ ExecuteFailsAsRevert(w) \/ SubmitUserOp(w) \/ ReceiptConfirmed(w)
           \/ ReceiptReverted(w) \/ ReceiptTimeout(w) \/ ExecutionPanics(w)
  <2>1. held[w] \in Job /\ runs' = runs /\ events' = events
    BY <1>6, <1>b DEF ExecuteFails, ExecuteFailsAsRevert, SubmitUserOp, ReceiptConfirmed, ReceiptReverted,
                      ReceiptTimeout, ExecutionPanics, RunPc, HandOK
  <2>2. \/ Goto(w, "requeue_ack") \/ Goto(w, "await_receipt")
        \/ Goto(w, "confirm_status") \/ Goto(w, "revert_status")
    BY <1>6 DEF ExecuteFails, ExecuteFailsAsRevert, SubmitUserOp, ReceiptConfirmed, ReceiptReverted,
                ReceiptTimeout, ExecutionPanics
  <2>3. {"requeue_ack", "await_receipt", "confirm_status", "revert_status"} \subseteq Pc
    BY DEF Pc, RunPc, RequeuePc, OutcomePc
  <2>4. WorkerTypeOK' /\ \A v \in WorkerIds : HandOK(v)'
    BY <1>a, <1>b, <2>1, <2>2, <2>3, GotoType
  <2>5. ChainTypeOK'
    <3>1. CASE ExecuteFails(w) \/ ExecuteFailsAsRevert(w)
      BY <3>1, UnchangedTypes DEF ExecuteFails, ExecuteFailsAsRevert
    <3>2. CASE SubmitUserOp(w)
      <4>1. held[w].req \in Requests
        BY <2>1 DEF Job
      <4>2. QED
        BY <3>2, <4>1, SubmitType DEF SubmitUserOp
    <3>3. CASE Abandon({w})
      BY <3>3, AbandonType
    <3>4. QED
      BY <1>6, <3>1, <3>2, <3>3
         DEF ReceiptConfirmed, ReceiptReverted, ReceiptTimeout, ExecutionPanics
  <2>6. QED
    BY <1>6, <2>4, <2>5, AnswerType, UnchangedTypes
       DEF ExecuteFails, ExecuteFailsAsRevert, SubmitUserOp, ReceiptConfirmed, ReceiptReverted,
           ReceiptTimeout, ExecutionPanics
<1>7. CASE ConfirmStatus(w)
  <2>1. held[w] \in Job
    BY <1>7, <1>b DEF ConfirmStatus, HandOK
  <2>2. WorkerTypeOK' /\ \A v \in WorkerIds : HandOK(v)'
    BY <1>7, <1>a, <1>b, <2>1, GotoType DEF ConfirmStatus, Pc, OutcomePc
  <2>3. QED
    BY <1>7, <1>b, <1>c, <2>2, AnswerType, UpdateStatusType, UnchangedTypes DEF ConfirmStatus
<1>8. CASE ConfirmRow(w)
  <2>1. held[w] \in Job
    BY <1>8, <1>b DEF ConfirmRow, HandOK
  <2>2. WorkerTypeOK' /\ \A v \in WorkerIds : HandOK(v)'
    BY <1>8, <1>b, <2>1, NotifyType DEF ConfirmRow
  <2>3. QED
    BY <1>8, <2>2, AnswerType, InsertTypes, UnchangedTypes DEF ConfirmRow
<1>9. CASE RevertStatus(w) \/ ExhaustStatus(w)
  <2>1. held[w] \in Job
    BY <1>9, <1>b DEF RevertStatus, ExhaustStatus, HandOK
  <2>2. WorkerTypeOK' /\ \A v \in WorkerIds : HandOK(v)'
    BY <1>9, <1>b, <2>1, NotifyType DEF RevertStatus, ExhaustStatus
  <2>3. QED
    BY <1>9, <1>b, <1>c, <2>2, AnswerType, UpdateStatusType, UnchangedTypes
       DEF RevertStatus, ExhaustStatus
<1>10. CASE FireWebhook(w)
  <2>1. held[w] \in Job /\ verdict[w] \in Terminal
    BY <1>10, <1>b DEF FireWebhook, HandOK
  <2>2. runs' \in [Requests -> Nat] /\ events' \in [Requests -> Seq(Terminal)]
    <3>1. held[w].req \in Requests
      BY <2>1 DEF Job
    <3>2. events[held[w].req] \in Seq(Terminal)
      BY <1>a, <3>1
    <3>3. Append(events[held[w].req], verdict[w]) \in Seq(Terminal)
      BY <2>1, <3>2, AppendProperties
    <3>4. [events EXCEPT ![held[w].req] = Append(events[held[w].req], verdict[w])]
             \in [Requests -> Seq(Terminal)]
      BY <1>a, <3>3
    <3>5. QED
      BY <1>10, <1>a, <3>4 DEF FireWebhook
  <2>3. Goto(w, "dlq_rem") \/ Goto(w, "ack") \/ Finish(w)
    BY <1>10 DEF FireWebhook
  <2>4. {"dlq_rem", "ack"} \subseteq Pc
    BY DEF Pc, DlqPc, OutcomePc
  <2>5. WorkerTypeOK' /\ \A v \in WorkerIds : HandOK(v)'
    BY <1>b, <2>1, <2>2, <2>3, <2>4, GotoType, FinishType
  <2>6. QED
    BY <1>10, <2>5, UnchangedTypes DEF FireWebhook
<1>11. CASE Ack(w)
  <2>1. WorkerTypeOK' /\ \A v \in WorkerIds : HandOK(v)'
    BY <1>11, <1>a, FinishType DEF Ack
  <2>2. QED
    BY <1>11, <2>1, AnswerType, RemoveFromProcessingType, UnchangedTypes DEF Ack
<1>12. CASE ReEnqueueAck(w)
  <2>1. held[w] \in Job
    BY <1>12, <1>b DEF ReEnqueueAck, HandOK
  <2>2. Goto(w, "exhaust_push") \/ Goto(w, "requeue_push")
    BY <1>12 DEF ReEnqueueAck
  <2>3. {"exhaust_push", "requeue_push"} \subseteq Pc
    BY DEF Pc, RequeuePc
  <2>4. WorkerTypeOK' /\ \A v \in WorkerIds : HandOK(v)'
    BY <1>12, <1>a, <1>b, <2>1, <2>2, <2>3, GotoType DEF ReEnqueueAck
  <2>5. QED
    BY <1>12, <2>4, AnswerType, RemoveFromProcessingType, UnchangedTypes DEF ReEnqueueAck
<1>13. CASE ReEnqueuePush(w) \/ ExhaustPush(w)
  <2>1. held[w] \in Job
    BY <1>13, <1>b DEF ReEnqueuePush, ExhaustPush, HandOK
  <2>2. Bumped(held[w]) \in Payload
    BY <1>b, <2>1, BumpedType
  <2>3. QueueTypeOK' /\ FaultsTypeOK'
    BY <1>13, <2>2, AnswerType, EnqueueJobType, PushToDlqType DEF ReEnqueuePush, ExhaustPush
  <2>4. "exhaust_status" \in Pc
    BY DEF Pc, RequeuePc
  <2>5. WorkerTypeOK' /\ \A v \in WorkerIds : HandOK(v)'
    BY <1>13, <1>a, <1>b, <2>1, <2>4, FinishType, GotoType DEF ReEnqueuePush, ExhaustPush
  <2>6. QED
    BY <1>13, <2>3, <2>5, UnchangedTypes DEF ReEnqueuePush, ExhaustPush
<1>14. CASE SupervisorRecovers(w)
  <2>1. Goto(w, "recovering") \/ Goto(w, "idle")
    BY <1>14 DEF SupervisorRecovers
  <2>2. {"recovering", "idle"} \subseteq Pc
    BY DEF Pc
  <2>3. WorkerTypeOK' /\ \A v \in WorkerIds : HandOK(v)'
    BY <1>14, <1>a, <2>1, <2>2, GotoType DEF SupervisorRecovers
  <2>4. QueueTypeOK' /\ FaultsTypeOK'
    BY <1>14, AnswerType, RecoverOneType, UnchangedTypes DEF SupervisorRecovers
  <2>5. QED
    BY <1>14, <2>3, <2>4, UnchangedTypes DEF SupervisorRecovers
<1>15. QED
  BY <1>1, <1>2, <1>3, <1>4, <1>5, <1>6, <1>7, <1>8, <1>9, <1>10, <1>11, <1>12,
     <1>13, <1>14 DEF WorkerStep

-----------------------------------------------------------------------------
\* Each await of handle_execute keeps the stores well typed.
LEMMA HandlerStepType ==
    ASSUME TypeInv, NEW r \in Requests, HandlerStep(r) \/ HandlerDropped(r)
    PROVE  /\ FaultsTypeOK' /\ QueueTypeOK' /\ StoreTypeOK' /\ ChainTypeOK'
           /\ UNCHANGED workerVars
           /\ call' \in [Requests -> Call]
<1> USE DEF TypeInv, TypeOK
<1>a. {"pending", "failed", "queued"} \subseteq ExecutionStatus
  BY DEF ExecutionStatus, Terminal
<1>b. {"error", "rejected", "accepted", "simulate", "record_failure",
       "record_estimate", "enqueue", "mark_queued"} \subseteq Call
  BY DEF Call, Handling
<1>1. ASSUME NEW reply, NEW next \in Call, Proceed(r, reply, next)
      PROVE  call' \in [Requests -> Call]
  BY <1>1, <1>b DEF Proceed
<1>2. CASE InsertRequest(r)
  BY <1>2, <1>1, <1>b, AnswerType, InsertTypes, UnchangedTypes DEF InsertRequest
<1>3. CASE Simulate(r) \/ HandlerDropped(r)
  BY <1>3, <1>b, UnchangedTypes DEF Simulate, HandlerDropped
<1>4. CASE RecordFailure(r)
  BY <1>4, <1>1, <1>a, <1>b, AnswerType, UpdateStatusType, UnchangedTypes DEF RecordFailure
<1>5. CASE RecordEstimate(r)
  BY <1>5, <1>1, <1>a, <1>b, AnswerType, UpdateStatusType, UnchangedTypes DEF RecordEstimate
<1>6. CASE Enqueue(r)
  <2>1. [req |-> r, attempt |-> 0, form |-> "current"] \in Payload
    BY DEF Payload, Job
  <2>2. QED
    BY <1>6, <1>1, <1>b, <2>1, AnswerType, EnqueueJobType, UnchangedTypes DEF Enqueue
<1>7. CASE MarkQueued(r)
  BY <1>7, <1>1, <1>a, <1>b, AnswerType, UpdateStatusType, UnchangedTypes DEF MarkQueued
<1>8. QED
  BY <1>2, <1>3, <1>4, <1>5, <1>6, <1>7 DEF HandlerStep

\* Start-up, crashes and panics preserve the invariant.
LEMMA ProcessStepType ==
    ASSUME TypeInv,
           Boot \/ BootRecovers \/ BootNext \/ Crash \/ \E w \in WorkerIds : WorkerPanics(w)
    PROVE  TypeInv'
<1> USE DEF TypeInv, TypeOK
<1>1. CASE Boot
  <2>1. 0 \in WorkerIds
    BY Constants DEF WorkerIds
  <2>2. WorkerTypeOK' /\ \A v \in WorkerIds : HandOK(v)'
    BY <1>1 DEF Boot, workerVars, WorkerTypeOK, HandOK
  <2>3. QED
    BY <1>1, <2>1, <2>2, UnchangedTypes DEF Boot
<1>2. CASE BootRecovers
  <2>1. QueueTypeOK' /\ FaultsTypeOK'
    BY <1>2, AnswerType, RecoverOneType DEF BootRecovers
  <2>2. WorkerTypeOK' /\ \A v \in WorkerIds : HandOK(v)'
    BY <1>2 DEF BootRecovers, workerVars, WorkerTypeOK, HandOK
  <2>3. QED
    BY <1>2, <2>1, <2>2, UnchangedTypes DEF BootRecovers
<1>3. CASE BootNext
  <2>1. bootWid' \in WorkerIds
    BY <1>3, Constants DEF BootNext, WorkerIds
  <2>2. phase' \in {"down", "recovering", "serving"}
    BY <1>3 DEF BootNext
  <2>3. UNCHANGED pc \/ pc' = [w \in WorkerIds |-> "idle"]
    BY <1>3 DEF BootNext
  <2>4. WorkerTypeOK' /\ \A v \in WorkerIds : HandOK(v)'
    BY <1>3, <2>3 DEF BootNext, WorkerTypeOK, HandOK, Pc
  <2>5. QED
    BY <1>3, <2>1, <2>2, <2>4, UnchangedTypes DEF BootNext
<1>4. CASE Crash
  <2>1. WorkerTypeOK' /\ \A v \in WorkerIds : HandOK(v)'
    BY <1>4 DEF Crash, WorkerTypeOK, HandOK, Pc
  <2>2. call' \in [Requests -> Call]
    BY <1>4 DEF Crash, Call
  <2>3. crashes' \in 0..MaxCrashes
    BY <1>4, Constants DEF Crash
  <2>4. ChainTypeOK'
    BY <1>4, AbandonType DEF Crash
  <2>5. QED
    BY <1>4, <2>1, <2>2, <2>3, <2>4, UnchangedTypes DEF Crash
<1>5. ASSUME NEW w \in WorkerIds, WorkerPanics(w)
      PROVE  TypeInv'
  <2>1. WorkerTypeOK' /\ \A v \in WorkerIds : HandOK(v)'
    BY <1>5 DEF WorkerPanics, LoopPanics, WorkerTypeOK, HandOK, Pc
  <2>2. panics' \in 0..MaxPanics
    BY <1>5, Constants DEF WorkerPanics
  <2>3. QED
    BY <1>5, <2>1, <2>2, UnchangedTypes DEF WorkerPanics, LoopPanics
<1>6. QED
  BY <1>1, <1>2, <1>3, <1>4, <1>5
-----------------------------------------------------------------------------
LEMMA TypeInvInit == Init => TypeInv
<1> SUFFICES ASSUME Init
             PROVE  TypeInv
  OBVIOUS
<1>1. FaultsTypeOK /\ StoreTypeOK
  BY Constants DEF Init, FaultsTypeOK, StoreTypeOK, ExecutionStatus
<1>2. QueueTypeOK
  BY Constants DEF Init, QueueTypeOK
<1>3. ChainTypeOK
  BY DEF Init, ChainTypeOK
<1>4. WorkerTypeOK /\ \A w \in WorkerIds : HandOK(w)
  BY DEF Init, WorkerTypeOK, HandOK, Pc
<1>5. /\ call \in [Requests -> Call] /\ phase \in {"down", "recovering", "serving"}
      /\ bootWid \in WorkerIds /\ crashes \in 0..MaxCrashes /\ panics \in 0..MaxPanics
  BY Constants DEF Init, Call, WorkerIds
<1>6. QED
  BY <1>1, <1>2, <1>3, <1>4, <1>5 DEF TypeInv, TypeOK

LEMMA TypeInvStep == TypeInv /\ [Next]_vars => TypeInv'
<1> SUFFICES ASSUME TypeInv, [Next]_vars
             PROVE  TypeInv'
  OBVIOUS
<1>1. ASSUME NEW r \in Requests, HandlerStep(r) \/ HandlerDropped(r), UNCHANGED processVars
      PROVE  TypeInv'
  <2>1. WorkerTypeOK' /\ \A w \in WorkerIds : HandOK(w)'
    <3>1. UNCHANGED workerVars
      BY <1>1, HandlerStepType
    <3>2. QED
      BY <3>1 DEF TypeInv, TypeOK, workerVars, WorkerTypeOK, HandOK
  <2>2. QED
    BY <1>1, <2>1, HandlerStepType DEF TypeInv, TypeOK, processVars
<1>2. ASSUME NEW w \in WorkerIds, WorkerStep(w), UNCHANGED <<call, processVars>>
      PROVE  TypeInv'
  BY <1>2, WorkerStepType DEF TypeInv, TypeOK, processVars
<1>3. CASE ChainStep
  <2>1. WorkerTypeOK' /\ \A w \in WorkerIds : HandOK(w)'
    BY <1>3 DEF ChainStep, TypeInv, TypeOK, workerVars, WorkerTypeOK, HandOK
  <2>2. QED
    BY <1>3, <2>1, ChainStepType, UnchangedTypes DEF ChainStep, TypeInv, TypeOK, processVars
<1>4. CASE UNCHANGED vars
  <2>1. WorkerTypeOK' /\ \A w \in WorkerIds : HandOK(w)'
    BY <1>4 DEF vars, TypeInv, TypeOK, workerVars, WorkerTypeOK, HandOK
  <2>2. QED
    BY <1>4, <2>1, UnchangedTypes DEF vars, TypeInv, TypeOK, processVars
<1>5. QED
  BY <1>1, <1>2, <1>3, <1>4, ProcessStepType DEF Next

\* Every behaviour of the pipeline keeps the type-and-hands invariant.
THEOREM HandsCorrect == Spec => []TypeInv
  BY TypeInvInit, TypeInvStep, PTL DEF Spec

\* Every behaviour of the pipeline is well typed: Redis lists hold payloads
\* only, a worker pushes a job only when it has one in hand, and start-up
\* recovery stays within the worker ids.
\* (queue/mod.rs:47-191, worker/mod.rs:55-857, main.rs:414-441)
THEOREM TypeCorrect == Spec => []TypeOK
<1>1. TypeInv => TypeOK
  BY DEF TypeInv
<1>2. QED
  BY <1>1, HandsCorrect, PTL

-----------------------------------------------------------------------------
(* What the platform says of an outcome is on the chain.                   *)

\* The strengthening of OutcomeIsOnChain: a worker about to say confirmed or
\* reverted holds a job of a request with that outcome, the operation a worker
\* polls for is that of the job it holds, and the state of a watched operation
\* is what the chain did with it.
KnownOutcome(w) ==
    /\ pc[w] \in {"confirm_status", "confirm_row"} => executed[held[w].req] > 0
    /\ pc[w] = "revert_status" => RevertKnown(held[w].req)
    /\ pc[w] = "notify" /\ verdict[w] = "confirmed" => executed[held[w].req] > 0
    /\ pc[w] = "notify" /\ verdict[w] = "reverted" => RevertKnown(held[w].req)
    /\ pc[w] = "await_receipt" => watched[w] # NoOp /\ watched[w].req = held[w].req
    /\ watched[w].state = "succeeded" => executed[watched[w].req] > 0
    /\ watched[w].state = "reverted" => RevertKnown(watched[w].req)

USE DEF RevertKnown

OutcomeInv == OutcomeIsOnChain /\ \A w \in WorkerIds : KnownOutcome(w)
-----------------------------------------------------------------------------
\* A status that is written with its outcome on the chain.
LEMMA StatusBacked ==
    ASSUME TypeInv, OutcomeIsOnChain, NEW r, NEW new, NEW reply,
           UpdateExecutionStatus(r, new, reply),
           new = "confirmed" => executed[r] > 0,
           new = "reverted" => RevertKnown(r),
           UNCHANGED <<events, executed, undone>>
    PROVE  OutcomeIsOnChain'
  BY DEF TypeInv, TypeOK, StoreTypeOK, UpdateExecutionStatus, OutcomeIsOnChain

\* Nothing is written.
LEMMA NothingSaid ==
    ASSUME OutcomeIsOnChain, UNCHANGED <<status, events, executed, undone>>
    PROVE  OutcomeIsOnChain'
  BY DEF OutcomeIsOnChain

\* What the worker knows survives a step of another task that leaves the
\* chain alone.
LEMMA OthersKnow ==
    ASSUME NEW w \in WorkerIds, KnownOutcome(w),
           pc'[w] = pc[w], held'[w] = held[w], verdict'[w] = verdict[w],
           watched'[w] = watched[w], UNCHANGED <<executed, undone>>
    PROVE  KnownOutcome(w)'
  BY DEF KnownOutcome

\* A worker at an await that claims nothing knows nothing.
LEMMA NoClaim ==
    ASSUME NEW w \in WorkerIds,
           pc'[w] \notin {"confirm_status", "confirm_row", "revert_status",
                          "notify", "await_receipt"},
           \/ watched'[w].state \notin {"succeeded", "reverted"}
           \/ KnownOutcome(w) /\ UNCHANGED <<watched, executed, undone>>
    PROVE  KnownOutcome(w)'
  BY DEF KnownOutcome
-----------------------------------------------------------------------------
\* The steps between the BLMOVE and the bundler, and those of the retry path.
LEMMA QuietStepOutcome ==
    ASSUME TypeInv, OutcomeInv, NEW w \in WorkerIds,
           \/ Dequeue(w) \/ MoveToDlqRemove(w) \/ MoveToDlqPush(w)
           \/ Broadcast(w) \/ ExecuteFails(w) \/ Ack(w)
           \/ ReEnqueueAck(w) \/ ReEnqueuePush(w) \/ ExhaustPush(w)
           \/ SupervisorRecovers(w)
    PROVE  OutcomeInv'
<1> DEFINE Silent == {"idle", "poison_status", "dlq_rem", "dlq_push", "broadcast",
                      "execute", "requeue_ack", "requeue_push", "exhaust_push",
                      "exhaust_status", "recovering"}
<1>1. /\ UNCHANGED <<watched, executed, undone, events>>
      /\ \A v \in WorkerIds \ {w} : /\ pc'[v] = pc[v] /\ held'[v] = held[v]
                                    /\ verdict'[v] = verdict[v]
      /\ pc'[w] \in Silent \/ UNCHANGED <<pc, held, verdict>>
  BY DEF TypeInv, TypeOK, WorkerTypeOK, Dequeue, MoveToDlqRemove, MoveToDlqPush,
         Broadcast, ExecuteFails, Ack, ReEnqueueAck, ReEnqueuePush, ExhaustPush,
         SupervisorRecovers, Goto, Finish, chainVars
<1>2. ASSUME NEW v \in WorkerIds
      PROVE  KnownOutcome(v)'
  <2>1. KnownOutcome(v)
    BY DEF OutcomeInv
  <2>2. CASE v # w \/ UNCHANGED <<pc, held, verdict>>
    BY <1>1, <2>1, <2>2, OthersKnow
  <2>3. CASE v = w /\ pc'[w] \in Silent
    BY <1>1, <2>1, <2>3, NoClaim
  <2>4. QED
    BY <1>1, <2>2, <2>3
<1>3. OutcomeIsOnChain'
  <2>1. CASE Broadcast(w)
    <3>1. PICK reply : UpdateExecutionStatus(held[w].req, "broadcasting", reply)
      BY <2>1 DEF Broadcast
    <3>2. QED
      BY <1>1, <3>1, StatusBacked DEF OutcomeInv
  <2>2. CASE ~Broadcast(w)
    <3>1. UNCHANGED status
      BY <2>2 DEF Dequeue, MoveToDlqRemove, MoveToDlqPush, ExecuteFails, Ack,
                  ReEnqueueAck, ReEnqueuePush, ExhaustPush, SupervisorRecovers, storeVars
    <3>2. QED
      BY <1>1, <3>1, NothingSaid DEF OutcomeInv
  <2>3. QED
    BY <2>1, <2>2
<1>4. QED
  BY <1>2, <1>3 DEF OutcomeInv

\* A failure that reads like a revert.
LEMMA MisreadOutcome ==
    ASSUME TypeInv, OutcomeInv, NEW w \in WorkerIds, ExecuteFailsAsRevert(w)
    PROVE  OutcomeInv'
<1>1. /\ UNCHANGED <<status, events, watched, executed, undone, held, verdict>>
      /\ \A v \in WorkerIds \ {w} : pc'[v] = pc[v]
      /\ pc'[w] = "revert_status" /\ EchoesRevert
  BY DEF TypeInv, TypeOK, WorkerTypeOK, ExecuteFailsAsRevert, Goto, storeVars, chainVars
<1>2. KnownOutcome(w)'
  BY <1>1 DEF OutcomeInv, KnownOutcome
<1>3. QED
  BY <1>1, <1>2, NothingSaid, OthersKnow DEF OutcomeInv

\* The bundler accepts an operation; the operations it replaces keep their
\* request, and none of them is a success or a revert.
LEMMA SubmitOutcome ==
    ASSUME TypeInv, OutcomeInv, NEW w \in WorkerIds, SubmitUserOp(w)
    PROVE  OutcomeInv'
<1>1. held[w] \in Job
  BY DEF TypeInv, HandOK, SubmitUserOp
<1>2. /\ UNCHANGED <<status, events, executed, undone, held, verdict>>
      /\ \A v \in WorkerIds \ {w} : pc'[v] = pc[v]
      /\ pc'[w] \in {"await_receipt", "requeue_ack"}
  BY DEF TypeInv, TypeOK, WorkerTypeOK, SubmitUserOp, Submit, Goto, storeVars
<1>3. PICK submitters \in SUBSET WorkerIds :
         /\ Submit(held[w].req, submitters)
         /\ submitters = {} \/ submitters = {w}
         /\ pc'[w] = "await_receipt" => w \in submitters
  <2>1. CASE Submit(held[w].req, {w})
    BY <2>1
  <2>2. CASE Submit(held[w].req, {}) /\ Goto(w, "requeue_ack")
    <3>1. pc'[w] = "requeue_ack"
      BY <2>2 DEF Goto, TypeInv, TypeOK, WorkerTypeOK
    <3>2. QED
      BY <2>2, <3>1
  <2>3. QED
    BY <2>1, <2>2 DEF SubmitUserOp
<1>4. ASSUME NEW v \in WorkerIds
      PROVE  KnownOutcome(v)'
  <2>1. KnownOutcome(v)
    BY DEF OutcomeInv
  <2>2. CASE v \in submitters
    <3>1. watched'[v] = Pending(held[w].req) /\ v = w
      BY <1>3, <2>2 DEF Submit
    <3>2. QED
      BY <1>2, <3>1 DEF KnownOutcome, Pending, NoOp
  <2>3. CASE v \notin submitters /\ watched[v] = Pending(held[w].req)
    <3>1. /\ watched'[v].state = "replaced"
          /\ watched'[v].req = watched[v].req
      BY <1>3, <2>3 DEF Submit, Pending
    <3>2. watched'[v] # NoOp
      BY <3>1 DEF NoOp
    <3>3. QED
      BY <1>2, <1>3, <2>1, <2>3, <3>1, <3>2 DEF KnownOutcome
  <2>4. CASE v \notin submitters /\ watched[v] # Pending(held[w].req)
    <3>1. watched'[v] = watched[v]
      BY <1>3, <2>4 DEF Submit
    <3>2. QED
      BY <1>2, <1>3, <2>1, <2>4, <3>1 DEF KnownOutcome
  <2>5. QED
    BY <2>2, <2>3, <2>4
<1>5. QED
  BY <1>2, <1>4, NothingSaid DEF OutcomeInv

\* A receipt tells the worker what the chain did; a timeout tells it nothing.
LEMMA ReceiptOutcome ==
    ASSUME TypeInv, OutcomeInv, NEW w \in WorkerIds,
           \/ ReceiptConfirmed(w) \/ ReceiptReverted(w) \/ ReceiptTimeout(w)
           \/ ExecutionPanics(w)
    PROVE  OutcomeInv'
<1>1. /\ UNCHANGED <<status, events, executed, undone, held, verdict>>
      /\ \A v \in WorkerIds \ {w} : pc'[v] = pc[v] /\ watched'[v] = watched[v]
      /\ watched'[w] = NoOp
  BY DEF TypeInv, TypeOK, WorkerTypeOK, ReceiptConfirmed, ReceiptReverted,
         ReceiptTimeout, ExecutionPanics, Abandon, Goto, storeVars
<1>2. ASSUME NEW v \in WorkerIds, v # w
      PROVE  KnownOutcome(v)'
  BY <1>1, <1>2, OthersKnow DEF OutcomeInv
<1>3. KnownOutcome(w)'
  <2>1. KnownOutcome(w)
    BY DEF OutcomeInv
  <2>2. CASE ReceiptConfirmed(w)
    <3>1. pc'[w] = "confirm_status" /\ executed[held[w].req] > 0
      BY <2>1, <2>2 DEF ReceiptConfirmed, KnownOutcome, Goto, TypeInv, TypeOK, WorkerTypeOK
    <3>2. QED
      BY <1>1, <3>1 DEF KnownOutcome, NoOp
  <2>3. CASE ReceiptReverted(w)
    <3>1. pc'[w] = "revert_status" /\ RevertKnown(held[w].req)
      BY <2>1, <2>3 DEF ReceiptReverted, KnownOutcome, Goto, TypeInv, TypeOK, WorkerTypeOK
    <3>2. QED
      BY <1>1, <3>1 DEF KnownOutcome, NoOp
  <2>4. CASE ReceiptTimeout(w) \/ ExecutionPanics(w)
    <3>1. pc'[w] = "requeue_ack"
      BY <2>4 DEF ReceiptTimeout, ExecutionPanics, Goto, TypeInv, TypeOK, WorkerTypeOK
    <3>2. QED
      BY <1>1, <3>1 DEF KnownOutcome, NoOp
  <2>5. QED
    BY <2>2, <2>3, <2>4
<1>4. QED
  BY <1>1, <1>2, <1>3, NothingSaid DEF OutcomeInv

\* The writes of an outcome: the status first, then the verdict to announce.
LEMMA RecordOutcome ==
    ASSUME TypeInv, OutcomeInv, NEW w \in WorkerIds,
           \/ PoisonStatus(w) \/ ExhaustStatus(w) \/ RevertStatus(w)
           \/ ConfirmStatus(w) \/ ConfirmRow(w)
    PROVE  OutcomeInv'
<1> USE DEF TypeInv, TypeOK, WorkerTypeOK
<1>1. /\ UNCHANGED <<events, watched, executed, undone, held>>
      /\ \A v \in WorkerIds \ {w} : pc'[v] = pc[v] /\ verdict'[v] = verdict[v]
  BY DEF PoisonStatus, ExhaustStatus, RevertStatus, ConfirmStatus, ConfirmRow,
         Goto, chainVars
<1>2. KnownOutcome(w)
  BY DEF OutcomeInv
<1>3. KnownOutcome(w)'
  <2>1. CASE PoisonStatus(w) \/ ExhaustStatus(w)
    <3>1. pc'[w] = "notify" /\ verdict'[w] = "failed"
      BY <2>1 DEF PoisonStatus, ExhaustStatus
    <3>2. QED
      BY <1>1, <1>2, <3>1 DEF KnownOutcome
  <2>2. CASE RevertStatus(w)
    <3>1. pc'[w] = "notify" /\ verdict'[w] = "reverted" /\ RevertKnown(held[w].req)
      BY <1>2, <2>2 DEF RevertStatus, KnownOutcome
    <3>2. QED
      BY <1>1, <1>2, <3>1 DEF KnownOutcome
  <2>3. CASE ConfirmStatus(w)
    <3>1. pc'[w] = "confirm_row" /\ executed[held[w].req] > 0
      BY <1>2, <2>3 DEF ConfirmStatus, KnownOutcome, Goto
    <3>2. QED
      BY <1>1, <1>2, <3>1 DEF KnownOutcome
  <2>4. CASE ConfirmRow(w)
    <3>1. pc'[w] = "notify" /\ verdict'[w] = "confirmed" /\ executed[held[w].req] > 0
      BY <1>2, <2>4 DEF ConfirmRow, KnownOutcome
    <3>2. QED
      BY <1>1, <1>2, <3>1 DEF KnownOutcome
  <2>5. QED
    BY <2>1, <2>2, <2>3, <2>4
<1>4. OutcomeIsOnChain'
  <2>1. CASE ConfirmRow(w)
    <3>1. UNCHANGED status
      BY <2>1 DEF ConfirmRow, InsertTransaction
    <3>2. QED
      BY <1>1, <3>1, NothingSaid DEF OutcomeInv
  <2>2. CASE ~ConfirmRow(w)
    <3>1. PICK new, reply :
             /\ UpdateExecutionStatus(held[w].req, new, reply)
             /\ new = "confirmed" => executed[held[w].req] > 0
             /\ new = "reverted" => RevertKnown(held[w].req)
      <4>1. CASE PoisonStatus(w) \/ ExhaustStatus(w)
        BY <4>1 DEF PoisonStatus, ExhaustStatus
      <4>2. CASE RevertStatus(w)
        BY <1>2, <4>2 DEF RevertStatus, KnownOutcome
      <4>3. CASE ConfirmStatus(w)
        BY <1>2, <4>3 DEF ConfirmStatus, KnownOutcome
      <4>4. QED
        BY <2>2, <4>1, <4>2, <4>3
    <3>2. QED
      BY <1>1, <3>1, StatusBacked DEF OutcomeInv
  <2>3. QED
    BY <2>1, <2>2
<1>5. QED
  BY <1>1, <1>3, <1>4, OthersKnow DEF OutcomeInv

\* The webhook says what the worker knows.
LEMMA AnnounceOutcome ==
    ASSUME TypeInv, OutcomeInv, NEW w \in WorkerIds, FireWebhook(w)
    PROVE  OutcomeInv'
<1> USE DEF TypeInv, TypeOK, WorkerTypeOK
<1>1. /\ UNCHANGED <<status, watched, executed, undone>>
      /\ \A v \in WorkerIds \ {w} : /\ pc'[v] = pc[v] /\ held'[v] = held[v]
                                    /\ verdict'[v] = verdict[v]
      /\ pc'[w] \in {"dlq_rem", "idle", "ack"}
  BY DEF FireWebhook, Goto, Finish, storeVars, chainVars
<1>2. held[w].req \in Requests /\ verdict[w] \in Terminal
  BY DEF FireWebhook, HandOK, Job
<1>3. /\ verdict[w] = "confirmed" => executed[held[w].req] > 0
      /\ verdict[w] = "reverted" => RevertKnown(held[w].req)
  BY DEF OutcomeInv, KnownOutcome, FireWebhook
<1>4. ASSUME NEW r \in Requests
      PROVE  ToSet(events'[r]) = ToSet(events[r]) \cup
                                 (IF r = held[w].req THEN {verdict[w]} ELSE {})
  <2>1. events[r] \in Seq(Terminal)
    OBVIOUS
  <2>2. events'[r] = IF r = held[w].req THEN Append(events[r], verdict[w]) ELSE events[r]
    BY DEF FireWebhook
  <2>3. QED
    BY <1>2, <2>1, <2>2, AppendMembers
<1>5. OutcomeIsOnChain'
  BY <1>1, <1>3, <1>4 DEF OutcomeInv, OutcomeIsOnChain
<1>6. KnownOutcome(w)'
  BY <1>1, NoClaim DEF OutcomeInv
<1>7. QED
  BY <1>1, <1>5, <1>6, OthersKnow DEF OutcomeInv

-----------------------------------------------------------------------------
\* handle_execute writes no confirmed and no reverted.
LEMMA HandlerOutcome ==
    ASSUME TypeInv, OutcomeInv, NEW r \in Requests,
           HandlerStep(r) \/ HandlerDropped(r)
    PROVE  OutcomeInv'
<1>1. UNCHANGED <<events, pc, held, verdict, watched, executed, undone>>
  BY DEF HandlerStep, InsertRequest, Simulate, RecordFailure, RecordEstimate,
         Enqueue, MarkQueued, HandlerDropped, chainVars, workerVars
<1>2. CASE InsertRequest(r)
  BY <1>1, <1>2 DEF InsertRequest, InsertExecutionRequest, OutcomeInv,
                    OutcomeIsOnChain, KnownOutcome, TypeInv, TypeOK, StoreTypeOK
<1>3. CASE RecordFailure(r) \/ RecordEstimate(r) \/ MarkQueued(r)
  <2>1. PICK new \in {"failed", "pending", "queued"}, reply \in Replies :
           UpdateExecutionStatus(r, new, reply)
    BY <1>3 DEF RecordFailure, RecordEstimate, MarkQueued
  <2>2. OutcomeIsOnChain'
    BY <1>1, <2>1, StatusBacked DEF OutcomeInv
  <2>3. QED
    BY <1>1, <2>2 DEF OutcomeInv, KnownOutcome
<1>4. CASE Simulate(r) \/ Enqueue(r) \/ HandlerDropped(r)
  <2>1. UNCHANGED status
    BY <1>4 DEF Simulate, Enqueue, HandlerDropped, storeVars
  <2>2. QED
    BY <1>1, <2>1, NothingSaid DEF OutcomeInv, KnownOutcome
<1>5. QED
  BY <1>2, <1>3, <1>4 DEF HandlerStep

\* The chain only adds outcomes, and the worker that watches an included
\* operation will read its outcome.
LEMMA ChainOutcome ==
    ASSUME TypeInv, OutcomeInv, ChainStep
    PROVE  OutcomeInv'
<1> USE DEF TypeInv, TypeOK, ChainTypeOK
<1>1. UNCHANGED <<status, events, pc, held, verdict>>
  BY DEF ChainStep, storeVars, workerVars
<1>2. ASSUME NEW w \in WorkerIds, NEW success \in BOOLEAN, IncludeWatched(w, success)
      PROVE  OutcomeInv'
  <2> DEFINE q == watched[w].req
             seen == IF success THEN "succeeded" ELSE "reverted"
  <2>1. watched[w] \in [req : Requests, state : OpState] /\ q \in Requests
    BY <1>2 DEF IncludeWatched, NoOp
  <2>2. /\ \A r \in Requests : executed[r] \in Nat /\ undone[r] \in Nat
        /\ \A r \in Requests : executed'[r] >= executed[r] /\ undone'[r] >= undone[r]
        /\ executed' \in [Requests -> Nat] /\ undone' \in [Requests -> Nat]
        /\ IF success THEN executed'[q] > 0 ELSE undone'[q] > 0
    BY <1>2, <2>1 DEF IncludeWatched, Include
  <2>3. /\ \A v \in WorkerIds \ {w} : watched'[v] = watched[v]
        /\ watched'[w] = [watched[w] EXCEPT !.state = seen]
    BY <1>2 DEF IncludeWatched
  <2>4. watched'[w].req = q /\ watched'[w].state = seen /\ watched'[w] # NoOp
    BY <2>1, <2>3 DEF NoOp
  <2>5. ASSUME NEW v \in WorkerIds
        PROVE  KnownOutcome(v)'
    <3>1. KnownOutcome(v)
      BY DEF OutcomeInv
    <3>2. HandOK(v)
      OBVIOUS
    <3>3. \/ watched[v] = NoOp
          \/ watched[v].req \in Requests
      OBVIOUS
    <3>4. /\ pc[v] \in {"confirm_status", "confirm_row", "revert_status", "notify"} =>
                held[v].req \in Requests
      BY <3>2 DEF HandOK, Job
    <3>5. CASE v = w
      <4> HIDE DEF seen, q
      <4>1. seen \in {"succeeded", "reverted"} /\ (seen = "succeeded" <=> success)
        BY DEF seen
      <4>2. QED
        BY <1>1, <2>1, <2>2, <2>4, <3>1, <3>4, <3>5, <4>1 DEF KnownOutcome, q
    <3>6. CASE v # w
      BY <1>1, <2>2, <2>3, <3>1, <3>3, <3>4, <3>6 DEF KnownOutcome, NoOp
    <3>7. QED
      BY <3>5, <3>6
  <2>6. OutcomeIsOnChain'
    BY <1>1, <2>2 DEF OutcomeInv, OutcomeIsOnChain
  <2>7. QED
    BY <2>5, <2>6 DEF OutcomeInv
<1>3. ASSUME NEW q \in Requests, NEW success \in BOOLEAN,
             IncludeOrphan(q, success) \/ ExpireOrphan(q)
      PROVE  OutcomeInv'
  <2>1. UNCHANGED watched
    BY <1>3 DEF IncludeOrphan, ExpireOrphan
  <2>2. /\ \A r \in Requests : executed[r] \in Nat /\ undone[r] \in Nat
        /\ \A r \in Requests : executed'[r] >= executed[r] /\ undone'[r] >= undone[r]
        /\ executed' \in [Requests -> Nat] /\ undone' \in [Requests -> Nat]
    BY <1>3 DEF IncludeOrphan, Include, ExpireOrphan
  <2>3. ASSUME NEW v \in WorkerIds
        PROVE  KnownOutcome(v)'
    <3>1. KnownOutcome(v) /\ HandOK(v)
      BY DEF OutcomeInv
    <3>2. watched[v] = NoOp \/ watched[v].req \in Requests
      OBVIOUS
    <3>3. pc[v] \in {"confirm_status", "confirm_row", "revert_status", "notify"} =>
             held[v].req \in Requests
      BY <3>1 DEF HandOK, Job
    <3>4. QED
      BY <1>1, <2>1, <2>2, <3>1, <3>2, <3>3 DEF KnownOutcome, NoOp
  <2>4. QED
    BY <1>1, <2>2, <2>3 DEF OutcomeInv, OutcomeIsOnChain
<1>4. QED
  BY <1>2, <1>3 DEF ChainStep

\* Start-up and panics say nothing; after a crash no worker knows anything.
LEMMA ProcessOutcome ==
    ASSUME TypeInv, OutcomeInv,
           Boot \/ BootRecovers \/ BootNext \/ Crash \/ \E w \in WorkerIds : WorkerPanics(w)
    PROVE  OutcomeInv'
<1> USE DEF TypeInv, TypeOK, WorkerTypeOK
<1>1. UNCHANGED <<status, events, executed, undone>>
  BY DEF Boot, BootRecovers, BootNext, Crash, WorkerPanics, LoopPanics, Abandon,
         storeVars, chainVars, workerVars
<1>2. CASE Boot \/ BootRecovers \/ BootNext
  <2>1. /\ UNCHANGED <<watched, held, verdict>>
        /\ \A w \in WorkerIds : pc'[w] = pc[w] \/ pc'[w] = "idle"
    BY <1>2 DEF Boot, BootRecovers, BootNext, chainVars, workerVars
  <2>2. QED
    BY <1>1, <2>1, NothingSaid, OthersKnow, NoClaim DEF OutcomeInv
<1>3. CASE Crash
  <2>1. \A w \in WorkerIds : pc'[w] = "stopped" /\ watched'[w] = NoOp
    BY <1>3 DEF Crash, Abandon
  <2>2. QED
    BY <1>1, <2>1, NothingSaid DEF OutcomeInv, KnownOutcome, NoOp
<1>4. ASSUME NEW w \in WorkerIds, WorkerPanics(w)
      PROVE  OutcomeInv'
  <2>1. /\ UNCHANGED watched
        /\ pc'[w] = "recovering"
        /\ \A v \in WorkerIds \ {w} : /\ pc'[v] = pc[v] /\ held'[v] = held[v]
                                      /\ verdict'[v] = verdict[v]
    BY <1>4 DEF WorkerPanics, LoopPanics, chainVars
  <2>2. QED
    BY <1>1, <2>1, NothingSaid, OthersKnow, NoClaim DEF OutcomeInv
<1>5. QED
  BY <1>2, <1>3, <1>4
-----------------------------------------------------------------------------
LEMMA OutcomeInvInit == Init => OutcomeInv
<1> SUFFICES ASSUME Init
             PROVE  OutcomeInv
  OBVIOUS
<1>1. OutcomeIsOnChain
  <2>1. ASSUME NEW r \in Requests
        PROVE  /\ status[r] \notin {"confirmed", "reverted"}
               /\ ToSet(events[r]) = {}
    BY DEF Init, ToSet
  <2>2. QED
    BY <2>1 DEF OutcomeIsOnChain
<1>2. QED
  BY <1>1 DEF Init, OutcomeInv, KnownOutcome, NoOp

LEMMA OutcomeInvStep == TypeInv /\ OutcomeInv /\ [Next]_vars => OutcomeInv'
<1> SUFFICES ASSUME TypeInv, OutcomeInv, [Next]_vars
             PROVE  OutcomeInv'
  OBVIOUS
<1>1. ASSUME NEW w \in WorkerIds, WorkerStep(w)
      PROVE  OutcomeInv'
  BY <1>1, QuietStepOutcome, MisreadOutcome, SubmitOutcome, ReceiptOutcome, RecordOutcome, AnnounceOutcome
     DEF WorkerStep
<1>2. CASE UNCHANGED vars
  BY <1>2, NothingSaid DEF vars, storeVars, chainVars, workerVars, OutcomeInv, KnownOutcome
<1>3. QED
  BY <1>1, <1>2, HandlerOutcome, ChainOutcome, ProcessOutcome DEF Next

\* Whatever crashes, fails or is retried, the platform says confirmed, in the
\* database or by webhook, only of a request whose operation was included with
\* success, and reverted only of one that was included and reverted, unless
\* the bundler words another failure that way.
\* (worker/mod.rs:148-268, erc4337/mod.rs:778-849)
THEOREM OutcomeCorrect == Spec => []OutcomeIsOnChain
<1>1. OutcomeInv => OutcomeIsOnChain
  BY DEF OutcomeInv
<1>2. Spec => []OutcomeInv
  BY OutcomeInvInit, OutcomeInvStep, HandsCorrect, PTL DEF Spec
<1>3. QED
  BY <1>1, <1>2, PTL

-----------------------------------------------------------------------------
(* Where the jobs of a request are.                                        *)

\* The payloads of request r, and a list that has one of them.
JobsOf(r) == {job \in Job : job.req = r}

Has(r, list) == Occurs(JobsOf(r), list)

\* The awaits at which a worker has no job, those of the poison-pill guard,
\* and those at which the worker has the only trace of the job.
AwayPc == {"idle", "recovering", "stopped"}

PoisonPc == {"poison_status", "dlq_rem", "dlq_push"}

HandPc == {"requeue_push", "exhaust_push", "dlq_push"}

\* The job of the worker went to the dead-letter list with its attempts used
\* up, and this is about to be said.
Buries(w) ==
    \/ pc[w] = "exhaust_status"
    \/ pc[w] = "notify" /\ verdict[w] = "failed" /\ held[w].attempt < MaxAttempts

\* The worker has taken its job and not yet removed it from its list.
Keeps(w) == pc[w] \notin AwayPc \cup HandPc /\ ~Buries(w)

\* The attempts of the job in hand at each await.
LimitOK(w) ==
    /\ pc[w] \in AwayPc => held[w] = NoJob
    /\ pc[w] \notin AwayPc \cup PoisonPc \cup {"notify"} => held[w].attempt < MaxAttempts
    /\ pc[w] \in PoisonPc /\ held[w] # Corrupt => held[w].attempt >= MaxAttempts
    /\ pc[w] = "notify" /\ verdict[w] # "failed" => held[w].attempt < MaxAttempts
    /\ pc[w] = "requeue_push" => held[w].attempt + 1 < MaxAttempts
    /\ pc[w] \in {"exhaust_push", "exhaust_status"} => held[w].attempt + 1 >= MaxAttempts

\* Workers hold jobs only while the process serves.
LimitInv ==
    /\ \A w \in WorkerIds : LimitOK(w)
    /\ phase # "serving" => \A w \in WorkerIds : pc[w] = "stopped"
-----------------------------------------------------------------------------
\* A step of w decides what w has in hand, and no other worker notices.
LEMMA WorkerStepLimits ==
    ASSUME TypeInv, LimitInv, NEW w \in WorkerIds, WorkerStep(w), UNCHANGED phase
    PROVE  LimitInv'
<1> USE DEF TypeInv, TypeOK, WorkerTypeOK, AwayPc, PoisonPc
<1>1. pc[w] # "stopped" /\ phase = "serving"
  BY DEF LimitInv, WorkerStep, Dequeue, PoisonStatus, MoveToDlqRemove, MoveToDlqPush,
         Broadcast, ExecuteFails, ExecuteFailsAsRevert, SubmitUserOp, ReceiptConfirmed,
         ReceiptReverted, ReceiptTimeout, ExecutionPanics, ConfirmStatus, ConfirmRow,
         RevertStatus, FireWebhook, Ack, ReEnqueueAck, ReEnqueuePush, ExhaustPush,
         ExhaustStatus, SupervisorRecovers, RunPc
<1>2. \A v \in WorkerIds \ {w} : /\ pc'[v] = pc[v] /\ held'[v] = held[v]
                                 /\ verdict'[v] = verdict[v]
  BY DEF WorkerStep, Dequeue, PoisonStatus, MoveToDlqRemove, MoveToDlqPush,
         Broadcast, ExecuteFails, ExecuteFailsAsRevert, SubmitUserOp, ReceiptConfirmed,
         ReceiptReverted, ReceiptTimeout, ExecutionPanics, ConfirmStatus, ConfirmRow,
         RevertStatus, FireWebhook, Ack, ReEnqueueAck, ReEnqueuePush, ExhaustPush,
         ExhaustStatus, SupervisorRecovers, Goto, Finish
<1>3. LimitOK(w) /\ HandOK(w)
  BY DEF LimitInv
<1>4. LimitOK(w)'
  <2>1. CASE Dequeue(w)
    <3>1. CASE UNCHANGED <<pc, held, verdict>>
      BY <1>3, <3>1 DEF LimitOK
    <3>2. CASE /\ held' = [held EXCEPT ![w] = Last(queue)]
               /\ pc' = [pc EXCEPT ![w] =
                           CASE Last(queue) = Corrupt -> "dlq_rem"
                             [] Last(queue) # Corrupt /\ Last(queue).attempt >= MaxAttempts
                                  -> "poison_status"
                             [] OTHER -> "broadcast"]
      <4>1. Last(queue) \in Payload
        BY <2>1, DequeueJobType DEF Dequeue
      <4>2. Last(queue) # Corrupt => Last(queue).attempt \in Nat
        BY <4>1, Constants DEF Payload, Job
      <4>3. held'[w] = Last(queue)
        BY <3>2
      <4>4. /\ Last(queue) = Corrupt => pc'[w] = "dlq_rem"
            /\ Last(queue) # Corrupt /\ Last(queue).attempt >= MaxAttempts =>
                  pc'[w] = "poison_status"
            /\ Last(queue) # Corrupt /\ ~(Last(queue).attempt >= MaxAttempts) =>
                  pc'[w] = "broadcast"
        BY <3>2
      <4>5. QED
        BY <4>2, <4>3, <4>4, Constants DEF LimitOK
    <3>3. QED
      BY <2>1, <3>1, <3>2 DEF Dequeue
  <2>2. CASE MoveToDlqPush(w) \/ Ack(w) \/ ReEnqueuePush(w)
    <3>1. Finish(w)
      BY <2>2 DEF MoveToDlqPush, Ack, ReEnqueuePush
    <3>2. QED
      BY <3>1 DEF Finish, LimitOK
  <2>3. CASE MoveToDlqRemove(w)
    BY <1>3, <2>3 DEF MoveToDlqRemove, Goto, Finish, LimitOK
  <2>4. CASE PoisonStatus(w) \/ ExhaustStatus(w)
    BY <1>3, <2>4 DEF PoisonStatus, ExhaustStatus, LimitOK
  <2>5. CASE \/ Broadcast(w) \/ ExecuteFails(w) \/ ExecuteFailsAsRevert(w)
             \/ SubmitUserOp(w) \/ ReceiptConfirmed(w) \/ ReceiptReverted(w)
             \/ ReceiptTimeout(w) \/ ExecutionPanics(w) \/ ConfirmStatus(w)
    <3>1. /\ pc[w] \notin AwayPc \cup PoisonPc \cup {"notify"}
          /\ pc'[w] \in {"execute", "requeue_ack", "revert_status", "await_receipt",
                         "confirm_status", "confirm_row"}
          /\ held'[w] = held[w]
      BY <2>5 DEF Broadcast, ExecuteFails, ExecuteFailsAsRevert, SubmitUserOp,
                  ReceiptConfirmed, ReceiptReverted, ReceiptTimeout, ExecutionPanics,
                  ConfirmStatus, Goto, RunPc
    <3>2. QED
      BY <1>3, <3>1 DEF LimitOK
  <2>6. CASE ConfirmRow(w) \/ RevertStatus(w)
    BY <1>3, <2>6 DEF ConfirmRow, RevertStatus, LimitOK
  <2>7. CASE FireWebhook(w)
    <3>1. held[w] \in Job /\ held[w].attempt \in Nat
      BY <1>3, <2>7 DEF FireWebhook, HandOK, Job
    <3>2. CASE held[w].attempt >= MaxAttempts
      <4>1. pc'[w] = "dlq_rem" /\ held'[w] = held[w]
        BY <2>7, <3>1, <3>2, Constants DEF FireWebhook, Goto
      <4>2. QED
        BY <3>2, <4>1 DEF LimitOK
    <3>3. CASE held[w].attempt < MaxAttempts /\ verdict[w] = "failed"
      <4>1. Finish(w)
        BY <2>7, <3>1, <3>3, Constants DEF FireWebhook
      <4>2. QED
        BY <4>1 DEF Finish, LimitOK
    <3>4. CASE held[w].attempt < MaxAttempts /\ verdict[w] # "failed"
      <4>1. pc'[w] = "ack" /\ held'[w] = held[w]
        BY <2>7, <3>1, <3>4, Constants DEF FireWebhook, Goto
      <4>2. QED
        BY <3>4, <4>1 DEF LimitOK
    <3>5. QED
      BY <3>1, <3>2, <3>3, <3>4, Constants
  <2>8. CASE ReEnqueueAck(w)
    <3>1. held[w] \in Job /\ held[w].attempt \in Nat
      BY <1>3, <2>8 DEF ReEnqueueAck, HandOK, Job
    <3>2. /\ held'[w] = held[w]
          /\ pc'[w] = IF held[w].attempt + 1 >= MaxAttempts THEN "exhaust_push"
                                                           ELSE "requeue_push"
      BY <2>8, <3>1, BumpedType DEF ReEnqueueAck, Goto
    <3>3. held[w].attempt < MaxAttempts
      BY <1>3, <2>8 DEF ReEnqueueAck, LimitOK
    <3>4. QED
      BY <3>1, <3>2, <3>3, Constants DEF LimitOK
  <2>9. CASE ExhaustPush(w)
    BY <1>3, <2>9 DEF ExhaustPush, Goto, LimitOK
  <2>10. CASE SupervisorRecovers(w)
    BY <1>3, <2>10 DEF SupervisorRecovers, Goto, LimitOK
  <2>11. QED
    BY <2>1, <2>2, <2>3, <2>4, <2>5, <2>6, <2>7, <2>8, <2>9, <2>10 DEF WorkerStep
<1>5. QED
  BY <1>1, <1>2, <1>4 DEF LimitInv, LimitOK

LEMMA LimitInvInit == Init => LimitInv
  BY DEF Init, LimitInv, LimitOK, AwayPc, PoisonPc

LEMMA LimitInvStep == TypeInv /\ LimitInv /\ [Next]_vars => LimitInv'
<1> SUFFICES ASSUME TypeInv, LimitInv, [Next]_vars
             PROVE  LimitInv'
  OBVIOUS
<1>1. ASSUME NEW w \in WorkerIds, WorkerStep(w), UNCHANGED <<call, processVars>>
      PROVE  LimitInv'
  BY <1>1, WorkerStepLimits DEF processVars
<1>2. ASSUME NEW w \in WorkerIds, WorkerPanics(w)
      PROVE  LimitInv'
  <2>1. /\ pc'[w] = "recovering" /\ held'[w] = NoJob
        /\ \A v \in WorkerIds \ {w} : /\ pc'[v] = pc[v] /\ held'[v] = held[v]
                                      /\ verdict'[v] = verdict[v]
        /\ pc[w] # "stopped" /\ UNCHANGED phase
    BY <1>2 DEF WorkerPanics, LoopPanics, TypeInv, TypeOK, WorkerTypeOK
  <2>2. QED
    BY <2>1 DEF LimitInv, LimitOK, AwayPc, PoisonPc
<1>3. CASE BootNext
  <2>1. \A w \in WorkerIds : pc[w] = "stopped" /\ held[w] = NoJob
    BY <1>3 DEF BootNext, LimitInv, LimitOK, AwayPc
  <2>2. /\ UNCHANGED held
        /\ \A w \in WorkerIds : pc'[w] \in {"stopped", "idle"}
        /\ phase' # "serving" => UNCHANGED pc
    BY <1>3, <2>1 DEF BootNext
  <2>3. QED
    BY <2>1, <2>2 DEF LimitInv, LimitOK, AwayPc, PoisonPc
<1>4. CASE Crash
  BY <1>4 DEF Crash, LimitInv, LimitOK, AwayPc, PoisonPc
<1>5. CASE \/ Boot \/ BootRecovers \/ ChainStep \/ UNCHANGED vars
           \/ \E r \in Requests : /\ phase = "serving"
                                  /\ HandlerStep(r) \/ HandlerDropped(r)
                                  /\ UNCHANGED processVars
  <2>1. UNCHANGED <<pc, held, verdict>>
    BY <1>5 DEF Boot, BootRecovers, ChainStep, vars, HandlerStep, HandlerDropped,
                InsertRequest, Simulate, RecordFailure, RecordEstimate, Enqueue,
                MarkQueued, workerVars
  <2>2. phase' # "serving" => phase # "serving"
    BY <1>5 DEF Boot, BootRecovers, ChainStep, vars, processVars
  <2>3. QED
    BY <2>1, <2>2 DEF LimitInv, LimitOK
<1>6. QED
  BY <1>1, <1>2, <1>3, <1>4, <1>5 DEF Next
-----------------------------------------------------------------------------
\* What each Redis command does to the places of the members of any set T.
LEMMA EnqueuePlaces ==
    ASSUME QueueTypeOK, NEW job \in Payload, NEW reply, EnqueueJob(job, reply), NEW T
    PROVE  /\ Occurs(T, queue') <=> \/ Applied(reply) /\ Reserialized(job) \in T
                                    \/ Occurs(T, queue)
           /\ Once(T, queue) /\ ~(Reserialized(job) \in T /\ Occurs(T, queue)) =>
                 Once(T, queue')
           /\ UNCHANGED <<processing, deadLetter>>
<1>1. queue \in Seq(Payload) /\ Reserialized(job) \in Payload
  BY ReserializedType DEF QueueTypeOK
<1>2. QED
  BY <1>1, ConsPlaces DEF EnqueueJob

LEMMA BuryPlaces ==
    ASSUME QueueTypeOK, NEW payload \in Payload, NEW reply, PushToDlq(payload, reply), NEW T
    PROVE  /\ Occurs(T, deadLetter') <=> \/ Applied(reply) /\ Reserialized(payload) \in T
                                         \/ Occurs(T, deadLetter)
           /\ Once(T, deadLetter) /\ ~(Reserialized(payload) \in T /\ Occurs(T, deadLetter)) =>
                 Once(T, deadLetter')
           /\ UNCHANGED <<queue, processing>>
<1>1. deadLetter \in Seq(Payload) /\ Reserialized(payload) \in Payload
  BY ReserializedType DEF QueueTypeOK
<1>2. QED
  BY <1>1, ConsPlaces DEF PushToDlq

LEMMA DequeuePlaces ==
    ASSUME QueueTypeOK, NEW w \in WorkerIds, DequeueJob(w), NEW T
    PROVE  /\ Last(queue) \in Payload
           /\ Occurs(T, queue) <=> Last(queue) \in T \/ Occurs(T, queue')
           /\ Once(T, queue) => Once(T, queue') /\ ~(Last(queue) \in T /\ Occurs(T, queue'))
           /\ Occurs(T, processing'[w]) <=> Last(queue) \in T \/ Occurs(T, processing[w])
           /\ Once(T, processing[w]) /\ ~(Last(queue) \in T /\ Occurs(T, processing[w])) =>
                 Once(T, processing'[w])
           /\ \A v \in WorkerIds \ {w} : processing'[v] = processing[v]
           /\ UNCHANGED deadLetter
<1>1. queue \in Seq(Payload) /\ queue # <<>> /\ processing[w] \in Seq(Payload)
  BY DEF QueueTypeOK, DequeueJob
<1>2. Last(queue) \in Payload
  BY DequeueJobType
<1>3. /\ queue' = Front(queue) /\ processing'[w] = Cons(Last(queue), processing[w])
      /\ \A v \in WorkerIds \ {w} : processing'[v] = processing[v]
  BY DEF QueueTypeOK, DequeueJob
<1>4. QED
  BY <1>1, <1>2, <1>3, PopPlaces, ConsPlaces DEF DequeueJob

LEMMA RemovePlaces ==
    ASSUME QueueTypeOK, NEW w \in WorkerIds, NEW payload, NEW reply,
           RemoveFromProcessing(w, payload, reply), NEW T
    PROVE  /\ Occurs(T, processing'[w]) => Occurs(T, processing[w])
           /\ Occurs(T, processing[w]) =>
                 Reserialized(payload) \in T \/ Occurs(T, processing'[w])
           /\ Once(T, processing[w]) => Once(T, processing'[w])
           /\ (Applied(reply) /\ Once(T, processing[w]) /\ Reserialized(payload) \in T
                 /\ Occurs({Reserialized(payload)}, processing[w])) =>
                    ~Occurs(T, processing'[w])
           /\ \A v \in WorkerIds \ {w} : processing'[v] = processing[v]
           /\ UNCHANGED <<queue, deadLetter>>
<1>1. processing[w] \in Seq(Payload)
  BY DEF QueueTypeOK
<1>2. /\ \A v \in WorkerIds \ {w} : processing'[v] = processing[v]
      /\ processing'[w] = IF Applied(reply)
                          THEN RemoveFirst(processing[w], Reserialized(payload))
                          ELSE processing[w]
  BY DEF QueueTypeOK, RemoveFromProcessing
<1>3. UNCHANGED <<queue, deadLetter>>
  BY DEF RemoveFromProcessing
<1> DEFINE e == Reserialized(payload)
           after == RemoveFirst(processing[w], e)
<1>4. /\ Occurs(T, after) => Occurs(T, processing[w])
      /\ Occurs(T, processing[w]) => e \in T \/ Occurs(T, after)
      /\ Once(T, processing[w]) => Once(T, after)
      /\ Once(T, processing[w]) /\ e \in T /\ Occurs({e}, processing[w]) => ~Occurs(T, after)
  BY <1>1, RemoveFirstPlaces
<1>5. processing'[w] = after \/ (~Applied(reply) /\ processing'[w] = processing[w])
  BY <1>2
<1> HIDE DEF e, after
<1>6. QED
  BY <1>2, <1>3, <1>4, <1>5 DEF e

LEMMA RecoverPlaces ==
    ASSUME QueueTypeOK, NEW w \in WorkerIds, NEW reply, RecoverOne(w, reply), NEW T
    PROVE  /\ UNCHANGED deadLetter
           /\ \A v \in WorkerIds \ {w} : processing'[v] = processing[v]
           /\ \/ UNCHANGED <<queue, processing>>
              \/ \E job \in Payload :
                    /\ Occurs(T, queue') <=> job \in T \/ Occurs(T, queue)
                    /\ Once(T, queue) /\ ~(job \in T /\ Occurs(T, queue)) => Once(T, queue')
                    /\ Occurs(T, processing[w]) <=> job \in T \/ Occurs(T, processing'[w])
                    /\ Once(T, processing[w]) =>
                          Once(T, processing'[w]) /\ ~(job \in T /\ Occurs(T, processing'[w]))
<1>1. queue \in Seq(Payload) /\ processing[w] \in Seq(Payload) /\ processing[w] # <<>>
  BY DEF QueueTypeOK, RecoverOne
<1>2. Last(processing[w]) \in Payload
  BY <1>1, PopType
<1>3. CASE Applied(reply)
  <2>1. /\ queue' = Cons(Last(processing[w]), queue) /\ processing'[w] = Front(processing[w])
        /\ \A v \in WorkerIds \ {w} : processing'[v] = processing[v]
    BY <1>3 DEF QueueTypeOK, RecoverOne
  <2>2. QED
    BY <1>1, <1>2, <2>1, PopPlaces, ConsPlaces DEF RecoverOne
<1>4. CASE ~Applied(reply)
  BY <1>4 DEF RecoverOne
<1>5. QED
  BY <1>3, <1>4

\* The payload a worker writes is a job of the request it holds.
LEMMA SameRequest ==
    ASSUME NEW r, NEW job \in Job
    PROVE  /\ Reserialized(job) \in JobsOf(r) <=> job \in JobsOf(r)
           /\ Reserialized(Bumped(job)) \in JobsOf(r) <=> job \in JobsOf(r)
           /\ job \in JobsOf(job.req)
<1>1. job # Corrupt /\ Bumped(job) # Corrupt /\ Bumped(job) \in Job /\ Corrupt \notin Job
  BY BumpedType, Constants
<1>2. Reserialized(job) \in Job /\ Reserialized(job).req = job.req
  BY <1>1 DEF Reserialized, Job
<1>3. Reserialized(Bumped(job)) \in Job /\ Reserialized(Bumped(job)).req = Bumped(job).req
  BY <1>1 DEF Reserialized, Job
<1>4. QED
  BY <1>1, <1>2, <1>3, BumpedType DEF JobsOf

LEMMA CorruptIsNobodys ==
    ASSUME NEW r
    PROVE  Reserialized(Corrupt) \notin JobsOf(r) /\ Corrupt \notin JobsOf(r)
  BY Constants DEF JobsOf, Reserialized
-----------------------------------------------------------------------------
\* A step of w is not noticed by the other workers.
LEMMA WorkerFrame ==
    ASSUME TypeInv, NEW w \in WorkerIds, WorkerStep(w) \/ LoopPanics(w)
    PROVE  \A v \in WorkerIds \ {w} : /\ pc'[v] = pc[v] /\ held'[v] = held[v]
                                      /\ verdict'[v] = verdict[v]
  BY DEF WorkerStep, Dequeue, PoisonStatus, MoveToDlqRemove, MoveToDlqPush,
         Broadcast, ExecuteFails, ExecuteFailsAsRevert, SubmitUserOp, ReceiptConfirmed,
         ReceiptReverted, ReceiptTimeout, ExecutionPanics, ConfirmStatus, ConfirmRow,
         RevertStatus, FireWebhook, Ack, ReEnqueueAck, ReEnqueuePush, ExhaustPush,
         ExhaustStatus, SupervisorRecovers, LoopPanics, Goto, Finish,
         TypeInv, TypeOK, WorkerTypeOK

\* The steps of a worker that issue a list command.
ListStep(w) ==
    \/ Dequeue(w) \/ MoveToDlqRemove(w) \/ MoveToDlqPush(w) \/ Ack(w)
    \/ ReEnqueueAck(w) \/ ReEnqueuePush(w) \/ ExhaustPush(w)
    \/ \E reply \in Replies :
          /\ pc[w] = "recovering" /\ Answer(reply) /\ RecoverOne(w, reply)
          /\ Goto(w, IF reply = "ok" THEN "recovering" ELSE "idle")

\* In any other step the lists stay as they are, and so does what a worker
\* has in hand and whether it keeps, carries or buries it, unless it is done
\* with it.
SameHand(w) ==
    \/ pc'[w] \in AwayPc /\ held'[w] = NoJob
    \/ /\ held'[w] = held[w]
       /\ pc'[w] = pc[w] \/ {pc[w], pc'[w]} \cap HandPc = {}
       /\ Buries(w)' <=> Buries(w)
       /\ pc'[w] \notin AwayPc <=> pc[w] \notin AwayPc

Quiet == UNCHANGED queueVars /\ \A w \in WorkerIds : SameHand(w)

LEMMA WorkerQuiet ==
    ASSUME TypeInv, LimitInv, NEW w \in WorkerIds, WorkerStep(w) \/ LoopPanics(w)
    PROVE  ListStep(w) \/ Quiet
<1> USE DEF TypeInv, TypeOK, WorkerTypeOK
<1>1. ASSUME NEW v \in WorkerIds \ {w}
      PROVE  SameHand(v)
  BY <1>1, WorkerFrame DEF SameHand, Buries
<1>2. LimitOK(w) /\ HandOK(w)
  BY DEF LimitInv
<1>3. CASE PoisonStatus(w)
  <2>1. ~(held[w].attempt < MaxAttempts) /\ UNCHANGED <<queueVars, held>> /\ pc'[w] = "notify"
    <3>1. held[w] \in Job /\ held[w].attempt >= MaxAttempts
      BY <1>2, <1>3, Constants DEF PoisonStatus, HandOK, LimitOK, PoisonPc
    <3>2. held[w].attempt \in Nat
      BY <3>1 DEF Job
    <3>3. QED
      BY <1>3, <3>1, <3>2, Constants DEF PoisonStatus
  <2>2. QED
    BY <1>1, <1>3, <2>1 DEF PoisonStatus, Quiet, SameHand, Buries, AwayPc, HandPc
<1>4. CASE \/ Broadcast(w) \/ ExecuteFails(w) \/ ExecuteFailsAsRevert(w) \/ SubmitUserOp(w)
           \/ ReceiptConfirmed(w) \/ ReceiptReverted(w) \/ ReceiptTimeout(w)
           \/ ExecutionPanics(w) \/ ConfirmStatus(w)
  <2>1. /\ UNCHANGED <<queueVars, held>>
        /\ {pc[w], pc'[w]} \subseteq {"broadcast", "execute", "await_receipt", "requeue_ack",
                                      "revert_status", "confirm_status", "confirm_row"}
    BY <1>4 DEF Broadcast, ExecuteFails, ExecuteFailsAsRevert, SubmitUserOp,
                ReceiptConfirmed, ReceiptReverted, ReceiptTimeout, ExecutionPanics,
                ConfirmStatus, Goto, RunPc
  <2>2. QED
    BY <1>1, <2>1 DEF Quiet, SameHand, Buries, AwayPc, HandPc
<1>5. CASE ConfirmRow(w) \/ RevertStatus(w)
  <2>1. /\ UNCHANGED <<queueVars, held>> /\ pc'[w] = "notify" /\ verdict'[w] # "failed"
        /\ pc[w] \in {"confirm_row", "revert_status"}
    BY <1>5 DEF ConfirmRow, RevertStatus
  <2>2. QED
    BY <1>1, <2>1 DEF Quiet, SameHand, Buries, AwayPc, HandPc
<1>6. CASE ExhaustStatus(w)
  <2>1. /\ UNCHANGED <<queueVars, held>> /\ pc'[w] = "notify" /\ verdict'[w] = "failed"
        /\ pc[w] = "exhaust_status" /\ held[w].attempt < MaxAttempts
    BY <1>2, <1>6 DEF ExhaustStatus, LimitOK, AwayPc, PoisonPc
  <2>2. QED
    BY <1>1, <2>1 DEF Quiet, SameHand, Buries, AwayPc, HandPc
<1>7. CASE FireWebhook(w)
  <2>1. held[w].attempt \in Nat /\ pc[w] = "notify" /\ UNCHANGED queueVars
    BY <1>2, <1>7 DEF FireWebhook, HandOK, Job
  <2>2. CASE held[w].attempt >= MaxAttempts
    <3>1. pc'[w] = "dlq_rem" /\ held'[w] = held[w] /\ ~(held[w].attempt < MaxAttempts)
      BY <1>7, <2>1, <2>2, Constants DEF FireWebhook, Goto
    <3>2. QED
      BY <1>1, <2>1, <3>1 DEF Quiet, SameHand, Buries, AwayPc, HandPc
  <2>3. CASE held[w].attempt < MaxAttempts /\ verdict[w] = "failed"
    <3>1. Finish(w)
      BY <1>7, <2>1, <2>3, Constants DEF FireWebhook
    <3>2. QED
      BY <1>1, <2>1, <3>1 DEF Quiet, SameHand, Finish, AwayPc
  <2>4. CASE held[w].attempt < MaxAttempts /\ verdict[w] # "failed"
    <3>1. pc'[w] = "ack" /\ held'[w] = held[w]
      BY <1>7, <2>1, <2>4, Constants DEF FireWebhook, Goto
    <3>2. QED
      BY <1>1, <2>1, <2>4, <3>1 DEF Quiet, SameHand, Buries, AwayPc, HandPc
  <2>5. QED
    BY <2>1, <2>2, <2>3, <2>4, Constants
<1>8. CASE LoopPanics(w)
  BY <1>1, <1>8 DEF LoopPanics, Quiet, SameHand, AwayPc
<1>9. CASE SupervisorRecovers(w) /\ ~ListStep(w)
  <2>1. UNCHANGED queueVars /\ pc'[w] = "idle" /\ held'[w] = NoJob
    BY <1>2, <1>9 DEF SupervisorRecovers, ListStep, Goto, LimitOK, AwayPc
  <2>2. QED
    BY <1>1, <2>1 DEF Quiet, SameHand, AwayPc
<1>10. QED
  BY <1>3, <1>4, <1>5, <1>6, <1>7, <1>8, <1>9 DEF WorkerStep, ListStep

\* The steps that are quiet, and the others.
LEMMA StepKinds ==
    ASSUME TypeInv, LimitInv, [Next]_vars
    PROVE  \/ Quiet
           \/ \E r \in Requests : Enqueue(r) /\ UNCHANGED processVars
           \/ \E w \in WorkerIds : /\ WorkerStep(w) /\ ListStep(w)
                                   /\ UNCHANGED <<call, processVars>>
           \/ BootRecovers
<1>1. ASSUME NEW w \in WorkerIds, WorkerPanics(w)
      PROVE  Quiet
  <2>1. LoopPanics(w) /\ pc[w] # "recovering"
    BY <1>1 DEF WorkerPanics, LoopPanics
  <2>2. ~ListStep(w) \/ Quiet
    <3>1. pc'[w] = "recovering" /\ pc[w] # "recovering"
      BY <2>1 DEF LoopPanics, TypeInv, TypeOK, WorkerTypeOK
    <3>2. ASSUME ListStep(w)
          PROVE  FALSE
      BY <3>1, <3>2 DEF ListStep, Dequeue, MoveToDlqRemove, MoveToDlqPush, Ack, ReEnqueueAck,
                  ReEnqueuePush, ExhaustPush, Goto, Finish, TypeInv, TypeOK, WorkerTypeOK
    <3>3. QED
      BY <3>2
  <2>3. QED
    BY <2>1, <2>2, WorkerQuiet
<1>2. CASE BootNext \/ Crash
  <2>1. UNCHANGED queueVars
    BY <1>2 DEF BootNext, Crash, workerVars
  <2>2. Crash \/ \A w \in WorkerIds : pc[w] \in AwayPc /\ held[w] = NoJob
    BY <1>2 DEF BootNext, LimitInv, LimitOK, AwayPc
  <2>3. \A w \in WorkerIds : SameHand(w)
    BY <1>2, <2>2 DEF BootNext, Crash, SameHand, AwayPc
  <2>4. QED
    BY <2>1, <2>3 DEF Quiet
<1>3. CASE \/ Boot \/ ChainStep \/ UNCHANGED vars
           \/ \E r \in Requests :
                \/ InsertRequest(r) \/ Simulate(r) \/ RecordFailure(r)
                \/ RecordEstimate(r) \/ MarkQueued(r) \/ HandlerDropped(r)
  <2>1. UNCHANGED <<queueVars, pc, held, verdict>>
    BY <1>3 DEF Boot, ChainStep, vars, InsertRequest, Simulate, RecordFailure,
                RecordEstimate, MarkQueued, HandlerDropped, workerVars
  <2>2. QED
    BY <2>1 DEF Quiet, SameHand, Buries
<1>4. ASSUME NEW w \in WorkerIds, WorkerStep(w)
      PROVE  ListStep(w) \/ Quiet
  BY <1>4, WorkerQuiet
<1>5. QED
  BY <1>1, <1>2, <1>3, <1>4 DEF Next, HandlerStep
-----------------------------------------------------------------------------
\* A worker writes rows, runs and events of the request it holds only.
LEMMA OwnRequestOnly ==
    ASSUME TypeInv, NEW w \in WorkerIds, WorkerStep(w),
           NEW r \in Requests, held[w] \notin JobsOf(r)
    PROVE  /\ runs'[r] = runs[r] /\ events'[r] = events[r]
           /\ status'[r] = status[r] /\ txRows'[r] = txRows[r]
<1> USE DEF TypeInv, TypeOK, WorkerTypeOK, StoreTypeOK
<1>1. HandOK(w)
  OBVIOUS
<1>2. CASE PoisonStatus(w) \/ Broadcast(w) \/ ConfirmStatus(w) \/ RevertStatus(w) \/ ExhaustStatus(w)
  <2>1. held[w] \in Job /\ held[w].req # r
    BY <1>1, <1>2 DEF PoisonStatus, Broadcast, ConfirmStatus, RevertStatus, ExhaustStatus,
                      HandOK, JobsOf
  <2>2. QED
    BY <1>2, <2>1 DEF PoisonStatus, Broadcast, ConfirmStatus, RevertStatus, ExhaustStatus,
                      UpdateExecutionStatus, Goto
<1>3. CASE ConfirmRow(w) \/ FireWebhook(w)
  <2>1. held[w] \in Job /\ held[w].req # r
    BY <1>1, <1>3 DEF ConfirmRow, FireWebhook, HandOK, JobsOf
  <2>2. QED
    BY <1>3, <2>1 DEF ConfirmRow, FireWebhook, InsertTransaction, storeVars
<1>4. CASE ~(\/ PoisonStatus(w) \/ Broadcast(w) \/ ConfirmStatus(w) \/ RevertStatus(w)
             \/ ExhaustStatus(w) \/ ConfirmRow(w) \/ FireWebhook(w))
  <2>1. UNCHANGED <<runs, events, status, txRows>>
    BY <1>4 DEF WorkerStep, Dequeue, MoveToDlqRemove, MoveToDlqPush, ExecuteFails,
                ExecuteFailsAsRevert, SubmitUserOp, ReceiptConfirmed, ReceiptReverted,
                ReceiptTimeout, ExecutionPanics, Ack, ReEnqueueAck, ReEnqueuePush,
                ExhaustPush, SupervisorRecovers, storeVars
  <2>2. QED
    BY <2>1
<1>5. QED
  BY <1>2, <1>3, <1>4

\* So does the chain: an operation is of a request its submitter held.
LEMMA OwnOperationOnly ==
    ASSUME TypeInv, NEW w \in WorkerIds, WorkerStep(w),
           NEW r \in Requests, held[w] \notin JobsOf(r), r \notin orphaned,
           \A v \in WorkerIds : watched[v] # NoOp => watched[v].req # r
    PROVE  /\ r \notin orphaned'
           /\ \A v \in WorkerIds : watched'[v] # NoOp => watched'[v].req # r
           /\ UNCHANGED <<executed, undone>>
<1>1. CASE SubmitUserOp(w)
  <2>1. held[w] \in Job /\ held[w].req # r
    BY <1>1 DEF SubmitUserOp, TypeInv, HandOK, JobsOf
  <2>2. PICK submitters : Submit(held[w].req, submitters)
    BY <1>1 DEF SubmitUserOp
  <2>3. ASSUME NEW v \in WorkerIds
        PROVE  watched'[v] # NoOp => watched'[v].req # r
    BY <2>1, <2>2 DEF Submit, Pending
  <2>4. QED
    BY <2>1, <2>2, <2>3 DEF Submit
<1>2. CASE Abandon({w})
  BY <1>2 DEF Abandon, NoOp
<1>3. CASE ~SubmitUserOp(w) /\ ~Abandon({w})
  <2>1. UNCHANGED chainVars
    BY <1>3 DEF WorkerStep, Dequeue, PoisonStatus, MoveToDlqRemove, MoveToDlqPush,
                Broadcast, ExecuteFails, ExecuteFailsAsRevert, ReceiptConfirmed,
                ReceiptReverted, ReceiptTimeout, ExecutionPanics, ConfirmStatus, ConfirmRow,
                RevertStatus, FireWebhook, Ack, ReEnqueueAck, ReEnqueuePush, ExhaustPush,
                ExhaustStatus, SupervisorRecovers
  <2>2. QED
    BY <2>1 DEF chainVars
<1>4. QED
  BY <1>1, <1>2, <1>3
-----------------------------------------------------------------------------
\* The awaits of handle_execute before the push, and its refusal.
PreCall == {"new", "simulate", "record_failure", "record_estimate", "enqueue", "rejected"}

\* No list and no worker has a job of r.
Absent(r) ==
    /\ ~Has(r, queue) /\ ~Has(r, deadLetter)
    /\ \A w \in WorkerIds : ~Has(r, processing[w]) /\ held[w] \notin JobsOf(r)

\* Before its push a request has left no trace but its row.
Untouched(r) ==
    /\ Absent(r)
    /\ runs[r] = 0 /\ events[r] = <<>> /\ txRows[r] = 0
    /\ executed[r] = 0 /\ undone[r] = 0
    /\ r \notin orphaned
    /\ \A w \in WorkerIds : watched[w] # NoOp => watched[w].req # r

FreshInv == \A r \in Requests : call[r] \in PreCall => Untouched(r)

\* No job that may still be taken, and no worker's, is of T.
Nowhere(T) ==
    /\ ~Occurs(T, queue)
    /\ \A w \in WorkerIds : ~Occurs(T, processing[w]) /\ held[w] \notin T

\* The first job of a request.
FirstJob(r) == [req |-> r, attempt |-> 0, form |-> "current"]

\* It stays so when no push of a new text to the main list is of T.
LEMMA NowhereStep ==
    ASSUME TypeInv, LimitInv, [Next]_vars, NEW T, NoJob \notin T, Nowhere(T),
           \A q \in Requests : Enqueue(q) => Reserialized(FirstJob(q)) \notin T,
           \A w \in WorkerIds : ReEnqueuePush(w) => Reserialized(Bumped(held[w])) \notin T
    PROVE  Nowhere(T)'
<1> USE DEF TypeInv, TypeOK
<1>1. CASE Quiet
  BY <1>1 DEF Quiet, SameHand, Nowhere, queueVars
<1>2. ASSUME NEW q \in Requests, Enqueue(q)
      PROVE  Nowhere(T)'
  <2>1. FirstJob(q) \in Payload /\ \E reply \in Replies : EnqueueJob(FirstJob(q), reply)
    BY <1>2 DEF Enqueue, FirstJob, Payload, Job
  <2>2. UNCHANGED <<processing, held>> /\ (Occurs(T, queue') => Occurs(T, queue))
    BY <1>2, <2>1, EnqueuePlaces DEF Enqueue, workerVars
  <2>3. QED
    BY <2>2 DEF Nowhere
<1>3. ASSUME NEW w \in WorkerIds, NEW reply, RecoverOne(w, reply), UNCHANGED held
      PROVE  Nowhere(T)'
  <2>1. /\ Occurs(T, queue') => Occurs(T, queue) \/ Occurs(T, processing[w])
        /\ \A v \in WorkerIds : Occurs(T, processing'[v]) => Occurs(T, processing[v])
    BY <1>3, RecoverPlaces
  <2>2. QED
    BY <1>3, <2>1 DEF Nowhere
<1>4. CASE BootRecovers
  BY <1>3, <1>4 DEF BootRecovers, workerVars
<1>5. ASSUME NEW w \in WorkerIds, ListStep(w), WorkerStep(w)
      PROVE  Nowhere(T)'
  <2> USE DEF WorkerTypeOK
  <2>a. \A v \in WorkerIds \ {w} : held'[v] = held[v]
    BY <1>5, WorkerFrame
  <2>b. HandOK(w) /\ held[w] \notin T
    BY DEF Nowhere
  <2>1. CASE Dequeue(w)
    <3>1. DequeueJob(w) /\ held'[w] \in {held[w], Last(queue)}
      BY <2>1 DEF Dequeue
    <3>2. /\ Last(queue) \notin T
          /\ Occurs(T, queue') => Occurs(T, queue)
          /\ Occurs(T, processing'[w]) => Last(queue) \in T \/ Occurs(T, processing[w])
          /\ \A v \in WorkerIds \ {w} : processing'[v] = processing[v]
      BY <3>1, DequeuePlaces DEF Nowhere
    <3>3. QED
      BY <2>a, <2>b, <3>1, <3>2 DEF Nowhere
  <2>2. CASE MoveToDlqRemove(w) \/ Ack(w) \/ ReEnqueueAck(w)
    <3>1. /\ \E reply : RemoveFromProcessing(w, held[w], reply)
          /\ held'[w] \in {held[w], NoJob}
      BY <2>2 DEF MoveToDlqRemove, Ack, ReEnqueueAck, Goto, Finish
    <3>2. /\ UNCHANGED queue
          /\ \A v \in WorkerIds : Occurs(T, processing'[v]) => Occurs(T, processing[v])
      BY <3>1, RemovePlaces
    <3>3. QED
      BY <2>a, <2>b, <3>1, <3>2 DEF Nowhere
  <2>3. CASE ReEnqueuePush(w)
    <3>1. held[w] \in Job /\ \E reply : EnqueueJob(Bumped(held[w]), reply)
      BY <2>3, <2>b DEF ReEnqueuePush, HandOK
    <3>2. Bumped(held[w]) \in Payload
      BY <3>1, BumpedType DEF Payload
    <3>3. UNCHANGED processing /\ (Occurs(T, queue') => Occurs(T, queue))
      BY <2>3, <3>1, <3>2, EnqueuePlaces
    <3>4. held'[w] = NoJob
      BY <2>3 DEF ReEnqueuePush, Finish
    <3>5. QED
      BY <2>a, <3>3, <3>4 DEF Nowhere
  <2>4. CASE MoveToDlqPush(w) \/ ExhaustPush(w)
    <3>1. UNCHANGED <<queue, processing>> /\ held'[w] \in {held[w], NoJob}
      BY <2>4 DEF MoveToDlqPush, ExhaustPush, PushToDlq, Goto, Finish
    <3>2. QED
      BY <2>a, <2>b, <3>1 DEF Nowhere
  <2>5. CASE \E reply \in Replies :
                /\ pc[w] = "recovering" /\ Answer(reply) /\ RecoverOne(w, reply)
                /\ Goto(w, IF reply = "ok" THEN "recovering" ELSE "idle")
    BY <1>3, <2>5 DEF Goto
  <2>6. QED
    BY <1>5, <2>1, <2>2, <2>3, <2>4, <2>5 DEF ListStep
<1>6. QED
  BY <1>1, <1>2, <1>4, <1>5, StepKinds

\* The dead-letter list only grows, by what workers bury.
LEMMA DeadLetterStep ==
    ASSUME TypeInv, LimitInv, [Next]_vars, NEW T
    PROVE  /\ Occurs(T, deadLetter) => Occurs(T, deadLetter')
           /\ \/ Occurs(T, deadLetter') <=> Occurs(T, deadLetter)
              \/ \E w \in WorkerIds :
                    \/ MoveToDlqPush(w) /\ Reserialized(held[w]) \in T
                    \/ ExhaustPush(w) /\ Reserialized(Bumped(held[w])) \in T
<1> USE DEF TypeInv, TypeOK
<1>1. ASSUME NEW w \in WorkerIds, MoveToDlqPush(w)
      PROVE  /\ Occurs(T, deadLetter) => Occurs(T, deadLetter')
             /\ Occurs(T, deadLetter') =>
                   Occurs(T, deadLetter) \/ Reserialized(held[w]) \in T
  <2>1. held[w] \in Payload /\ \E reply : PushToDlq(held[w], reply)
    BY <1>1 DEF MoveToDlqPush, HandOK
  <2>2. QED
    BY <2>1, BuryPlaces
<1>2. ASSUME NEW w \in WorkerIds, ExhaustPush(w)
      PROVE  /\ Occurs(T, deadLetter) => Occurs(T, deadLetter')
             /\ Occurs(T, deadLetter') =>
                   Occurs(T, deadLetter) \/ Reserialized(Bumped(held[w])) \in T
  <2>1. held[w] \in Job /\ \E reply : PushToDlq(Bumped(held[w]), reply)
    BY <1>2 DEF ExhaustPush, HandOK
  <2>2. Bumped(held[w]) \in Payload
    BY <2>1, BumpedType DEF Payload
  <2>3. QED
    BY <2>1, <2>2, BuryPlaces
<1>3. CASE ~ \E w \in WorkerIds : MoveToDlqPush(w) \/ ExhaustPush(w)
  <2>1. UNCHANGED deadLetter
    <3>1. CASE Quiet
      BY <3>1 DEF Quiet, queueVars
    <3>2. CASE BootRecovers \/ \E r \in Requests : Enqueue(r)
      BY <3>2 DEF BootRecovers, RecoverOne, Enqueue, EnqueueJob
    <3>3. ASSUME NEW w \in WorkerIds, ListStep(w)
          PROVE  UNCHANGED deadLetter
      BY <1>3, <3>3 DEF ListStep, Dequeue, DequeueJob, MoveToDlqRemove, Ack, ReEnqueueAck,
            RemoveFromProcessing, ReEnqueuePush, EnqueueJob, RecoverOne
    <3>4. QED
      BY <3>1, <3>2, <3>3, StepKinds
  <2>2. QED
    BY <2>1
<1>4. QED
  BY <1>1, <1>2, <1>3

\* A request of no list and no hand is not found by another one's commands.
LEMMA AbsentStep ==
    ASSUME TypeInv, LimitInv, [Next]_vars, NEW r \in Requests, Absent(r), ~Enqueue(r)
    PROVE  Absent(r)'
<1> DEFINE T == JobsOf(r)
<1>1. NoJob \notin T /\ Nowhere(T)
  BY Constants DEF JobsOf, Payload, Absent, Has, Nowhere
<1>2. ASSUME NEW q \in Requests, Enqueue(q)
      PROVE  Reserialized(FirstJob(q)) \notin T
  <2>1. FirstJob(q) \in Job /\ FirstJob(q) \notin T
    BY <1>2 DEF FirstJob, Job, JobsOf
  <2>2. QED
    BY <2>1, SameRequest
<1>3. ASSUME NEW w \in WorkerIds, held[w] \in Job
      PROVE  Reserialized(held[w]) \notin T /\ Reserialized(Bumped(held[w])) \notin T
  BY <1>1, <1>3, SameRequest DEF Nowhere
<1>4. ASSUME NEW w \in WorkerIds
      PROVE  /\ ReEnqueuePush(w) \/ ExhaustPush(w) => held[w] \in Job
             /\ MoveToDlqPush(w) => held[w] \in Payload
  BY DEF ReEnqueuePush, ExhaustPush, MoveToDlqPush, TypeInv, HandOK
<1>5. Nowhere(T)'
  BY <1>1, <1>2, <1>3, <1>4, NowhereStep
<1>6. ~Occurs(T, deadLetter')
  BY <1>3, <1>4, DeadLetterStep, CorruptIsNobodys DEF Absent, Has, Payload
<1>7. QED
  BY <1>5, <1>6 DEF Absent, Has, Nowhere

LEMMA FreshInvInit == Init => FreshInv
<1> SUFFICES ASSUME Init, NEW r \in Requests, call[r] \in PreCall
             PROVE  Untouched(r)
  BY DEF FreshInv
<1>1. BacklogOf(r) = {}
  BY DEF Init, PreCall
<1>2. ~Has(r, queue)
  <2>1. ASSUME NEW i \in DOMAIN Backlog, Backlog[i] \in JobsOf(r)
        PROVE  FALSE
    BY <1>1, <2>1, Constants DEF BacklogOf, PositionsOf, JobsOf
  <2>2. QED
    BY <2>1 DEF Init, Has, Occurs
<1>3. Absent(r)
  BY <1>2, EmptyPlaces, Constants DEF Init, Absent, Has, JobsOf, Payload
<1>4. QED
  BY <1>3 DEF Init, Untouched

LEMMA FreshInvStep == TypeInv /\ LimitInv /\ FreshInv /\ [Next]_vars => FreshInv'
<1> SUFFICES ASSUME TypeInv, LimitInv, FreshInv, [Next]_vars,
                    NEW r \in Requests, call'[r] \in PreCall
             PROVE  Untouched(r)'
  BY DEF FreshInv
<1> USE DEF TypeInv, TypeOK
<1>1. call[r] \in PreCall /\ ~Enqueue(r)
  <2>1. ASSUME NEW q \in Requests, HandlerStep(q) \/ HandlerDropped(q)
        PROVE  call[r] \in PreCall /\ ~Enqueue(r)
    <3>1. CASE q # r
      <4>1. call'[r] = call[r]
        BY <2>1, <3>1 DEF HandlerStep, HandlerDropped, InsertRequest, Simulate,
              RecordFailure, RecordEstimate, Enqueue, MarkQueued, Proceed
      <4>2. ASSUME Enqueue(r)
            PROVE  FALSE
        BY <4>1, <4>2 DEF Enqueue, Proceed, PreCall
      <4>3. QED
        BY <4>1, <4>2
    <3>2. CASE q = r
      BY <2>1, <3>2 DEF HandlerStep, HandlerDropped, InsertRequest, Simulate,
            RecordFailure, RecordEstimate, Enqueue, MarkQueued, Proceed, PreCall, Handling
    <3>3. QED
      BY <3>1, <3>2
  <2>2. CASE ~ \E q \in Requests : HandlerStep(q) \/ HandlerDropped(q)
    <3>1. UNCHANGED call \/ Crash
      BY <2>2 DEF Next, vars, WorkerPanics, ChainStep, Boot, BootRecovers, BootNext
    <3>2. call[r] \in PreCall
      BY <3>1 DEF Crash, PreCall, Handling
    <3>3. QED
      BY <2>2, <3>2 DEF HandlerStep
  <2>3. QED
    BY <2>1, <2>2
<1>2. Untouched(r)
  BY <1>1 DEF FreshInv
<1>3. Absent(r)'
  BY <1>1, <1>2, AbsentStep DEF Untouched
<1>4. ASSUME NEW w \in WorkerIds, WorkerStep(w)
      PROVE  Untouched(r)'
  <2>1. held[w] \notin JobsOf(r)
    BY <1>2 DEF Untouched, Absent
  <2>2. QED
    BY <1>2, <1>3, <1>4, <2>1, OwnRequestOnly, OwnOperationOnly DEF Untouched
<1>5. CASE ChainStep
  <2>1. UNCHANGED <<runs, events, txRows>>
    BY <1>5 DEF ChainStep, storeVars, workerVars
  <2>2. ASSUME NEW w \in WorkerIds, NEW success \in BOOLEAN, IncludeWatched(w, success)
        PROVE  Untouched(r)'
    <3>1. /\ watched[w] # NoOp /\ watched[w].req \in Requests /\ watched[w].req # r
          /\ watched[w] \in [req : Requests, state : OpState]
      BY <1>2, <2>2 DEF IncludeWatched, Untouched, NoOp, ChainTypeOK
    <3>2. executed'[r] = executed[r] /\ undone'[r] = undone[r]
      BY <2>2, <3>1 DEF IncludeWatched, Include, ChainTypeOK
    <3>3. UNCHANGED orphaned /\ \A v \in WorkerIds : watched'[v] # NoOp => watched'[v].req # r
      BY <1>2, <2>2, <3>1 DEF IncludeWatched, Untouched, ChainTypeOK
    <3>4. QED
      BY <1>2, <1>3, <2>1, <3>2, <3>3 DEF Untouched
  <2>3. ASSUME NEW q \in Requests, NEW success \in BOOLEAN,
               IncludeOrphan(q, success) \/ ExpireOrphan(q)
        PROVE  Untouched(r)'
    <3>1. q # r /\ UNCHANGED watched /\ r \notin orphaned'
      BY <1>2, <2>3 DEF IncludeOrphan, ExpireOrphan, Untouched
    <3>2. executed'[r] = executed[r] /\ undone'[r] = undone[r]
      BY <2>3, <3>1 DEF IncludeOrphan, ExpireOrphan, Include, ChainTypeOK
    <3>3. QED
      BY <1>2, <1>3, <2>1, <3>1, <3>2 DEF Untouched
  <2>4. QED
    BY <1>5, <2>2, <2>3 DEF ChainStep
<1>6. CASE Crash
  BY <1>2, <1>3, <1>6 DEF Crash, Abandon, Untouched, storeVars, NoOp
<1>7. CASE \/ Boot \/ BootRecovers \/ BootNext \/ UNCHANGED vars
           \/ \E w \in WorkerIds : WorkerPanics(w)
           \/ \E q \in Requests : HandlerStep(q) \/ HandlerDropped(q)
  <2>1. UNCHANGED <<runs, events, txRows, chainVars>>
    BY <1>7 DEF Boot, BootRecovers, BootNext, vars, WorkerPanics, LoopPanics, HandlerStep,
          HandlerDropped, InsertRequest, Simulate, RecordFailure, RecordEstimate, Enqueue,
          MarkQueued, storeVars, workerVars, InsertExecutionRequest, UpdateExecutionStatus
  <2>2. QED
    BY <1>2, <1>3, <2>1 DEF Untouched, chainVars
<1>8. QED
  BY <1>4, <1>5, <1>6, <1>7 DEF Next
-----------------------------------------------------------------------------
\* No command has failed, and no payload is in a text that this release would
\* not find again.
Clean == faults = 0 /\ CurrentForm(Backlog)

Older == {job \in Job : job.form # "current"}

\* A worker that keeps a job finds it in its list.
KeepsOriginal(w) == Keeps(w) /\ held[w] \in Job => Occurs({held[w]}, processing[w])

\* Every trace of a job of r is of the kind named, and worker w's if it is of
\* a worker's list or hand.
OnlyAt(r, kind, w) ==
    /\ Has(r, queue) => kind = "queue"
    /\ Has(r, deadLetter) => kind = "dead"
    /\ \A v \in WorkerIds :
         /\ Has(r, processing[v]) => kind = "list" /\ v = w
         /\ pc[v] \in HandPc /\ held[v] \in JobsOf(r) => kind = "hand" /\ v = w
         /\ Buries(v) /\ held[v] \in JobsOf(r) => kind = "dead" /\ v = w

OnePlace(r) ==
    \E kind \in {"queue", "list", "hand", "dead"}, w \in WorkerIds : OnlyAt(r, kind, w)

OncePerList(r) ==
    /\ Once(JobsOf(r), queue) /\ Once(JobsOf(r), deadLetter)
    /\ \A w \in WorkerIds : Once(JobsOf(r), processing[w])

\* The strengthening of SingleCopy.
CopyInv ==
    Clean =>
       /\ Nowhere(Older)
       /\ \A w \in WorkerIds : KeepsOriginal(w)
       /\ \A r \in Requests : OncePerList(r) /\ OnePlace(r)

\* The hypotheses of the lemmas below, on which no command fails.
CleanState == TypeInv /\ LimitInv /\ FreshInv /\ CopyInv /\ Clean /\ Clean'

\* Without a failing command every reply is ok.
LEMMA CleanReply ==
    ASSUME TypeInv, Clean, Clean', NEW reply, Answer(reply)
    PROVE  reply = "ok"
  BY DEF Clean, Answer

\* A written text is of this release.
LEMMA WrittenIsCurrent ==
    ASSUME NEW payload \in Payload
    PROVE  /\ Reserialized(payload) \notin Older
           /\ payload \notin Older => Reserialized(payload) = payload
<1>1. CASE payload = Corrupt
  BY <1>1, Constants DEF Reserialized, Older
<1>2. CASE payload # Corrupt
  <2>1. payload \in Job
    BY <1>2 DEF Payload
  <2>2. QED
    BY <1>2, <2>1 DEF Reserialized, Older, Job
<1>3. QED
  BY <1>1, <1>2

\* Older texts are gone, and none is written.
LEMMA OlderStep ==
    ASSUME CleanState, [Next]_vars
    PROVE  Nowhere(Older)'
<1>1. NoJob \notin Older /\ Nowhere(Older)
  BY Constants DEF Older, Payload, CleanState, CopyInv
<1>2. ASSUME NEW q \in Requests
      PROVE  Reserialized(FirstJob(q)) \notin Older
  BY WrittenIsCurrent DEF FirstJob, Payload, Job
<1>3. ASSUME NEW w \in WorkerIds, ReEnqueuePush(w)
      PROVE  Reserialized(Bumped(held[w])) \notin Older
  <2>1. held[w] \in Job
    BY <1>3 DEF CleanState, TypeInv, HandOK, ReEnqueuePush
  <2>2. QED
    BY <2>1, BumpedType, WrittenIsCurrent DEF Payload
<1>4. QED
  BY <1>1, <1>2, <1>3, NowhereStep DEF CleanState

\* What LREM is asked for by a worker that keeps its job.
LEMMA KeptText ==
    ASSUME CleanState, NEW w \in WorkerIds, held[w] \in Job, Keeps(w)
    PROVE  /\ Reserialized(held[w]) = held[w]
           /\ Occurs({Reserialized(held[w])}, processing[w])
<1>1. held[w] \notin Older
  BY DEF CleanState, CopyInv, Nowhere
<1>2. Reserialized(held[w]) = held[w]
  BY <1>1, WrittenIsCurrent DEF Payload
<1>3. QED
  BY <1>2 DEF CleanState, CopyInv, KeepsOriginal

LEMMA MemberHas ==
    ASSUME NEW r, NEW e \in JobsOf(r), NEW s, Occurs({e}, s)
    PROVE  Has(r, s)
  BY DEF Occurs, Has
-----------------------------------------------------------------------------
\* A quiet step moves nothing.
LEMMA QuietCopies ==
    ASSUME CleanState, Quiet
    PROVE  /\ \A w \in WorkerIds : KeepsOriginal(w)'
           /\ \A r \in Requests : OncePerList(r)' /\ OnePlace(r)'
<1>1. UNCHANGED queueVars /\ \A w \in WorkerIds : SameHand(w)
  BY DEF Quiet
<1>2. ASSUME NEW w \in WorkerIds
      PROVE  /\ Keeps(w)' => Keeps(w) /\ held'[w] = held[w]
             /\ pc'[w] \in HandPc => pc[w] \in HandPc /\ held'[w] = held[w]
             /\ Buries(w)' => Buries(w) /\ held'[w] = held[w]
  BY <1>1 DEF SameHand, Keeps, Buries, AwayPc, HandPc
<1>3. \A w \in WorkerIds : KeepsOriginal(w)'
  BY <1>1, <1>2 DEF CleanState, CopyInv, KeepsOriginal, queueVars
<1>4. ASSUME NEW r \in Requests
      PROVE  OncePerList(r)' /\ OnePlace(r)'
  <2>1. OncePerList(r)'
    BY <1>1 DEF CleanState, CopyInv, OncePerList, queueVars
  <2>2. PICK kind \in {"queue", "list", "hand", "dead"}, x \in WorkerIds : OnlyAt(r, kind, x)
    BY DEF CleanState, CopyInv, OnePlace
  <2>3. OnlyAt(r, kind, x)'
    BY <1>1, <1>2, <2>2 DEF OnlyAt, Has, queueVars
  <2>4. QED
    BY <2>1, <2>3 DEF OnePlace
<1>5. QED
  BY <1>3, <1>4

\* The first push is of a request with no trace of a job.
LEMMA EnqueueCopies ==
    ASSUME CleanState, NEW q \in Requests, Enqueue(q)
    PROVE  /\ \A w \in WorkerIds : KeepsOriginal(w)'
           /\ \A r \in Requests : OncePerList(r)' /\ OnePlace(r)'
<1> USE DEF CleanState, TypeInv, TypeOK
<1>1. /\ FirstJob(q) \in Job
      /\ \E reply \in Replies : EnqueueJob(FirstJob(q), reply)
      /\ UNCHANGED <<pc, held, verdict>>
  BY DEF Enqueue, FirstJob, Job, workerVars
<1>2. UNCHANGED <<processing, deadLetter>>
  BY <1>1 DEF EnqueueJob
<1>3. \A w \in WorkerIds : KeepsOriginal(w)'
  BY <1>1, <1>2 DEF CopyInv, KeepsOriginal, Keeps, Buries
<1>4. ASSUME NEW r \in Requests
      PROVE  OncePerList(r)' /\ OnePlace(r)'
  <2>1. /\ Has(r, queue') => Has(r, queue) \/ r = q
        /\ Once(JobsOf(r), queue) /\ ~(r = q /\ Has(r, queue)) => Once(JobsOf(r), queue')
    <3>1. Reserialized(FirstJob(q)) \in JobsOf(r) <=> r = q
      BY <1>1, SameRequest DEF JobsOf, FirstJob
    <3>2. QED
      BY <1>1, <3>1, EnqueuePlaces DEF Has, Payload
  <2>2. OncePerList(r) /\ OnePlace(r) /\ (r = q => Absent(r))
    BY DEF CopyInv, FreshInv, Enqueue, PreCall, Untouched
  <2>3. OncePerList(r)'
    BY <1>2, <2>1, <2>2 DEF OncePerList, Absent
  <2>4. OnePlace(r)'
    <3>1. CASE r = q
      <4>1. 0 \in WorkerIds
        BY Constants DEF WorkerIds
      <4>2. OnlyAt(r, "queue", 0)'
        BY <1>1, <1>2, <2>2, <3>1 DEF OnlyAt, Absent
      <4>3. QED
        BY <4>1, <4>2 DEF OnePlace
    <3>2. CASE r # q
      <4>1. PICK kind \in {"queue", "list", "hand", "dead"}, x \in WorkerIds :
               OnlyAt(r, kind, x)
        BY <2>2 DEF OnePlace
      <4>2. OnlyAt(r, kind, x)'
        BY <1>1, <1>2, <2>1, <3>2, <4>1 DEF OnlyAt, Buries
      <4>3. QED
        BY <4>2 DEF OnePlace
    <3>3. QED
      BY <3>1, <3>2
  <2>5. QED
    BY <2>3, <2>4
<1>5. QED
  BY <1>3, <1>4

\* What BLMOVE hands to the worker.
LEMMA DequeueHand ==
    ASSUME TypeInv, NEW w \in WorkerIds, Dequeue(w)
    PROVE  \/ UNCHANGED <<pc, held, verdict>> /\ Answer("lost")
           \/ /\ Answer("ok")
              /\ held'[w] = Last(queue) /\ Last(queue) \in Payload /\ UNCHANGED verdict
              /\ Last(queue) = Corrupt => pc'[w] = "dlq_rem"
              /\ Last(queue) # Corrupt /\ Last(queue).attempt >= MaxAttempts =>
                    pc'[w] = "poison_status"
              /\ Last(queue) # Corrupt /\ ~(Last(queue).attempt >= MaxAttempts) =>
                    pc'[w] = "broadcast"
<1> USE DEF TypeInv, TypeOK, WorkerTypeOK
<1>1. Last(queue) \in Payload
  BY DequeueJobType DEF Dequeue
<1>2. QED
  BY <1>1 DEF Dequeue

\* A job is taken from the main list to the list of the worker.
LEMMA DequeueCopies ==
    ASSUME CleanState, NEW w \in WorkerIds, Dequeue(w), WorkerStep(w)
    PROVE  /\ \A v \in WorkerIds : KeepsOriginal(v)'
           /\ \A r \in Requests : OncePerList(r)' /\ OnePlace(r)'
<1> USE DEF CleanState, TypeInv, TypeOK
<1>1. /\ held'[w] = Last(queue) /\ Last(queue) \in Payload
      /\ pc'[w] \in {"dlq_rem", "poison_status", "broadcast"}
  BY CleanReply, DequeueHand
<1>2. \A v \in WorkerIds \ {w} : /\ pc'[v] = pc[v] /\ held'[v] = held[v]
                                 /\ verdict'[v] = verdict[v]
  BY WorkerFrame
<1>3. DequeueJob(w) /\ UNCHANGED deadLetter
      /\ \A v \in WorkerIds \ {w} : processing'[v] = processing[v]
  BY DEF Dequeue, DequeueJob, QueueTypeOK
<1>4. ASSUME NEW v \in WorkerIds
      PROVE  KeepsOriginal(v)'
  <2>1. CASE v = w
    <3>1. Occurs({Last(queue)}, processing'[w])
      BY <1>3, DequeuePlaces
    <3>2. QED
      BY <1>1, <2>1, <3>1 DEF KeepsOriginal
  <2>2. CASE v # w
    BY <1>2, <1>3, <2>2 DEF CopyInv, KeepsOriginal, Keeps, Buries
  <2>3. QED
    BY <2>1, <2>2
<1>5. ASSUME NEW r \in Requests
      PROVE  OncePerList(r)' /\ OnePlace(r)'
  <2> DEFINE T == JobsOf(r)
             job == Last(queue)
  <2>1. OncePerList(r) /\ OnePlace(r)
    BY DEF CopyInv
  <2>2. PICK kind \in {"queue", "list", "hand", "dead"}, x \in WorkerIds : OnlyAt(r, kind, x)
    BY <2>1 DEF OnePlace
  <2>3. /\ Occurs(T, queue) <=> job \in T \/ Occurs(T, queue')
        /\ Once(T, queue) => Once(T, queue') /\ ~(job \in T /\ Occurs(T, queue'))
        /\ Occurs(T, processing'[w]) <=> job \in T \/ Occurs(T, processing[w])
        /\ Once(T, processing[w]) /\ ~(job \in T /\ Occurs(T, processing[w])) =>
              Once(T, processing'[w])
    BY <1>3, DequeuePlaces
  <2>4. ASSUME NEW v \in WorkerIds
        PROVE  /\ pc'[v] \in HandPc => v # w
               /\ Buries(v)' => v # w /\ Buries(v)
    BY <1>1, <1>2 DEF HandPc, Buries
  <2> HIDE DEF T, job
  <2>5. CASE job \in T
    <3>1. kind = "queue" /\ Occurs(T, queue)
      BY <2>2, <2>3, <2>5 DEF OnlyAt, Has, T
    <3>2. /\ ~Occurs(T, deadLetter)
          /\ \A v \in WorkerIds : /\ ~Occurs(T, processing[v])
                                  /\ ~(pc[v] \in HandPc /\ held[v] \in T)
                                  /\ ~(Buries(v) /\ held[v] \in T)
      BY <2>2, <3>1 DEF OnlyAt, Has, T
    <3>3. OnlyAt(r, "list", w)'
      BY <1>2, <1>3, <2>1, <2>3, <2>4, <2>5, <3>2 DEF OnlyAt, Has, T, OncePerList
    <3>4. OncePerList(r)'
      BY <1>3, <2>1, <2>3, <3>2 DEF OncePerList, T
    <3>5. QED
      BY <3>3, <3>4 DEF OnePlace
  <2>6. CASE job \notin T
    <3>1. held'[w] \notin T
      BY <1>1, <2>6 DEF job
    <3>2. OnlyAt(r, kind, x)'
      BY <1>2, <1>3, <2>2, <2>3, <2>4, <2>6, <3>1 DEF OnlyAt, Has, T
    <3>3. OncePerList(r)'
      BY <1>3, <2>1, <2>3, <2>6 DEF OncePerList, T
    <3>4. QED
      BY <3>2, <3>3 DEF OnePlace
  <2>7. QED
    BY <2>5, <2>6
<1>6. QED
  BY <1>4, <1>5

\* LREM takes the job the worker keeps from its list.
LEMMA RemoveCopies ==
    ASSUME CleanState, NEW w \in WorkerIds, WorkerStep(w),
           MoveToDlqRemove(w) \/ Ack(w) \/ ReEnqueueAck(w)
    PROVE  /\ \A v \in WorkerIds : KeepsOriginal(v)'
           /\ \A r \in Requests : OncePerList(r)' /\ OnePlace(r)'
<1> USE DEF CleanState, TypeInv, TypeOK
<1>1. /\ Keeps(w) /\ held[w] \in Payload
      /\ RemoveFromProcessing(w, held[w], "ok")
      /\ \/ pc'[w] = "idle" /\ held'[w] = NoJob
         \/ pc'[w] \in HandPc /\ held'[w] = held[w]
  BY CleanReply DEF MoveToDlqRemove, Ack, ReEnqueueAck, Goto, Finish, WorkerTypeOK, HandOK,
                    Keeps, AwayPc, HandPc, Buries
<1>2. \A v \in WorkerIds \ {w} : /\ pc'[v] = pc[v] /\ held'[v] = held[v]
                                 /\ verdict'[v] = verdict[v]
  BY WorkerFrame
<1>3. UNCHANGED <<queue, deadLetter>>
      /\ \A v \in WorkerIds \ {w} : processing'[v] = processing[v]
  BY <1>1 DEF RemoveFromProcessing, QueueTypeOK
<1>4. ASSUME NEW v \in WorkerIds
      PROVE  KeepsOriginal(v)'
  <2>1. CASE v = w
    BY <1>1, <2>1 DEF KeepsOriginal, Keeps, AwayPc
  <2>2. CASE v # w
    BY <1>2, <1>3, <2>2 DEF CopyInv, KeepsOriginal, Keeps, Buries
  <2>3. QED
    BY <2>1, <2>2
<1>5. ASSUME NEW r \in Requests
      PROVE  OncePerList(r)' /\ OnePlace(r)'
  <2> DEFINE T == JobsOf(r)
  <2>1. OncePerList(r) /\ OnePlace(r)
    BY DEF CopyInv
  <2>2. PICK kind \in {"queue", "list", "hand", "dead"}, x \in WorkerIds : OnlyAt(r, kind, x)
    BY <2>1 DEF OnePlace
  <2>3. /\ Occurs(T, processing'[w]) => Occurs(T, processing[w])
        /\ Once(T, processing[w]) => Once(T, processing'[w])
    BY <1>1, RemovePlaces
  <2>4. NoJob \notin T /\ ~Buries(w)'
    BY <1>1, Constants DEF JobsOf, Payload, Buries, HandPc
  <2>5. held[w] \in T => Occurs(T, processing[w]) /\ ~Occurs(T, processing'[w])
    <3>1. SUFFICES ASSUME held[w] \in T
                   PROVE  Occurs(T, processing[w]) /\ ~Occurs(T, processing'[w])
      OBVIOUS
    <3>2. /\ Reserialized(held[w]) = held[w]
          /\ Occurs({Reserialized(held[w])}, processing[w])
      BY <1>1, <3>1, KeptText DEF JobsOf
    <3>3. Occurs(T, processing[w])
      BY <3>1, <3>2, MemberHas DEF Has
    <3>4. ~Occurs(T, processing'[w])
      <4>1. Once(T, processing[w]) /\ Reserialized(held[w]) \in T /\ Applied("ok")
        BY <2>1, <3>1, <3>2 DEF OncePerList, Applied
      <4>2. QED
        BY <1>1, <3>2, <4>1, RemovePlaces
    <3>5. QED
      BY <3>3, <3>4
  <2> HIDE DEF T
  <2>6. OncePerList(r)'
    BY <1>3, <2>1, <2>3 DEF OncePerList, T
  <2>7. CASE held[w] \in T
    <3>1. kind = "list" /\ x = w
      BY <2>2, <2>5, <2>7 DEF OnlyAt, Has, T
    <3>2. OnlyAt(r, "hand", w)'
      BY <1>1, <1>2, <1>3, <2>2, <2>3, <2>4, <2>5, <2>7, <3>1 DEF OnlyAt, Has, T, Buries
    <3>3. QED
      BY <2>6, <3>2 DEF OnePlace
  <2>8. CASE held[w] \notin T
    <3>1. OnlyAt(r, kind, x)'
      BY <1>1, <1>2, <1>3, <2>2, <2>3, <2>4, <2>8 DEF OnlyAt, Has, T, Buries
    <3>2. QED
      BY <2>6, <3>1 DEF OnePlace
  <2>9. QED
    BY <2>7, <2>8
<1>6. QED
  BY <1>4, <1>5

\* LPUSH puts the job in hand on the dead-letter list.
LEMMA BuryCopies ==
    ASSUME CleanState, NEW w \in WorkerIds, WorkerStep(w), MoveToDlqPush(w) \/ ExhaustPush(w)
    PROVE  /\ \A v \in WorkerIds : KeepsOriginal(v)'
           /\ \A r \in Requests : OncePerList(r)' /\ OnePlace(r)'
<1> USE DEF CleanState, TypeInv, TypeOK
<1>1. /\ pc[w] \in HandPc /\ held[w] \in Payload
      /\ \E text \in {held[w], Bumped(held[w])} :
            /\ text \in Payload
            /\ \A r \in Requests : Reserialized(text) \in JobsOf(r) <=> held[w] \in JobsOf(r)
            /\ PushToDlq(text, "ok")
      /\ \/ pc'[w] = "idle" /\ held'[w] = NoJob
         \/ pc'[w] = "exhaust_status" /\ held'[w] = held[w]
  <2>1. HandOK(w)
    OBVIOUS
  <2>2. CASE MoveToDlqPush(w)
    <3>1. held[w] \in Payload /\ pc[w] \in HandPc
      BY <2>1, <2>2 DEF MoveToDlqPush, HandOK, HandPc
    <3>2. \A r \in Requests : Reserialized(held[w]) \in JobsOf(r) <=> held[w] \in JobsOf(r)
      BY <3>1, SameRequest, CorruptIsNobodys DEF Payload
    <3>3. PushToDlq(held[w], "ok") /\ pc'[w] = "idle" /\ held'[w] = NoJob
      BY <2>2, CleanReply DEF MoveToDlqPush, Finish, WorkerTypeOK
    <3>4. QED
      BY <3>1, <3>2, <3>3
  <2>3. CASE ExhaustPush(w)
    <3>1. held[w] \in Job /\ held[w] \in Payload /\ pc[w] \in HandPc
      BY <2>1, <2>3 DEF ExhaustPush, HandOK, HandPc, Payload
    <3>2. /\ Bumped(held[w]) \in Payload
          /\ \A r \in Requests : Reserialized(Bumped(held[w])) \in JobsOf(r) <=>
                                    held[w] \in JobsOf(r)
      BY <3>1, SameRequest, BumpedType DEF Payload
    <3>3. /\ PushToDlq(Bumped(held[w]), "ok")
          /\ pc'[w] = "exhaust_status" /\ held'[w] = held[w]
      BY <2>3, CleanReply DEF ExhaustPush, Goto, WorkerTypeOK
    <3>4. QED
      BY <3>1, <3>2, <3>3
  <2>4. QED
    BY <2>2, <2>3
<1>2. PICK text \in Payload :
         /\ \A r \in Requests : Reserialized(text) \in JobsOf(r) <=> held[w] \in JobsOf(r)
         /\ PushToDlq(text, "ok")
  BY <1>1
<1>3. \A v \in WorkerIds \ {w} : /\ pc'[v] = pc[v] /\ held'[v] = held[v]
                                 /\ verdict'[v] = verdict[v]
  BY WorkerFrame
<1>4. UNCHANGED <<queue, processing>>
  BY <1>2 DEF PushToDlq
<1>5. ASSUME NEW v \in WorkerIds
      PROVE  KeepsOriginal(v)'
  <2>1. CASE v = w
    BY <1>1, <2>1 DEF KeepsOriginal, Keeps, AwayPc, Buries
  <2>2. CASE v # w
    BY <1>3, <1>4, <2>2 DEF CopyInv, KeepsOriginal, Keeps, Buries
  <2>3. QED
    BY <2>1, <2>2
<1>6. ASSUME NEW r \in Requests
      PROVE  OncePerList(r)' /\ OnePlace(r)'
  <2> DEFINE T == JobsOf(r)
  <2>1. OncePerList(r) /\ OnePlace(r)
    BY DEF CopyInv
  <2>2. PICK kind \in {"queue", "list", "hand", "dead"}, x \in WorkerIds : OnlyAt(r, kind, x)
    BY <2>1 DEF OnePlace
  <2>3. /\ Occurs(T, deadLetter') <=> held[w] \in T \/ Occurs(T, deadLetter)
        /\ Once(T, deadLetter) /\ ~(held[w] \in T /\ Occurs(T, deadLetter)) =>
              Once(T, deadLetter')
    <3>1. Applied("ok") /\ (Reserialized(text) \in T <=> held[w] \in T)
      BY <1>2 DEF Applied
    <3>2. QED
      BY <1>2, <3>1, BuryPlaces
  <2>4. NoJob \notin T /\ pc'[w] \notin HandPc
    BY <1>1, Constants DEF JobsOf, Payload, HandPc
  <2> HIDE DEF T
  <2>5. CASE held[w] \in T
    <3>1. kind = "hand" /\ x = w
      BY <1>1, <2>2, <2>5 DEF OnlyAt, T
    <3>2. /\ ~Occurs(T, queue) /\ ~Occurs(T, deadLetter)
          /\ \A v \in WorkerIds : ~Occurs(T, processing[v]) /\ ~(Buries(v) /\ held[v] \in T)
          /\ \A v \in WorkerIds \ {w} : ~(pc[v] \in HandPc /\ held[v] \in T)
      BY <2>2, <3>1 DEF OnlyAt, Has, T
    <3>3. OnlyAt(r, "dead", w)'
      BY <1>3, <1>4, <2>3, <2>4, <3>2 DEF OnlyAt, Has, T, Buries
    <3>4. OncePerList(r)'
      BY <1>4, <2>1, <2>3, <3>2 DEF OncePerList, T
    <3>5. QED
      BY <3>3, <3>4 DEF OnePlace
  <2>6. CASE held[w] \notin T
    <3>1. held'[w] \notin T
      BY <1>1, <2>4, <2>6
    <3>2. OnlyAt(r, kind, x)'
      BY <1>3, <1>4, <2>2, <2>3, <2>6, <3>1 DEF OnlyAt, Has, T, Buries
    <3>3. OncePerList(r)'
      BY <1>4, <2>1, <2>3, <2>6 DEF OncePerList, T
    <3>4. QED
      BY <3>2, <3>3 DEF OnePlace
  <2>7. QED
    BY <2>5, <2>6
<1>7. QED
  BY <1>5, <1>6

\* LPUSH puts the bumped job in hand back on the main list.
LEMMA RePushCopies ==
    ASSUME CleanState, NEW w \in WorkerIds, WorkerStep(w), ReEnqueuePush(w)
    PROVE  /\ \A v \in WorkerIds : KeepsOriginal(v)'
           /\ \A r \in Requests : OncePerList(r)' /\ OnePlace(r)'
<1> USE DEF CleanState, TypeInv, TypeOK
<1>1. /\ pc[w] \in HandPc /\ held[w] \in Job /\ Bumped(held[w]) \in Payload
      /\ EnqueueJob(Bumped(held[w]), "ok")
      /\ pc'[w] = "idle" /\ held'[w] = NoJob
  <2>1. HandOK(w)
    OBVIOUS
  <2>2. held[w] \in Job /\ Bumped(held[w]) \in Payload /\ pc[w] \in HandPc
    BY <2>1, BumpedType DEF ReEnqueuePush, HandOK, HandPc, Payload
  <2>3. EnqueueJob(Bumped(held[w]), "ok") /\ pc'[w] = "idle" /\ held'[w] = NoJob
    BY CleanReply DEF ReEnqueuePush, Finish, WorkerTypeOK
  <2>4. QED
    BY <2>2, <2>3
<1>2. \A v \in WorkerIds \ {w} : /\ pc'[v] = pc[v] /\ held'[v] = held[v]
                                 /\ verdict'[v] = verdict[v]
  BY WorkerFrame
<1>3. UNCHANGED <<processing, deadLetter>>
  BY <1>1 DEF EnqueueJob
<1>4. ASSUME NEW v \in WorkerIds
      PROVE  KeepsOriginal(v)'
  <2>1. CASE v = w
    BY <1>1, <2>1 DEF KeepsOriginal, Keeps, AwayPc
  <2>2. CASE v # w
    BY <1>2, <1>3, <2>2 DEF CopyInv, KeepsOriginal, Keeps, Buries
  <2>3. QED
    BY <2>1, <2>2
<1>5. ASSUME NEW r \in Requests
      PROVE  OncePerList(r)' /\ OnePlace(r)'
  <2> DEFINE T == JobsOf(r)
  <2>1. OncePerList(r) /\ OnePlace(r)
    BY DEF CopyInv
  <2>2. PICK kind \in {"queue", "list", "hand", "dead"}, x \in WorkerIds : OnlyAt(r, kind, x)
    BY <2>1 DEF OnePlace
  <2>3. /\ Occurs(T, queue') <=> held[w] \in T \/ Occurs(T, queue)
        /\ Once(T, queue) /\ ~(held[w] \in T /\ Occurs(T, queue)) => Once(T, queue')
    <3>1. Applied("ok") /\ (Reserialized(Bumped(held[w])) \in T <=> held[w] \in T)
      BY <1>1, SameRequest DEF Applied
    <3>2. QED
      BY <1>1, <3>1, EnqueuePlaces
  <2>4. NoJob \notin T
    BY Constants DEF JobsOf, Payload
  <2> HIDE DEF T
  <2>5. CASE held[w] \in T
    <3>1. kind = "hand" /\ x = w
      BY <1>1, <2>2, <2>5 DEF OnlyAt, T
    <3>2. /\ ~Occurs(T, queue) /\ ~Occurs(T, deadLetter)
          /\ \A v \in WorkerIds : ~Occurs(T, processing[v]) /\ ~(Buries(v) /\ held[v] \in T)
          /\ \A v \in WorkerIds \ {w} : ~(pc[v] \in HandPc /\ held[v] \in T)
      BY <2>2, <3>1 DEF OnlyAt, Has, T
    <3>3. OnlyAt(r, "queue", w)'
      BY <1>1, <1>2, <1>3, <2>4, <3>2 DEF OnlyAt, Has, T, Buries
    <3>4. OncePerList(r)'
      BY <1>3, <2>1, <2>3, <3>2 DEF OncePerList, T
    <3>5. QED
      BY <3>3, <3>4 DEF OnePlace
  <2>6. CASE held[w] \notin T
    <3>1. OnlyAt(r, kind, x)'
      BY <1>1, <1>2, <1>3, <2>2, <2>3, <2>4, <2>6 DEF OnlyAt, Has, T, Buries
    <3>2. OncePerList(r)'
      BY <1>3, <2>1, <2>3, <2>6 DEF OncePerList, T
    <3>3. QED
      BY <3>1, <3>2 DEF OnePlace
  <2>7. QED
    BY <2>5, <2>6
<1>6. QED
  BY <1>4, <1>5

\* LMOVE takes a job from the list of a worker that has none in hand.
LEMMA RecoverCopies ==
    ASSUME CleanState, NEW w \in WorkerIds, NEW reply, RecoverOne(w, reply),
           pc[w] \in AwayPc, pc'[w] \in AwayPc,
           UNCHANGED <<held, verdict>>, \A v \in WorkerIds \ {w} : pc'[v] = pc[v]
    PROVE  /\ \A v \in WorkerIds : KeepsOriginal(v)'
           /\ \A r \in Requests : OncePerList(r)' /\ OnePlace(r)'
<1> USE DEF CleanState, TypeInv, TypeOK
<1>1. UNCHANGED deadLetter /\ \A v \in WorkerIds \ {w} : processing'[v] = processing[v]
  BY DEF RecoverOne, QueueTypeOK
<1>2. ASSUME NEW v \in WorkerIds
      PROVE  KeepsOriginal(v)'
  <2>1. CASE v = w
    BY <2>1 DEF KeepsOriginal, Keeps
  <2>2. CASE v # w
    BY <1>1, <2>2 DEF CopyInv, KeepsOriginal, Keeps, Buries
  <2>3. QED
    BY <2>1, <2>2
<1>3. ASSUME NEW v \in WorkerIds
      PROVE  /\ pc'[v] \in HandPc => pc[v] \in HandPc
             /\ Buries(v)' => Buries(v)
  BY DEF HandPc, AwayPc, Buries
<1>4. ASSUME NEW r \in Requests
      PROVE  OncePerList(r)' /\ OnePlace(r)'
  <2> DEFINE T == JobsOf(r)
  <2>1. OncePerList(r) /\ OnePlace(r)
    BY DEF CopyInv
  <2>2. PICK kind \in {"queue", "list", "hand", "dead"}, x \in WorkerIds : OnlyAt(r, kind, x)
    BY <2>1 DEF OnePlace
  <2>3. \/ UNCHANGED <<queue, processing>>
        \/ \E job \in Payload :
              /\ Occurs(T, queue') <=> job \in T \/ Occurs(T, queue)
              /\ Once(T, queue) /\ ~(job \in T /\ Occurs(T, queue)) => Once(T, queue')
              /\ Occurs(T, processing[w]) <=> job \in T \/ Occurs(T, processing'[w])
              /\ Once(T, processing[w]) =>
                    Once(T, processing'[w]) /\ ~(job \in T /\ Occurs(T, processing'[w]))
    BY RecoverPlaces
  <2> HIDE DEF T
  <2>4. CASE UNCHANGED <<queue, processing>>
    <3>1. OnlyAt(r, kind, x)' /\ OncePerList(r)'
      BY <1>1, <1>3, <2>1, <2>2, <2>4 DEF OnlyAt, Has, OncePerList
    <3>2. QED
      BY <3>1 DEF OnePlace
  <2>5. ASSUME NEW job \in Payload,
               Occurs(T, queue') <=> job \in T \/ Occurs(T, queue),
               Once(T, queue) /\ ~(job \in T /\ Occurs(T, queue)) => Once(T, queue'),
               Occurs(T, processing[w]) <=> job \in T \/ Occurs(T, processing'[w]),
               Once(T, processing[w]) =>
                  Once(T, processing'[w]) /\ ~(job \in T /\ Occurs(T, processing'[w]))
        PROVE  OncePerList(r)' /\ OnePlace(r)'
    <3>1. CASE job \in T
      <4>1. kind = "list" /\ x = w
        BY <2>2, <2>5, <3>1 DEF OnlyAt, Has, T
      <4>2. /\ ~Occurs(T, queue) /\ ~Occurs(T, deadLetter) /\ ~Occurs(T, processing'[w])
            /\ \A v \in WorkerIds : /\ ~(pc[v] \in HandPc /\ held[v] \in T)
                                    /\ ~(Buries(v) /\ held[v] \in T)
            /\ \A v \in WorkerIds \ {w} : ~Occurs(T, processing[v])
        BY <2>1, <2>2, <2>5, <3>1, <4>1 DEF OnlyAt, Has, T, OncePerList
      <4>3. OnlyAt(r, "queue", w)'
        BY <1>1, <1>3, <4>2 DEF OnlyAt, Has, T
      <4>4. OncePerList(r)'
        BY <1>1, <2>1, <2>5, <4>2 DEF OncePerList, T
      <4>5. QED
        BY <4>3, <4>4 DEF OnePlace
    <3>2. CASE job \notin T
      <4>1. OnlyAt(r, kind, x)'
        BY <1>1, <1>3, <2>2, <2>5, <3>2 DEF OnlyAt, Has, T
      <4>2. OncePerList(r)'
        BY <1>1, <2>1, <2>5, <3>2 DEF OncePerList, T
      <4>3. QED
        BY <4>1, <4>2 DEF OnePlace
    <3>3. QED
      BY <3>1, <3>2
  <2>6. QED
    BY <2>3, <2>4, <2>5
<1>5. QED
  BY <1>2, <1>4
-----------------------------------------------------------------------------
LEMMA CopyInvInit == Init => CopyInv
<1> SUFFICES ASSUME Init, Clean
             PROVE  /\ Nowhere(Older)
                    /\ \A w \in WorkerIds : KeepsOriginal(w)
                    /\ \A r \in Requests : OncePerList(r) /\ OnePlace(r)
  BY DEF CopyInv
<1>1. /\ queue = Backlog /\ deadLetter = <<>>
      /\ \A w \in WorkerIds : processing[w] = <<>> /\ held[w] = NoJob /\ pc[w] = "stopped"
  BY DEF Init
<1>2. Nowhere(Older)
  <2>1. ASSUME NEW i \in DOMAIN Backlog, Backlog[i] \in Older
        PROVE  FALSE
    BY <2>1, Constants DEF Older, Clean, CurrentForm
  <2>2. ~Occurs(Older, queue)
    BY <1>1, <2>1 DEF Occurs
  <2>3. NoJob \notin Older
    BY Constants DEF Older, Payload
  <2>4. QED
    BY <1>1, <2>2, <2>3, EmptyPlaces DEF Nowhere
<1>3. \A w \in WorkerIds : KeepsOriginal(w)
  BY <1>1 DEF KeepsOriginal, Keeps, AwayPc
<1>4. ASSUME NEW r \in Requests
      PROVE  OncePerList(r) /\ OnePlace(r)
  <2>1. ASSUME NEW i \in DOMAIN Backlog, NEW j \in DOMAIN Backlog,
               Backlog[i] \in JobsOf(r), Backlog[j] \in JobsOf(r)
        PROVE  i = j
    <3>1. i \in BacklogOf(r) /\ j \in BacklogOf(r)
      BY <2>1, Constants DEF BacklogOf, PositionsOf, JobsOf
    <3>2. QED
      BY <3>1, PipelineAssumption
  <2>2. OncePerList(r)
    BY <1>1, <2>1, EmptyPlaces DEF OncePerList, Once
  <2>3. 0 \in WorkerIds
    BY Constants DEF WorkerIds
  <2>4. OnlyAt(r, "queue", 0)
    BY <1>1, EmptyPlaces DEF OnlyAt, Has, HandPc, Buries
  <2>5. QED
    BY <2>2, <2>3, <2>4 DEF OnePlace
<1>5. QED
  BY <1>2, <1>3, <1>4

\* The steps that answer no command, and what an answer counts.
LEMMA FaultsGrow ==
    ASSUME TypeInv, [Next]_vars
    PROVE  faults' = faults \/ faults' = faults + 1
<1> USE DEF Answer
<1>1. ASSUME NEW r \in Requests, HandlerStep(r) \/ HandlerDropped(r)
      PROVE  faults' = faults \/ faults' = faults + 1
  BY <1>1 DEF HandlerStep, HandlerDropped, InsertRequest, Simulate, RecordFailure,
              RecordEstimate, Enqueue, MarkQueued
<1>2. ASSUME NEW w \in WorkerIds, WorkerStep(w)
      PROVE  faults' = faults \/ faults' = faults + 1
  BY <1>2 DEF WorkerStep, Dequeue, PoisonStatus, MoveToDlqRemove, MoveToDlqPush, Broadcast,
         ExecuteFails, ExecuteFailsAsRevert, SubmitUserOp, ReceiptConfirmed,
         ReceiptReverted, ReceiptTimeout, ExecutionPanics, ConfirmStatus, ConfirmRow,
         RevertStatus, FireWebhook, Ack, ReEnqueueAck, ReEnqueuePush, ExhaustPush,
         ExhaustStatus, SupervisorRecovers
<1>3. CASE \/ UNCHANGED vars \/ ChainStep \/ Boot \/ BootRecovers \/ BootNext \/ Crash
           \/ \E w \in WorkerIds : WorkerPanics(w)
  BY <1>3 DEF vars, ChainStep, Boot, BootRecovers, BootNext, Crash, WorkerPanics, LoopPanics
<1>4. QED
  BY <1>1, <1>2, <1>3 DEF Next

LEMMA CopyInvStep == TypeInv /\ LimitInv /\ FreshInv /\ CopyInv /\ [Next]_vars => CopyInv'
<1> SUFFICES ASSUME TypeInv, LimitInv, FreshInv, CopyInv, [Next]_vars, Clean'
             PROVE  /\ Nowhere(Older)'
                    /\ \A w \in WorkerIds : KeepsOriginal(w)'
                    /\ \A r \in Requests : OncePerList(r)' /\ OnePlace(r)'
  BY DEF CopyInv, WorkerIds
<1>1. CleanState
  <2>1. faults \in Nat
    BY Constants DEF TypeInv, TypeOK, FaultsTypeOK
  <2>2. Clean
    BY <2>1, FaultsGrow DEF Clean
  <2>3. QED
    BY <2>2 DEF CleanState
<1>2. Nowhere(Older)'
  BY <1>1, OlderStep
<1> DEFINE Kept == /\ \A w \in WorkerIds : KeepsOriginal(w)'
                   /\ \A r \in Requests : OncePerList(r)' /\ OnePlace(r)'
<1>3. ASSUME NEW w \in WorkerIds, NEW reply, RecoverOne(w, reply),
             pc[w] \in AwayPc, pc'[w] \in AwayPc,
             UNCHANGED <<held, verdict>>, \A v \in WorkerIds \ {w} : pc'[v] = pc[v]
      PROVE  Kept
  BY <1>1, <1>3, RecoverCopies
<1>4. ASSUME NEW w \in WorkerIds, WorkerStep(w), ListStep(w)
      PROVE  Kept
  <2>1. CASE Dequeue(w)
    BY <1>1, <1>4, <2>1, DequeueCopies
  <2>2. CASE MoveToDlqRemove(w) \/ Ack(w) \/ ReEnqueueAck(w)
    BY <1>1, <1>4, <2>2, RemoveCopies
  <2>3. CASE MoveToDlqPush(w) \/ ExhaustPush(w)
    BY <1>1, <1>4, <2>3, BuryCopies
  <2>4. CASE ReEnqueuePush(w)
    BY <1>1, <1>4, <2>4, RePushCopies
  <2>5. CASE \E reply \in Replies :
                /\ pc[w] = "recovering" /\ Answer(reply) /\ RecoverOne(w, reply)
                /\ Goto(w, IF reply = "ok" THEN "recovering" ELSE "idle")
    <3>1. /\ pc[w] \in AwayPc /\ pc'[w] \in AwayPc /\ UNCHANGED <<held, verdict>>
          /\ \A v \in WorkerIds \ {w} : pc'[v] = pc[v]
          /\ \E reply : RecoverOne(w, reply)
      BY <2>5 DEF Goto, AwayPc, TypeInv, TypeOK, WorkerTypeOK
    <3>2. QED
      BY <1>3, <3>1
  <2>6. QED
    BY <1>4, <2>1, <2>2, <2>3, <2>4, <2>5 DEF ListStep
<1>5. ASSUME BootRecovers
      PROVE  Kept
  <2>1. PICK w \in WorkerIds : w = bootWid
    BY DEF TypeInv, TypeOK
  <2>2. UNCHANGED <<pc, held, verdict>> /\ \E reply : RecoverOne(w, reply)
    BY <1>5, <2>1 DEF BootRecovers, RecoverOne, workerVars
  <2>3. pc[w] \in AwayPc /\ pc'[w] \in AwayPc
    BY <1>5, <2>2 DEF BootRecovers, LimitInv, AwayPc
  <2>4. QED
    BY <1>3, <2>2, <2>3
<1>6. Kept
  BY <1>1, <1>4, <1>5, StepKinds, QuietCopies, EnqueueCopies
<1>7. QED
  BY <1>2, <1>6

\* The invariants of this module, all at once.
PlacesInv == TypeInv /\ LimitInv /\ FreshInv /\ CopyInv

LEMMA PlacesCorrect == Spec => []PlacesInv
<1>1. Init => PlacesInv
  BY TypeInvInit, LimitInvInit, FreshInvInit, CopyInvInit DEF PlacesInv
<1>2. PlacesInv /\ [Next]_vars => PlacesInv'
  BY TypeInvStep, LimitInvStep, FreshInvStep, CopyInvStep DEF PlacesInv
<1>3. QED
  BY <1>1, <1>2, PTL DEF Spec

\* The positions of r in a list are those of its jobs.
LEMMA PositionsAreJobs ==
    ASSUME NEW s \in Seq(Payload), NEW r
    PROVE  /\ PositionsOf(r, s) = {i \in DOMAIN s : s[i] \in JobsOf(r)}
           /\ PositionsOf(r, s) # {} <=> Has(r, s)
<1>1. ASSUME NEW i \in DOMAIN s
      PROVE  (s[i] # Corrupt /\ s[i].req = r) <=> s[i] \in JobsOf(r)
  <2>1. s[i] \in Payload
    BY LenProperties
  <2>2. QED
    BY <2>1, Constants DEF Payload, JobsOf
<1>2. QED
  BY <1>1 DEF PositionsOf, Has, Occurs

\* Without a failing command and with payloads of this release, a job is at
\* most once in all lists and hands together, for any number of workers,
\* crashes, panics and recoveries (worker/mod.rs:786-857,
\* queue/mod.rs:100-191).
THEOREM SingleCopyCorrect == Spec => []SingleCopy
<1>1. PlacesInv => SingleCopy
  <2> SUFFICES ASSUME PlacesInv, Clean, NEW r \in Requests,
                      NEW c \in Copies(r), NEW d \in Copies(r)
               PROVE  c = d
    BY DEF SingleCopy, Clean
  <2> USE DEF PlacesInv, TypeInv, TypeOK, QueueTypeOK
  <2>1. OncePerList(r)
    BY DEF CopyInv
  <2>2. PICK kind \in {"queue", "list", "hand", "dead"}, x \in WorkerIds : OnlyAt(r, kind, x)
    BY DEF CopyInv, OnePlace
  <2>3. ASSUME NEW e \in Copies(r)
        PROVE  \/ kind = "queue" /\ \E i \in PositionsOf(r, queue) : e = <<"queue", 0, i>>
               \/ kind = "dead" /\ \E i \in PositionsOf(r, deadLetter) : e = <<"dead_letter", 0, i>>
               \/ kind = "list" /\ \E i \in PositionsOf(r, processing[x]) : e = <<"processing", x, i>>
               \/ kind = "hand" /\ e = <<"hand", x, 1>>
    <3>1. CASE \E i \in PositionsOf(r, queue) : e = <<"queue", 0, i>>
      BY <2>2, <3>1, PositionsAreJobs DEF OnlyAt
    <3>2. CASE \E i \in PositionsOf(r, deadLetter) : e = <<"dead_letter", 0, i>>
      BY <2>2, <3>2, PositionsAreJobs DEF OnlyAt
    <3>3. CASE \E v \in WorkerIds : \E i \in PositionsOf(r, processing[v]) :
                  e = <<"processing", v, i>>
      BY <2>2, <3>3, PositionsAreJobs DEF OnlyAt
    <3>4. CASE \E v \in Hands(r) : e = <<"hand", v, 1>>
      <4>1. PICK v \in Hands(r) : e = <<"hand", v, 1>>
        BY <3>4
      <4>2. pc[v] \in HandPc /\ v \in WorkerIds /\ held[v] # Corrupt /\ held[v].req = r
        BY DEF Hands, HandPc
      <4>3. held[v] \in Payload
        BY <4>2 DEF HandOK, HandPc
      <4>4. held[v] \in JobsOf(r)
        BY <4>2, <4>3 DEF Payload, JobsOf
      <4>5. QED
        BY <2>2, <4>1, <4>2, <4>4 DEF OnlyAt
    <3>5. \/ e \in {<<"queue", 0, i>> : i \in PositionsOf(r, queue)}
          \/ e \in {<<"dead_letter", 0, i>> : i \in PositionsOf(r, deadLetter)}
          \/ e \in UNION {{<<"processing", v, i>> : i \in PositionsOf(r, processing[v])} :
                              v \in WorkerIds}
          \/ e \in {<<"hand", v, 1>> : v \in Hands(r)}
      BY DEF Copies
    <3>6. QED
      BY <3>1, <3>2, <3>3, <3>4, <3>5
  <2>4. /\ \A i, j \in PositionsOf(r, queue) : i = j
        /\ \A i, j \in PositionsOf(r, deadLetter) : i = j
        /\ \A i, j \in PositionsOf(r, processing[x]) : i = j
    BY <2>1, PositionsAreJobs DEF OncePerList, Once
  <2>5. QED
    BY <2>3, <2>4
<1>2. QED
  BY <1>1, PlacesCorrect, PTL
-----------------------------------------------------------------------------
\* No command has failed and no task has died.
Undisturbed == faults + Disturbances = 0

\* A worker acknowledges a job, or buries a poison pill, after the webhook of
\* its request.
AnnouncedPc == {"ack"} \cup DlqPc

AnnouncedInv ==
    \A w \in WorkerIds :
       pc[w] \in AnnouncedPc /\ held[w] \in Job => events[held[w].req] # <<>>

\* Some list or hand has a job of r.
Located(r) ==
    \/ Has(r, queue) \/ Has(r, deadLetter)
    \/ \E w \in WorkerIds :
          Has(r, processing[w]) \/ (pc[w] \in HandPc /\ held[w] \in JobsOf(r))

KeptInv ==
    /\ AnnouncedInv
    /\ Undisturbed =>
          \A r \in Requests : Pushed(r) /\ events[r] = <<>> => Located(r)

\* Webhooks are only added.
LEMMA EventsGrow ==
    ASSUME TypeInv, [Next]_vars, NEW r \in Requests, events[r] # <<>>
    PROVE  events'[r] # <<>>
<1> USE DEF TypeInv, TypeOK, WorkerTypeOK
<1>1. ASSUME NEW w \in WorkerIds, FireWebhook(w)
      PROVE  events'[r] # <<>>
  <2>1. held[w] \in Job /\ verdict[w] \in Terminal
    BY <1>1 DEF FireWebhook, HandOK
  <2>2. events' = [events EXCEPT ![held[w].req] = Append(@, verdict[w])]
    BY <1>1 DEF FireWebhook
  <2>3. CASE r = held[w].req
    <3>1. events'[r] = Append(events[r], verdict[w]) /\ events[r] \in Seq(Terminal)
      BY <2>2, <2>3
    <3>2. Len(events'[r]) = Len(events[r]) + 1 /\ Len(events[r]) \in Nat
      BY <2>1, <3>1, AppendProperties, LenProperties
    <3>3. QED
      BY <3>2
  <2>4. CASE r # held[w].req
    BY <2>2, <2>4
  <2>5. QED
    BY <2>3, <2>4
<1>2. CASE UNCHANGED events
  BY <1>2
<1>3. ASSUME NEW w \in WorkerIds, WorkerStep(w)
      PROVE  FireWebhook(w) \/ UNCHANGED events
  BY <1>3 DEF WorkerStep, Dequeue, PoisonStatus, MoveToDlqRemove, MoveToDlqPush, Broadcast,
         ExecuteFails, ExecuteFailsAsRevert, SubmitUserOp, ReceiptConfirmed,
         ReceiptReverted, ReceiptTimeout, ExecutionPanics, ConfirmStatus, ConfirmRow,
         RevertStatus, FireWebhook, Ack, ReEnqueueAck, ReEnqueuePush, ExhaustPush,
         ExhaustStatus, SupervisorRecovers
<1>4. CASE \/ UNCHANGED vars \/ ChainStep \/ Boot \/ BootRecovers \/ BootNext \/ Crash
           \/ \E w \in WorkerIds : WorkerPanics(w)
           \/ \E q \in Requests : HandlerStep(q) \/ HandlerDropped(q)
  BY <1>4 DEF vars, ChainStep, Boot, BootRecovers, BootNext, Crash, WorkerPanics, LoopPanics,
         workerVars, HandlerStep, HandlerDropped, InsertRequest, Simulate, RecordFailure,
         RecordEstimate, Enqueue, MarkQueued
<1>5. QED
  BY <1>1, <1>2, <1>3, <1>4 DEF Next

LEMMA AnnouncedInvStep == TypeInv /\ AnnouncedInv /\ [Next]_vars => AnnouncedInv'
<1> SUFFICES ASSUME TypeInv, AnnouncedInv, [Next]_vars, NEW w \in WorkerIds,
                    pc'[w] \in AnnouncedPc, held'[w] \in Job
             PROVE  events'[held'[w].req] # <<>>
  BY DEF AnnouncedInv, WorkerIds
<1> USE DEF TypeInv, TypeOK, WorkerTypeOK, AnnouncedPc, DlqPc
<1>1. CASE pc[w] \in AnnouncedPc /\ held'[w] = held[w]
  <2>1. events[held[w].req] # <<>> /\ held[w] \in Job
    BY <1>1 DEF AnnouncedInv
  <2>2. held[w].req \in Requests
    BY <2>1 DEF Job
  <2>3. QED
    BY <1>1, <2>1, <2>2, EventsGrow
<1>2. CASE FireWebhook(w)
  <2>1. held[w] \in Job /\ verdict[w] \in Terminal /\ held'[w] = held[w]
    BY <1>2 DEF FireWebhook, HandOK, Goto, Finish
  <2>2. held[w].req \in Requests
    BY <2>1 DEF Job
  <2>3. events'[held[w].req] = Append(events[held[w].req], verdict[w])
    BY <1>2, <2>2 DEF FireWebhook
  <2>4. events[held[w].req] \in Seq(Terminal)
    BY <2>2
  <2>5. Len(events'[held[w].req]) = Len(events[held[w].req]) + 1
        /\ Len(events[held[w].req]) \in Nat
    BY <2>1, <2>3, <2>4, AppendProperties, LenProperties
  <2>6. QED
    BY <2>1, <2>5
<1>3. (pc[w] \in AnnouncedPc /\ held'[w] = held[w]) \/ FireWebhook(w)
  <2>1. ASSUME NEW v \in WorkerIds, WorkerStep(v) \/ LoopPanics(v)
        PROVE  (pc[w] \in AnnouncedPc /\ held'[w] = held[w]) \/ FireWebhook(w)
    <3>1. CASE v # w
      BY <2>1, <3>1, WorkerFrame
    <3>2. CASE v = w /\ ~Dequeue(w)
      BY <2>1, <3>2 DEF WorkerStep, Dequeue, PoisonStatus, MoveToDlqRemove,
         MoveToDlqPush, Broadcast,
         ExecuteFails, ExecuteFailsAsRevert, SubmitUserOp, ReceiptConfirmed,
         ReceiptReverted, ReceiptTimeout, ExecutionPanics, ConfirmStatus, ConfirmRow,
         RevertStatus, FireWebhook, Ack, ReEnqueueAck, ReEnqueuePush, ExhaustPush,
         ExhaustStatus, SupervisorRecovers, LoopPanics, Goto, Finish
    <3>3. CASE v = w /\ Dequeue(w)
      BY <3>3, DequeueHand, Constants DEF Dequeue
    <3>4. QED
      BY <3>1, <3>2, <3>3
  <2>2. CASE \/ UNCHANGED vars \/ ChainStep \/ Boot \/ BootRecovers \/ BootNext \/ Crash
             \/ \E q \in Requests : HandlerStep(q) \/ HandlerDropped(q)
    BY <2>2 DEF vars, ChainStep, Boot, BootRecovers, BootNext, Crash,
         workerVars, HandlerStep, HandlerDropped, InsertRequest, Simulate, RecordFailure,
         RecordEstimate, Enqueue, MarkQueued
  <2>3. QED
    BY <2>1, <2>2 DEF Next, WorkerPanics
<1>4. QED
  BY <1>1, <1>2, <1>3

\* While nothing dies, a hand is emptied by its own push only.
LEMMA HandsStay ==
    ASSUME TypeInv, LimitInv, [Next]_vars, crashes' = 0, panics' = 0,
           NEW w \in WorkerIds, pc[w] \in HandPc
    PROVE  \/ pc'[w] = pc[w] /\ held'[w] = held[w]
           \/ MoveToDlqPush(w) \/ ReEnqueuePush(w) \/ ExhaustPush(w)
<1> USE DEF TypeInv, TypeOK
<1>1. ASSUME NEW v \in WorkerIds, WorkerStep(v)
      PROVE  \/ pc'[w] = pc[w] /\ held'[w] = held[w]
             \/ MoveToDlqPush(w) \/ ReEnqueuePush(w) \/ ExhaustPush(w)
  <2>1. CASE v = w
    BY <1>1, <2>1 DEF WorkerStep, Dequeue, PoisonStatus, MoveToDlqRemove,
         Broadcast, ExecuteFails, ExecuteFailsAsRevert, SubmitUserOp, ReceiptConfirmed,
         ReceiptReverted, ReceiptTimeout, ExecutionPanics, ConfirmStatus, ConfirmRow,
         RevertStatus, FireWebhook, Ack, ReEnqueueAck,
         ExhaustStatus, SupervisorRecovers, HandPc, RunPc
  <2>2. CASE v # w
    BY <1>1, <2>2, WorkerFrame
  <2>3. QED
    BY <2>1, <2>2
<1>2. CASE BootNext
  BY <1>2 DEF BootNext, LimitInv, HandPc
<1>3. ~Crash /\ ~ \E v \in WorkerIds : WorkerPanics(v)
  <2>1. crashes \in Nat /\ panics \in Nat
    BY Constants
  <2>2. QED
    BY <2>1 DEF Crash, WorkerPanics
<1>4. CASE \/ UNCHANGED vars \/ ChainStep \/ Boot \/ BootRecovers
           \/ \E q \in Requests : HandlerStep(q) \/ HandlerDropped(q)
  BY <1>4 DEF vars, ChainStep, Boot, BootRecovers,
       workerVars, HandlerStep, HandlerDropped, InsertRequest, Simulate, RecordFailure,
       RecordEstimate, Enqueue, MarkQueued
<1>5. QED
  BY <1>1, <1>2, <1>3, <1>4 DEF Next

\* Every action that runs while commands do not fail is answered.
LEMMA NoFaultReply ==
    ASSUME TypeInv, faults' = 0, NEW reply, Answer(reply)
    PROVE  reply = "ok" /\ Applied(reply)
<1>1. faults \in Nat
  BY Constants DEF TypeInv, TypeOK, FaultsTypeOK
<1>2. QED
  BY <1>1 DEF Answer, Applied

\* A push of a worker that carries a job of r puts it in a list.
LEMMA PushLocates ==
    ASSUME TypeInv, faults' = 0, NEW w \in WorkerIds, NEW r \in Requests,
           held[w] \in JobsOf(r), MoveToDlqPush(w) \/ ReEnqueuePush(w) \/ ExhaustPush(w)
    PROVE  Located(r)'
<1> USE DEF TypeInv, TypeOK
<1>1. /\ held[w] \in Job /\ Bumped(held[w]) \in Job
      /\ Reserialized(held[w]) \in JobsOf(r) /\ Reserialized(Bumped(held[w])) \in JobsOf(r)
  BY SameRequest, BumpedType DEF JobsOf
<1>2. CASE MoveToDlqPush(w)
  <2>1. \E reply : PushToDlq(held[w], reply) /\ Applied(reply)
    BY <1>2, NoFaultReply DEF MoveToDlqPush
  <2>2. QED
    BY <1>1, <2>1, BuryPlaces DEF Located, Has, Payload
<1>3. CASE ReEnqueuePush(w)
  <2>1. \E reply : EnqueueJob(Bumped(held[w]), reply) /\ Applied(reply)
    BY <1>3, NoFaultReply DEF ReEnqueuePush
  <2>2. QED
    BY <1>1, <2>1, EnqueuePlaces DEF Located, Has, Payload
<1>4. CASE ExhaustPush(w)
  <2>1. \E reply : PushToDlq(Bumped(held[w]), reply) /\ Applied(reply)
    BY <1>4, NoFaultReply DEF ExhaustPush
  <2>2. QED
    BY <1>1, <2>1, BuryPlaces DEF Located, Has, Payload
<1>5. QED
  BY <1>2, <1>3, <1>4

\* A list command of a worker moves the jobs of r from place to place, but for
\* the ack of a job whose webhook was fired.
LEMMA LocatedListStep ==
    ASSUME TypeInv, AnnouncedInv, faults' = 0, NEW w \in WorkerIds, WorkerStep(w), ListStep(w),
           NEW r \in Requests, Located(r), events[r] = <<>>,
           \A v \in WorkerIds : pc[v] \in HandPc =>
              \/ pc'[v] = pc[v] /\ held'[v] = held[v]
              \/ MoveToDlqPush(v) \/ ReEnqueuePush(v) \/ ExhaustPush(v)
    PROVE  Located(r)'
<1> USE DEF TypeInv, TypeOK
<1> DEFINE T == JobsOf(r)
           Carried == \E v \in WorkerIds : pc[v] \in HandPc /\ held[v] \in T
<1>1. CASE Carried
  BY <1>1, PushLocates DEF Located
<1>2. CASE ~Carried
  <2>1. Occurs(T, queue) \/ Occurs(T, deadLetter) \/ \E v \in WorkerIds : Occurs(T, processing[v])
    BY <1>2 DEF Located, Has
  <2>2. CASE Dequeue(w)
    <3>1. DequeueJob(w)
      BY <2>2 DEF Dequeue
    <3> HIDE DEF T
    <3>2. /\ Occurs(T, queue) => Occurs(T, queue') \/ Occurs(T, processing'[w])
          /\ Occurs(T, processing[w]) => Occurs(T, processing'[w])
          /\ \A v \in WorkerIds \ {w} : processing'[v] = processing[v]
          /\ UNCHANGED deadLetter
      BY <3>1, DequeuePlaces
    <3>3. QED
      BY <2>1, <3>2 DEF Located, Has, T
  <2>3. CASE MoveToDlqRemove(w) \/ Ack(w) \/ ReEnqueueAck(w)
    <3>1. \E reply : RemoveFromProcessing(w, held[w], reply)
      BY <2>3 DEF MoveToDlqRemove, Ack, ReEnqueueAck
    <3>2. /\ Occurs(T, processing[w]) =>
                Reserialized(held[w]) \in T \/ Occurs(T, processing'[w])
          /\ \A v \in WorkerIds \ {w} : processing'[v] = processing[v]
          /\ UNCHANGED <<queue, deadLetter>>
      BY <3>1, RemovePlaces
    <3>3. CASE Reserialized(held[w]) \in T
      <4>1. held[w] \in Payload
        BY <2>3 DEF MoveToDlqRemove, Ack, ReEnqueueAck, HandOK
      <4>2. held[w] \in T /\ held[w].req = r
        BY <3>3, <4>1, SameRequest, CorruptIsNobodys DEF Payload, JobsOf
      <4>3. ~Ack(w)
        BY <4>2 DEF Ack, AnnouncedInv, AnnouncedPc, JobsOf
      <4>4. pc'[w] \in HandPc /\ held'[w] = held[w]
        BY <2>3, <4>3, NoFaultReply DEF MoveToDlqRemove, ReEnqueueAck, Goto, HandPc, WorkerTypeOK
      <4>5. QED
        BY <4>2, <4>4 DEF Located
    <3>4. CASE Reserialized(held[w]) \notin T
      <4> HIDE DEF T
      <4>1. QED
        BY <2>1, <3>2, <3>4 DEF Located, Has, T
    <3>5. QED
      BY <3>3, <3>4
  <2>4. CASE ReEnqueuePush(w)
    <3>1. held[w] \in Job /\ \E reply : EnqueueJob(Bumped(held[w]), reply)
      BY <2>4 DEF ReEnqueuePush, HandOK
    <3>2. UNCHANGED <<processing, deadLetter>> /\ (Occurs(T, queue) => Occurs(T, queue'))
      BY <3>1, EnqueuePlaces, BumpedType DEF Payload
    <3>3. QED
      BY <2>1, <3>2 DEF Located, Has
  <2>5. CASE MoveToDlqPush(w) \/ ExhaustPush(w)
    <3>1. /\ held[w] \in Payload
          /\ \E reply : \/ PushToDlq(held[w], reply)
                        \/ held[w] \in Job /\ PushToDlq(Bumped(held[w]), reply)
      BY <2>5 DEF MoveToDlqPush, ExhaustPush, HandOK, Payload
    <3>2. UNCHANGED <<processing, queue>> /\ (Occurs(T, deadLetter) => Occurs(T, deadLetter'))
      BY <3>1, BuryPlaces, BumpedType DEF Payload
    <3>3. QED
      BY <2>1, <3>2 DEF Located, Has
  <2>6. CASE \E reply \in Replies : RecoverOne(w, reply)
    <3> HIDE DEF T
    <3>1. /\ UNCHANGED deadLetter
          /\ \A v \in WorkerIds \ {w} : processing'[v] = processing[v]
          /\ Occurs(T, queue) => Occurs(T, queue')
          /\ Occurs(T, processing[w]) => Occurs(T, queue') \/ Occurs(T, processing'[w])
      BY <2>6, RecoverPlaces
    <3>2. QED
      BY <2>1, <3>1 DEF Located, Has, T
  <2>7. QED
    BY <2>2, <2>3, <2>4, <2>5, <2>6 DEF ListStep
<1>3. QED
  BY <1>1, <1>2

\* As long as nothing fails, every other step leaves the jobs of r where they
\* are.
LEMMA LocatedStep ==
    ASSUME TypeInv, LimitInv, AnnouncedInv, [Next]_vars, Undisturbed',
           NEW r \in Requests, Located(r), events[r] = <<>>
    PROVE  Located(r)'
<1> USE DEF TypeInv, TypeOK
<1>1. faults' = 0 /\ crashes' = 0 /\ panics' = 0
  <2>1. TypeInv'
    BY TypeInvStep
  <2>2. faults' \in Nat /\ crashes' \in Nat /\ panics' \in Nat
    BY <2>1, Constants DEF FaultsTypeOK
  <2>3. faults' + (crashes' + panics') = 0
    BY DEF Undisturbed, Disturbances
  <2>4. ASSUME NEW a \in Nat, NEW b \in Nat, NEW c \in Nat, a + (b + c) = 0
        PROVE  a = 0 /\ b = 0 /\ c = 0
    BY <2>4
  <2> HIDE DEF TypeInv, TypeOK
  <2>5. QED
    BY <2>2, <2>3, <2>4
<1>2. \A v \in WorkerIds : pc[v] \in HandPc =>
         \/ pc'[v] = pc[v] /\ held'[v] = held[v]
         \/ MoveToDlqPush(v) \/ ReEnqueuePush(v) \/ ExhaustPush(v)
  BY <1>1, HandsStay
<1>3. CASE Quiet
  <2>1. ASSUME NEW v \in WorkerIds, pc[v] \in HandPc, held[v] \in JobsOf(r)
        PROVE  Located(r)'
    <3>1. CASE pc'[v] = pc[v] /\ held'[v] = held[v]
      BY <2>1, <3>1 DEF Located
    <3>2. QED
      BY <1>1, <1>2, <2>1, <3>1, PushLocates
  <2>2. QED
    BY <1>3, <2>1 DEF Quiet, Located, Has, queueVars
<1>4. ASSUME NEW w \in WorkerIds, WorkerStep(w), ListStep(w)
      PROVE  Located(r)'
  BY <1>1, <1>2, <1>4, LocatedListStep
<1>5. CASE \E q \in Requests : Enqueue(q)
  <2>1. PICK q \in Requests : Enqueue(q)
    BY <1>5
  <2>2. FirstJob(q) \in Payload /\ \E reply : EnqueueJob(FirstJob(q), reply)
    BY <2>1 DEF Enqueue, FirstJob, Payload, Job
  <2>3. UNCHANGED <<processing, deadLetter>> /\ (Has(r, queue) => Has(r, queue'))
    BY <2>2, EnqueuePlaces DEF Has
  <2>4. UNCHANGED <<pc, held>>
    BY <2>1 DEF Enqueue, workerVars
  <2>5. QED
    BY <2>3, <2>4 DEF Located, Has
<1>6. CASE BootRecovers
  <2>1. PICK w \in WorkerIds : w = bootWid
    OBVIOUS
  <2>2. UNCHANGED <<pc, held>> /\ \E reply : RecoverOne(w, reply)
    BY <1>6, <2>1 DEF BootRecovers, RecoverOne, workerVars
  <2>3. /\ UNCHANGED deadLetter
        /\ \A v \in WorkerIds \ {w} : processing'[v] = processing[v]
        /\ Has(r, queue) => Has(r, queue')
        /\ Has(r, processing[w]) => Has(r, queue') \/ Has(r, processing'[w])
    BY <2>2, RecoverPlaces DEF Has
  <2>4. QED
    BY <2>2, <2>3 DEF Located, Has
<1>7. QED
  BY <1>3, <1>4, <1>5, <1>6, StepKinds

\* Enqueue is the one step after which the API knows of a push.
LEMMA PushedStep ==
    ASSUME TypeInv, [Next]_vars, NEW r \in Requests, Pushed(r)', ~Pushed(r)
    PROVE  Enqueue(r) /\ call'[r] = "mark_queued"
<1> USE DEF TypeInv, TypeOK
<1>1. ASSUME NEW q \in Requests, HandlerStep(q) \/ HandlerDropped(q)
      PROVE  Enqueue(r) /\ call'[r] = "mark_queued"
  <2>1. q = r
    BY <1>1 DEF HandlerStep, HandlerDropped, InsertRequest, Simulate,
       RecordFailure, RecordEstimate, Enqueue, MarkQueued, Proceed, Pushed
  <2>2. QED
    BY <1>1, <2>1 DEF HandlerStep, HandlerDropped, InsertRequest, Simulate,
       RecordFailure, RecordEstimate, Enqueue, MarkQueued, Proceed, Pushed
<1>2. CASE UNCHANGED call \/ Crash
  BY <1>2 DEF Crash, Pushed, Handling
<1>3. QED
  BY <1>1, <1>2 DEF Next, vars, WorkerPanics, ChainStep, Boot, BootRecovers, BootNext

LEMMA KeptInvInit == Init => KeptInv
<1> SUFFICES ASSUME Init
             PROVE  KeptInv
  OBVIOUS
<1>1. AnnouncedInv
  BY DEF Init, AnnouncedInv, AnnouncedPc, DlqPc
<1>2. ASSUME NEW r \in Requests, Pushed(r)
      PROVE  Located(r)
  <2>1. BacklogOf(r) # {}
    BY <1>2 DEF Init, Pushed
  <2>2. Has(r, Backlog)
    BY <2>1, Constants, PositionsAreJobs DEF BacklogOf
  <2>3. QED
    BY <2>2 DEF Init, Located
<1>3. QED
  BY <1>1, <1>2 DEF KeptInv

LEMMA KeptInvStep == TypeInv /\ LimitInv /\ KeptInv /\ [Next]_vars => KeptInv'
<1> SUFFICES ASSUME TypeInv, LimitInv, KeptInv, [Next]_vars
             PROVE  KeptInv'
  OBVIOUS
<1>1. AnnouncedInv'
  BY AnnouncedInvStep DEF KeptInv
<1>2. ASSUME Undisturbed', NEW r \in Requests, Pushed(r)', events'[r] = <<>>
      PROVE  Located(r)'
  <2>1. events[r] = <<>>
    BY <1>2, EventsGrow
  <2>2. Undisturbed
    <3>1. faults \in Nat /\ crashes \in Nat /\ panics \in Nat
      BY Constants DEF TypeInv, TypeOK, FaultsTypeOK
    <3>2. /\ crashes' = crashes \/ crashes' = crashes + 1
          /\ panics' = panics \/ panics' = panics + 1
      BY DEF Next, vars, WorkerPanics, ChainStep, Boot, BootRecovers, BootNext, Crash, processVars
    <3>3. QED
      BY <1>2, <3>1, <3>2, FaultsGrow DEF Undisturbed, Disturbances
  <2>3. CASE Pushed(r)
    BY <1>2, <2>1, <2>2, <2>3, LocatedStep DEF KeptInv
  <2>4. CASE ~Pushed(r)
    <3>1. Enqueue(r) /\ call'[r] = "mark_queued"
      BY <1>2, <2>4, PushedStep
    <3>2. \E reply : EnqueueJob(FirstJob(r), reply) /\ Applied(reply)
      BY <3>1 DEF Enqueue, Proceed, FirstJob, Applied, TypeInv, TypeOK
    <3>3. FirstJob(r) \in Job /\ FirstJob(r) \in Payload /\ FirstJob(r) \in JobsOf(r)
      BY DEF FirstJob, Job, Payload, JobsOf
    <3>4. Has(r, queue')
      BY <3>2, <3>3, EnqueuePlaces, SameRequest DEF Has, TypeInv, TypeOK
    <3>5. QED
      BY <3>4 DEF Located, Has
  <2>5. QED
    BY <2>3, <2>4
<1>3. QED
  BY <1>1, <1>2 DEF KeptInv

\* Unless a command fails or a task dies, a job that was pushed and whose
\* webhook was not fired is in a list or in the hand of a worker about to push
\* it, for any backlog and any number of workers (worker/mod.rs:6-7,
\* queue/mod.rs:13).
THEOREM UnannouncedJobIsKeptCorrect == Spec => []UnannouncedJobIsKept
<1>1. Spec => []KeptInv
  <2>1. PlacesInv => TypeInv /\ LimitInv
    BY DEF PlacesInv
  <2>2. QED
    BY <2>1, KeptInvInit, KeptInvStep, PlacesCorrect, PTL DEF Spec
<1>2. PlacesInv /\ KeptInv => UnannouncedJobIsKept
  <2> SUFFICES ASSUME PlacesInv, NEW r \in Requests, Located(r)
               PROVE  Copies(r) # {}
    BY DEF UnannouncedJobIsKept, KeptInv, Undisturbed
  <2> USE DEF PlacesInv, TypeInv, TypeOK, QueueTypeOK
  <2>1. CASE Has(r, queue)
    <3>1. PICK i \in PositionsOf(r, queue) : TRUE
      BY <2>1, PositionsAreJobs
    <3>2. <<"queue", 0, i>> \in Copies(r)
      BY <3>1 DEF Copies
    <3>3. QED
      BY <3>2
  <2>2. CASE Has(r, deadLetter)
    <3>1. PICK i \in PositionsOf(r, deadLetter) : TRUE
      BY <2>2, PositionsAreJobs
    <3>2. <<"dead_letter", 0, i>> \in Copies(r)
      BY <3>1 DEF Copies
    <3>3. QED
      BY <3>2
  <2>3. ASSUME NEW w \in WorkerIds, Has(r, processing[w])
        PROVE  Copies(r) # {}
    <3>1. PICK i \in PositionsOf(r, processing[w]) : TRUE
      BY <2>3, PositionsAreJobs
    <3>2. <<"processing", w, i>> \in Copies(r)
      BY <3>1 DEF Copies
    <3>3. QED
      BY <3>2
  <2>4. ASSUME NEW w \in WorkerIds, pc[w] \in HandPc, held[w] \in JobsOf(r)
        PROVE  Copies(r) # {}
    <3>1. w \in Hands(r)
      BY <2>4, Constants DEF Hands, HandPc, JobsOf
    <3>2. <<"hand", w, 1>> \in Copies(r)
      BY <3>1 DEF Copies
    <3>3. QED
      BY <3>2
  <2>5. QED
    BY <2>1, <2>2, <2>3, <2>4 DEF Located
<1>3. QED
  BY <1>1, <1>2, PlacesCorrect, PTL
-----------------------------------------------------------------------------
\* The awaits after a run has begun.
RanPc == RunPc \cup RequeuePc \cup (OutcomePc \ {"notify"})

\* A worker at an await after the run of its job has counted that run, and an
\* operation on its way to the chain is of a request that ran.
RanOK(w) ==
    /\ held[w] \in Job =>
          /\ pc[w] \in RanPc => runs[held[w].req] > 0
          /\ pc[w] = "notify" /\ held[w].attempt < MaxAttempts => runs[held[w].req] > 0
    /\ watched[w].state = "pending" => runs[watched[w].req] > 0

RanInv ==
    /\ \A w \in WorkerIds : RanOK(w)
    /\ \A r \in orphaned : runs[r] > 0

\* Runs are only counted up, by the worker that marks the request.
LEMMA RunsGrow ==
    ASSUME TypeInv, [Next]_vars, NEW r \in Requests
    PROVE  runs'[r] >= runs[r]
<1> USE DEF TypeInv, TypeOK, WorkerTypeOK
<1>1. ASSUME NEW w \in WorkerIds, Broadcast(w)
      PROVE  runs'[r] >= runs[r]
  BY <1>1 DEF Broadcast
<1>2. CASE UNCHANGED runs
  BY <1>2
<1>3. ASSUME NEW w \in WorkerIds, WorkerStep(w), ~Broadcast(w)
      PROVE  UNCHANGED runs
  BY <1>3 DEF WorkerStep, Dequeue, PoisonStatus, MoveToDlqRemove, MoveToDlqPush,
         ExecuteFails, ExecuteFailsAsRevert, SubmitUserOp, ReceiptConfirmed,
         ReceiptReverted, ReceiptTimeout, ExecutionPanics, ConfirmStatus, ConfirmRow,
         RevertStatus, FireWebhook, Ack, ReEnqueueAck, ReEnqueuePush, ExhaustPush,
         ExhaustStatus, SupervisorRecovers
<1>4. ASSUME \/ UNCHANGED vars \/ ChainStep \/ Boot \/ BootRecovers \/ BootNext \/ Crash
             \/ \E w \in WorkerIds : WorkerPanics(w)
             \/ \E q \in Requests : HandlerStep(q) \/ HandlerDropped(q)
      PROVE  UNCHANGED runs
  BY <1>4 DEF vars, ChainStep, Boot, BootRecovers, BootNext, Crash, WorkerPanics, LoopPanics,
         workerVars, HandlerStep, HandlerDropped, InsertRequest, Simulate, RecordFailure,
         RecordEstimate, Enqueue, MarkQueued
<1>5. QED
  BY <1>1, <1>2, <1>3, <1>4 DEF Next

\* The part of RanOK about the job in hand.
LEMMA RanHand ==
    ASSUME TypeInv, LimitInv, RanInv, [Next]_vars, NEW w \in WorkerIds,
           WorkerStep(w), held'[w] \in Job
    PROVE  /\ pc'[w] \in RanPc => runs'[held'[w].req] > 0
           /\ pc'[w] = "notify" /\ held'[w].attempt < MaxAttempts => runs'[held'[w].req] > 0
<1> USE DEF TypeInv, TypeOK, WorkerTypeOK, RanPc, RunPc, RequeuePc, OutcomePc
<1>1. CASE held'[w] = held[w]
  <2>1. held[w] \in Job /\ held[w].req \in Requests /\ runs'[held[w].req] >= runs[held[w].req]
    BY <1>1, RunsGrow DEF Job
  <2>2. runs[held[w].req] \in Nat /\ runs'[held[w].req] \in Nat
    <3>1. TypeInv'
      BY TypeInvStep
    <3>2. QED
      BY <2>1, <3>1
  <2>3. runs[held[w].req] > 0 => runs'[held[w].req] > 0
    BY <2>1, <2>2
  <2>4. CASE Broadcast(w)
    <3>1. runs'[held[w].req] = runs[held[w].req] + 1
      BY <2>1, <2>4 DEF Broadcast
    <3>2. QED
      BY <1>1, <2>2, <3>1
  <2>5. CASE PoisonStatus(w)
    <3>1. held[w].attempt >= MaxAttempts /\ held[w].attempt \in Nat /\ pc'[w] = "notify"
      BY <2>1, <2>5, Constants DEF PoisonStatus, LimitInv, LimitOK, PoisonPc, Job
    <3>2. QED
      BY <1>1, <3>1, Constants
  <2>6. CASE FireWebhook(w)
    <3>1. pc'[w] \in RanPc => held[w].attempt < MaxAttempts
      <4>1. held[w].attempt \in Nat
        BY <2>1 DEF Job
      <4>2. held[w].attempt >= MaxAttempts => pc'[w] = "dlq_rem"
        BY <2>6, <4>1, Constants DEF FireWebhook, Goto
      <4>3. QED
        BY <4>1, <4>2, Constants
    <3>2. pc[w] = "notify" /\ pc'[w] # "notify"
      BY <2>6 DEF FireWebhook, Goto, Finish
    <3>3. QED
      BY <1>1, <2>1, <2>3, <3>1, <3>2 DEF RanInv, RanOK
  <2>7. CASE ~(Broadcast(w) \/ PoisonStatus(w) \/ FireWebhook(w))
    <3>1. pc'[w] \in RanPc \cup {"notify"} => pc[w] \in RanPc
      <4>1. CASE Dequeue(w)
        BY <4>1, DequeueHand DEF Dequeue
      <4>2. CASE ~Dequeue(w)
        BY <2>7, <4>2 DEF WorkerStep, MoveToDlqRemove, MoveToDlqPush,
         ExecuteFails, ExecuteFailsAsRevert, SubmitUserOp, ReceiptConfirmed,
         ReceiptReverted, ReceiptTimeout, ExecutionPanics, ConfirmStatus, ConfirmRow,
         RevertStatus, Ack, ReEnqueueAck, ReEnqueuePush, ExhaustPush,
         ExhaustStatus, SupervisorRecovers, Goto, Finish
      <4>3. QED
        BY <4>1, <4>2
    <3>2. QED
      BY <1>1, <2>1, <2>3, <3>1 DEF RanInv, RanOK
  <2>8. QED
    BY <2>4, <2>5, <2>6, <2>7
<1>2. CASE held'[w] # held[w]
  <2>1. Dequeue(w)
    <3>1. CASE Finish(w)
      BY <3>1, Constants DEF Finish, Payload
    <3>2. CASE ~Finish(w)
      BY <1>2, <3>2 DEF WorkerStep, PoisonStatus, MoveToDlqRemove, MoveToDlqPush, Broadcast,
         ExecuteFails, ExecuteFailsAsRevert, SubmitUserOp, ReceiptConfirmed,
         ReceiptReverted, ReceiptTimeout, ExecutionPanics, ConfirmStatus, ConfirmRow,
         RevertStatus, FireWebhook, Ack, ReEnqueueAck, ReEnqueuePush, ExhaustPush,
         ExhaustStatus, SupervisorRecovers, Goto
    <3>3. QED
      BY <3>1, <3>2
  <2>2. pc'[w] \in {"dlq_rem", "poison_status", "broadcast"}
    BY <1>2, <2>1, DequeueHand
  <2>3. QED
    BY <2>2
<1>3. QED
  BY <1>1, <1>2

\* The part of RanInv about operations.
LEMMA RanOperations ==
    ASSUME TypeInv, RanInv, [Next]_vars
    PROVE  /\ \A v \in WorkerIds : watched'[v].state = "pending" => runs'[watched'[v].req] > 0
           /\ \A r \in orphaned' : runs'[r] > 0
<1> USE DEF TypeInv, TypeOK, ChainTypeOK, WorkerTypeOK
<1>1. ASSUME NEW r \in Requests, runs[r] > 0
      PROVE  runs'[r] > 0
  <2>1. TypeInv'
    BY TypeInvStep
  <2>2. runs[r] \in Nat /\ runs'[r] \in Nat /\ runs'[r] >= runs[r]
    BY <2>1, RunsGrow
  <2>3. QED
    BY <1>1, <2>2
<1>2. ASSUME NEW v \in WorkerIds, watched[v].state = "pending"
      PROVE  watched[v].req \in Requests /\ runs[watched[v].req] > 0
  BY <1>2 DEF RanInv, RanOK, NoOp
<1>3. CASE UNCHANGED <<watched, orphaned>>
  BY <1>1, <1>2, <1>3 DEF RanInv
<1>4. ASSUME NEW gone \in SUBSET WorkerIds, Abandon(gone)
      PROVE  /\ \A v \in WorkerIds : watched'[v].state = "pending" => runs'[watched'[v].req] > 0
             /\ \A r \in orphaned' : runs'[r] > 0
  BY <1>1, <1>2, <1>4 DEF Abandon, RanInv, NoOp
<1>5. ASSUME NEW w \in WorkerIds, SubmitUserOp(w)
      PROVE  /\ \A v \in WorkerIds : watched'[v].state = "pending" => runs'[watched'[v].req] > 0
             /\ \A r \in orphaned' : runs'[r] > 0
  <2>1. held[w] \in Job /\ runs[held[w].req] > 0 /\ held[w].req \in Requests
    BY <1>5 DEF SubmitUserOp, HandOK, RanInv, RanOK, RanPc, RunPc, Job
  <2>2. PICK submitters : Submit(held[w].req, submitters)
    BY <1>5 DEF SubmitUserOp
  <2>3. ASSUME NEW v \in WorkerIds, watched'[v].state = "pending"
        PROVE  runs'[watched'[v].req] > 0
    <3>1. watched'[v] = Pending(held[w].req) \/ watched'[v] = watched[v]
      BY <2>2, <2>3 DEF Submit, Pending
    <3>2. QED
      BY <1>1, <1>2, <2>1, <2>3, <3>1 DEF Pending
  <2>4. QED
    BY <1>1, <2>1, <2>2, <2>3 DEF Submit, RanInv
<1>6. CASE ChainStep
  <2>1. orphaned' \subseteq orphaned
    BY <1>6 DEF ChainStep, IncludeWatched, IncludeOrphan, ExpireOrphan
  <2>2. ASSUME NEW v \in WorkerIds, watched'[v].state = "pending"
        PROVE  watched'[v] = watched[v]
    <3>1. ASSUME NEW w \in WorkerIds, NEW success \in BOOLEAN, IncludeWatched(w, success)
          PROVE  watched'[v] = watched[v]
      <4>1. v # w => watched'[v] = watched[v]
        BY <3>1 DEF IncludeWatched
      <4>2. watched[w] \in [req : Requests, state : OpState]
        BY <3>1 DEF IncludeWatched, NoOp
      <4>3. watched'[w].state # "pending"
        BY <3>1, <4>2 DEF IncludeWatched
      <4>4. QED
        BY <2>2, <4>1, <4>3
    <3>2. QED
      BY <1>6, <3>1 DEF ChainStep, IncludeOrphan, ExpireOrphan
  <2>3. QED
    BY <1>1, <1>2, <2>1, <2>2 DEF RanInv
<1>7. ASSUME NEW w \in WorkerIds, WorkerStep(w)
      PROVE  SubmitUserOp(w) \/ Abandon({w}) \/ UNCHANGED <<watched, orphaned>>
  BY <1>7 DEF WorkerStep, Dequeue, PoisonStatus, MoveToDlqRemove, MoveToDlqPush, Broadcast,
         ExecuteFails, ExecuteFailsAsRevert, ReceiptConfirmed,
         ReceiptReverted, ReceiptTimeout, ExecutionPanics, ConfirmStatus, ConfirmRow,
         RevertStatus, FireWebhook, Ack, ReEnqueueAck, ReEnqueuePush, ExhaustPush,
         ExhaustStatus, SupervisorRecovers, chainVars
<1>8. CASE \/ UNCHANGED vars \/ Boot \/ BootRecovers \/ BootNext
           \/ \E w \in WorkerIds : WorkerPanics(w)
           \/ \E q \in Requests : HandlerStep(q) \/ HandlerDropped(q)
  BY <1>3, <1>8 DEF vars, Boot, BootRecovers, BootNext, WorkerPanics, LoopPanics,
         chainVars, HandlerStep, HandlerDropped, InsertRequest, Simulate, RecordFailure,
         RecordEstimate, Enqueue, MarkQueued
<1>9. CASE Crash
  BY <1>4, <1>9 DEF Crash
<1>10. QED
  BY <1>3, <1>4, <1>5, <1>6, <1>7, <1>8, <1>9 DEF Next

LEMMA RanInvInit == Init => RanInv
  BY DEF Init, RanInv, RanOK, RanPc, RunPc, RequeuePc, OutcomePc, NoOp

LEMMA RanInvStep == TypeInv /\ LimitInv /\ RanInv /\ [Next]_vars => RanInv'
<1> SUFFICES ASSUME TypeInv, LimitInv, RanInv, [Next]_vars
             PROVE  RanInv'
  OBVIOUS
<1>1. /\ \A v \in WorkerIds : watched'[v].state = "pending" => runs'[watched'[v].req] > 0
      /\ \A r \in orphaned' : runs'[r] > 0
  BY RanOperations
<1>2. ASSUME NEW w \in WorkerIds, held'[w] \in Job
      PROVE  /\ pc'[w] \in RanPc => runs'[held'[w].req] > 0
             /\ pc'[w] = "notify" /\ held'[w].attempt < MaxAttempts => runs'[held'[w].req] > 0
  <2>1. CASE pc'[w] = pc[w] /\ held'[w] = held[w]
    <3>1. TypeInv'
      BY TypeInvStep
    <3>2. held[w].req \in Requests /\ runs'[held[w].req] >= runs[held[w].req]
      BY <1>2, <2>1, RunsGrow DEF Job
    <3>3. runs[held[w].req] \in Nat /\ runs'[held[w].req] \in Nat
      BY <3>1, <3>2 DEF TypeInv, TypeOK, WorkerTypeOK
    <3>4. QED
      BY <1>2, <2>1, <3>2, <3>3 DEF RanInv, RanOK
  <2>2. CASE WorkerStep(w)
    BY <1>2, <2>2, RanHand
  <2>3. CASE held'[w] = NoJob
    BY <1>2, <2>3, Constants DEF Payload
  <2>4. \/ pc'[w] = pc[w] /\ held'[w] = held[w]
        \/ WorkerStep(w) \/ held'[w] = NoJob
    <3>1. ASSUME NEW v \in WorkerIds, v # w, WorkerStep(v) \/ LoopPanics(v)
          PROVE  pc'[w] = pc[w] /\ held'[w] = held[w]
      BY <3>1, WorkerFrame
    <3>2. LoopPanics(w) \/ Crash => held'[w] = NoJob
      BY DEF LoopPanics, Crash, TypeInv, TypeOK, WorkerTypeOK
    <3>3. BootNext => held'[w] = NoJob
      BY DEF BootNext, LimitInv, LimitOK, AwayPc
    <3>4. CASE \/ UNCHANGED vars \/ ChainStep \/ Boot \/ BootRecovers
               \/ \E q \in Requests : HandlerStep(q) \/ HandlerDropped(q)
      BY <3>4 DEF vars, ChainStep, Boot, BootRecovers,
           workerVars, HandlerStep, HandlerDropped, InsertRequest, Simulate, RecordFailure,
           RecordEstimate, Enqueue, MarkQueued
    <3>5. QED
      BY <3>1, <3>2, <3>3, <3>4 DEF Next, WorkerPanics
  <2>5. QED
    BY <2>1, <2>2, <2>3, <2>4
<1>3. QED
  BY <1>1, <1>2 DEF RanInv, RanOK, WorkerIds

\* Only a block adds effects, and no step takes one back.
LEMMA EffectsGrow ==
    ASSUME TypeInv, [Next]_vars, NEW r \in Requests
    PROVE  /\ executed[r] \in Nat /\ executed'[r] \in Nat /\ executed'[r] >= executed[r]
           /\ undone[r] \in Nat /\ undone'[r] \in Nat /\ undone'[r] >= undone[r]
<1>1. ChainTypeOK /\ ChainTypeOK'
  BY TypeInvStep DEF TypeInv, TypeOK
<1>2. /\ executed[r] \in Nat /\ executed'[r] \in Nat
      /\ undone[r] \in Nat /\ undone'[r] \in Nat
  BY <1>1 DEF ChainTypeOK
<1>3. ASSUME NEW q \in Requests, NEW success \in BOOLEAN, Include(q, success)
      PROVE  executed'[r] >= executed[r] /\ undone'[r] >= undone[r]
  BY <1>1, <1>2, <1>3 DEF Include, ChainTypeOK
<1>4. ASSUME NEW w \in WorkerIds, NEW success \in BOOLEAN, IncludeWatched(w, success)
      PROVE  \E q \in Requests : Include(q, success)
  BY <1>1, <1>4 DEF IncludeWatched, ChainTypeOK, NoOp
<1>5. ASSUME NEW w \in WorkerIds, WorkerStep(w)
      PROVE  UNCHANGED <<executed, undone>>
  BY <1>5 DEF WorkerStep, Dequeue, PoisonStatus, MoveToDlqRemove, MoveToDlqPush,
         Broadcast, ExecuteFails, ExecuteFailsAsRevert, SubmitUserOp, Submit, ReceiptConfirmed,
         ReceiptReverted, ReceiptTimeout, ExecutionPanics, ConfirmStatus, ConfirmRow,
         RevertStatus, FireWebhook, Ack, ReEnqueueAck, ReEnqueuePush, ExhaustPush,
         ExhaustStatus, SupervisorRecovers, chainVars, Abandon
<1>6. ASSUME \/ UNCHANGED vars \/ Boot \/ BootRecovers \/ BootNext \/ Crash
             \/ \E v \in WorkerIds : WorkerPanics(v)
             \/ \E q \in Requests : HandlerStep(q) \/ HandlerDropped(q)
      PROVE  UNCHANGED <<executed, undone>>
  BY <1>6 DEF vars, Boot, BootRecovers, BootNext, Crash, WorkerPanics, LoopPanics,
           chainVars, HandlerStep, HandlerDropped, InsertRequest, Simulate, RecordFailure,
           RecordEstimate, Enqueue, MarkQueued, Abandon
<1>7. CASE ChainStep
  BY <1>2, <1>3, <1>4, <1>7 DEF ChainStep, IncludeOrphan, ExpireOrphan
<1>8. CASE UNCHANGED <<executed, undone>>
  BY <1>2, <1>8
<1>9. QED
  BY <1>2, <1>5, <1>6, <1>7, <1>8 DEF Next

\* Unless the bundler's words can be mistaken, a job is acknowledged with its
\* effect on the chain.
DecidedInv ==
    ~EchoesRevert => \A w \in WorkerIds : pc[w] = "ack" => Decided(held[w].req)

LEMMA DecidedInvStep ==
    TypeInv /\ LimitInv /\ OutcomeInv /\ DecidedInv /\ [Next]_vars => DecidedInv'
<1> SUFFICES ASSUME TypeInv, LimitInv, OutcomeInv, DecidedInv, [Next]_vars, ~EchoesRevert,
                    NEW w \in WorkerIds, pc'[w] = "ack"
             PROVE  Decided(held[w].req)' /\ held'[w] = held[w]
  BY DEF DecidedInv, WorkerIds, Decided
<1> USE DEF TypeInv, TypeOK, WorkerTypeOK
<1>1. held[w] \in Job => held[w].req \in Requests
  BY DEF Job
<1>2. ASSUME NEW r \in Requests, Decided(r)
      PROVE  Decided(r)'
  BY <1>2, EffectsGrow DEF Decided
<1>3. CASE pc[w] = "ack" /\ held'[w] = held[w]
  <2>1. held[w] \in Job /\ Decided(held[w].req)
    BY <1>3 DEF HandOK, DecidedInv
  <2>2. QED
    BY <1>1, <1>2, <1>3, <2>1
<1>4. CASE FireWebhook(w)
  <2>1. held[w] \in Job /\ held[w].attempt \in Nat /\ verdict[w] \in Terminal
        /\ held'[w] = held[w]
    BY <1>4 DEF FireWebhook, HandOK, Goto, Finish, Job
  <2>2. verdict[w] # "failed" /\ pc[w] = "notify"
    BY <1>4, <2>1, Constants DEF FireWebhook, Goto, Finish
  <2>3. executed[held[w].req] > 0 \/ undone[held[w].req] > 0
    BY <2>1, <2>2 DEF OutcomeInv, KnownOutcome, Terminal, RevertKnown
  <2>4. Decided(held[w].req)
    BY <1>1, <2>1, <2>3 DEF Decided, ChainTypeOK
  <2>5. QED
    BY <1>1, <1>2, <2>1, <2>4
<1>5. (pc[w] = "ack" /\ held'[w] = held[w]) \/ FireWebhook(w)
  <2>1. ASSUME NEW v \in WorkerIds, WorkerStep(v) \/ LoopPanics(v)
        PROVE  (pc[w] = "ack" /\ held'[w] = held[w]) \/ FireWebhook(w)
    <3>1. CASE v # w
      BY <2>1, <3>1, WorkerFrame
    <3>2. CASE v = w /\ ~Dequeue(w)
      BY <2>1, <3>2 DEF WorkerStep, Dequeue, PoisonStatus, MoveToDlqRemove,
         MoveToDlqPush, Broadcast,
         ExecuteFails, ExecuteFailsAsRevert, SubmitUserOp, ReceiptConfirmed,
         ReceiptReverted, ReceiptTimeout, ExecutionPanics, ConfirmStatus, ConfirmRow,
         RevertStatus, FireWebhook, Ack, ReEnqueueAck, ReEnqueuePush, ExhaustPush,
         ExhaustStatus, SupervisorRecovers, LoopPanics, Goto, Finish
    <3>3. CASE v = w /\ Dequeue(w)
      BY <3>3, DequeueHand DEF Dequeue
    <3>4. QED
      BY <3>1, <3>2, <3>3
  <2>2. CASE \/ UNCHANGED vars \/ ChainStep \/ Boot \/ BootRecovers \/ BootNext \/ Crash
             \/ \E q \in Requests : HandlerStep(q) \/ HandlerDropped(q)
    BY <2>2 DEF vars, ChainStep, Boot, BootRecovers, BootNext, Crash,
         workerVars, HandlerStep, HandlerDropped, InsertRequest, Simulate, RecordFailure,
         RecordEstimate, Enqueue, MarkQueued
  <2>3. QED
    BY <2>1, <2>2 DEF Next, WorkerPanics
<1>6. QED
  BY <1>3, <1>4, <1>5
-----------------------------------------------------------------------------
\* The places of JobDelivery, by what holds a job of r.
Taken(r) == \E w \in WorkerIds : Has(r, processing[w])

Moving(r) == \E w \in WorkerIds : pc[w] \in HandPc /\ held[w] \in JobsOf(r)

Known(r) == runs[r] > 0 \/ events[r] # <<>>

PlaceByHolder(r) ==
    IF Has(r, queue) THEN "ready"
    ELSE IF Taken(r) THEN "taken"
    ELSE IF Has(r, deadLetter) THEN "dead"
    ELSE IF Moving(r) THEN "moving"
    ELSE IF Known(r) THEN "gone"
    ELSE "outside"

PlacesByHolder == \A r \in Requests : PlaceOf(r) = PlaceByHolder(r)

LEMMA PlaceCases == TypeInv => PlacesByHolder
<1> SUFFICES ASSUME TypeInv, NEW r \in Requests
             PROVE  PlaceOf(r) = PlaceByHolder(r)
  BY DEF PlacesByHolder
<1> USE DEF TypeInv, TypeOK, QueueTypeOK
<1>1. /\ PositionsOf(r, queue) # {} <=> Has(r, queue)
      /\ PositionsOf(r, deadLetter) # {} <=> Has(r, deadLetter)
      /\ InProcessing(r) <=> Taken(r)
  BY PositionsAreJobs DEF InProcessing, Taken
<1>2. Hands(r) # {} <=> Moving(r)
  <2>1. ASSUME NEW w \in WorkerIds
        PROVE  /\ pc[w] \in {"requeue_push", "exhaust_push", "dlq_push"}
               /\ held[w] # Corrupt
               /\ held[w].req = r
               <=> pc[w] \in HandPc /\ held[w] \in JobsOf(r)
    BY Constants DEF HandOK, HandPc, JobsOf, Payload
  <2>2. QED
    BY <2>1 DEF Hands, Moving
<1>3. (runs[r] = 0 /\ events[r] = <<>>) <=> ~Known(r)
  BY DEF Known, WorkerTypeOK
<1>4. QED
  BY <1>1, <1>2, <1>3 DEF PlaceOf, PlaceByHolder

\* What the refinement rests on.
DeliveryInv == PlacesInv /\ AnnouncedInv /\ RanInv /\ OutcomeInv /\ DecidedInv

LEMMA OneSpot ==
    ASSUME CopyInv, Clean, NEW r \in Requests
    PROVE  /\ Has(r, queue) => ~Taken(r) /\ ~Has(r, deadLetter) /\ ~Moving(r)
           /\ Taken(r) => ~Has(r, deadLetter) /\ ~Moving(r)
           /\ Has(r, deadLetter) => ~Moving(r)
<1>1. PICK kind \in {"queue", "list", "hand", "dead"}, x \in WorkerIds : OnlyAt(r, kind, x)
  BY DEF CopyInv, OnePlace
<1>2. QED
  BY <1>1 DEF OnlyAt, Taken, Moving

\* The same for a pair of states.
SpotStep ==
    /\ CleanState /\ DeliveryInv /\ ~EchoesRevert
    /\ TypeInv' /\ CopyInv'

LEMMA PlaceBefore ==
    ASSUME SpotStep, NEW r \in Requests
    PROVE  /\ Has(r, queue) => PlaceOf(r) = "ready"
           /\ Taken(r) => PlaceOf(r) = "taken"
           /\ Has(r, deadLetter) => PlaceOf(r) = "dead"
           /\ Moving(r) => PlaceOf(r) = "moving"
  BY PlaceCases, OneSpot DEF SpotStep, CleanState, PlacesByHolder, PlaceByHolder

LEMMA PlaceAfter ==
    ASSUME SpotStep, NEW r \in Requests
    PROVE  /\ Has(r, queue)' => PlaceOf(r)' = "ready"
           /\ Taken(r)' => PlaceOf(r)' = "taken"
           /\ Has(r, deadLetter)' => PlaceOf(r)' = "dead"
           /\ Moving(r)' => PlaceOf(r)' = "moving"
           /\ (/\ ~Has(r, queue)' /\ ~Taken(r)' /\ ~Has(r, deadLetter)' /\ ~Moving(r)'
               /\ Known(r)') => PlaceOf(r)' = "gone"
<1>1. (TypeInv => PlacesByHolder)'
  BY PlaceCases, PTL
<1>2. PICK kind \in {"queue", "list", "hand", "dead"}, x \in WorkerIds : OnlyAt(r, kind, x)'
  BY DEF SpotStep, CleanState, CopyInv, OnePlace
<1>3. /\ Has(r, queue)' => ~Taken(r)' /\ ~Has(r, deadLetter)' /\ ~Moving(r)'
      /\ Taken(r)' => ~Has(r, deadLetter)' /\ ~Moving(r)'
      /\ Has(r, deadLetter)' => ~Moving(r)'
  BY <1>2 DEF OnlyAt, Taken, Moving
<1>4. QED
  BY <1>1, <1>3 DEF SpotStep, PlacesByHolder, PlaceByHolder

\* A step that leaves the jobs of r where they are.
SameSpots(r) ==
    /\ Has(r, queue)' <=> Has(r, queue)
    /\ Has(r, deadLetter)' <=> Has(r, deadLetter)
    /\ Taken(r)' <=> Taken(r)
    /\ Moving(r)' <=> Moving(r)
    /\ Known(r)' => Known(r) \/ Taken(r)

LEMMA SamePlace ==
    ASSUME SpotStep, [Next]_vars, NEW r \in Requests, SameSpots(r)
    PROVE  PlaceOf(r)' = PlaceOf(r)
<1>1. Known(r) => Known(r)'
  <2>1. runs[r] \in Nat /\ runs'[r] \in Nat /\ runs'[r] >= runs[r]
    BY RunsGrow DEF SpotStep, CleanState, TypeInv, TypeOK, WorkerTypeOK
  <2>2. events[r] # <<>> => events'[r] # <<>>
    BY EventsGrow DEF SpotStep, CleanState
  <2>3. QED
    BY <2>1, <2>2 DEF Known
<1>2. (TypeInv => PlacesByHolder)'
  BY PlaceCases, PTL
<1>3. QED
  BY <1>1, <1>2, PlaceCases DEF SpotStep, CleanState, SameSpots, PlacesByHolder, PlaceByHolder

\* A list command of w moves no job but the one in its hand, or, for BLMOVE,
\* the one it takes.
LEMMA OthersStay ==
    ASSUME SpotStep, [Next]_vars, NEW w \in WorkerIds, WorkerStep(w), ListStep(w),
           pc[w] # "recovering",
           NEW q \in Requests, held[w] \notin JobsOf(q),
           Dequeue(w) => Last(queue) \notin JobsOf(q)
    PROVE  PlaceOf(q)' = PlaceOf(q)
<1> USE DEF SpotStep, CleanState, TypeInv, TypeOK
<1> DEFINE T == JobsOf(q)
<1>1. \A v \in WorkerIds \ {w} : pc'[v] = pc[v] /\ held'[v] = held[v]
  BY WorkerFrame
<1>2. runs'[q] = runs[q] /\ events'[q] = events[q]
  BY OwnRequestOnly
<1>3. held'[w] \in {held[w], NoJob} \/ (Dequeue(w) /\ held'[w] = Last(queue))
  BY DEF ListStep, Dequeue, MoveToDlqRemove, MoveToDlqPush, Ack, ReEnqueueAck, ReEnqueuePush,
         ExhaustPush, Goto, Finish, WorkerTypeOK
<1>4. NoJob \notin T
  BY Constants DEF JobsOf, Payload
<1>5. Moving(q)' <=> Moving(q)
  BY <1>1, <1>3, <1>4 DEF Moving
<1>6. /\ Occurs(T, queue') <=> Occurs(T, queue)
      /\ Occurs(T, deadLetter') <=> Occurs(T, deadLetter)
      /\ \A v \in WorkerIds : Occurs(T, processing'[v]) <=> Occurs(T, processing[v])
  <2> HIDE DEF T
  <2>1. CASE Dequeue(w)
    <3>1. DequeueJob(w) /\ Last(queue) \notin T
      BY <2>1 DEF Dequeue, T
    <3>2. QED
      BY <3>1, DequeuePlaces
  <2>2. CASE MoveToDlqRemove(w) \/ Ack(w) \/ ReEnqueueAck(w)
    <3>1. held[w] \in Payload /\ \E reply : RemoveFromProcessing(w, held[w], reply)
      BY <2>2 DEF MoveToDlqRemove, Ack, ReEnqueueAck, HandOK
    <3>2. Reserialized(held[w]) \notin T
      BY <3>1, SameRequest, CorruptIsNobodys DEF Payload, T
    <3>3. QED
      BY <3>1, <3>2, RemovePlaces
  <2>3. CASE MoveToDlqPush(w)
    <3>1. held[w] \in Payload /\ \E reply : PushToDlq(held[w], reply)
      BY <2>3 DEF MoveToDlqPush, HandOK
    <3>2. Reserialized(held[w]) \notin T
      BY <3>1, SameRequest, CorruptIsNobodys DEF Payload, T
    <3>3. QED
      BY <3>1, <3>2, BuryPlaces
  <2>4. CASE ExhaustPush(w)
    <3>1. held[w] \in Job /\ \E reply : PushToDlq(Bumped(held[w]), reply)
      BY <2>4 DEF ExhaustPush, HandOK
    <3>2. Bumped(held[w]) \in Payload /\ Reserialized(Bumped(held[w])) \notin T
      BY <3>1, SameRequest, BumpedType DEF Payload, T
    <3>3. QED
      BY <3>1, <3>2, BuryPlaces
  <2>5. CASE ReEnqueuePush(w)
    <3>1. held[w] \in Job /\ \E reply : EnqueueJob(Bumped(held[w]), reply)
      BY <2>5 DEF ReEnqueuePush, HandOK
    <3>2. Bumped(held[w]) \in Payload /\ Reserialized(Bumped(held[w])) \notin T
      BY <3>1, SameRequest, BumpedType DEF Payload, T
    <3>3. QED
      BY <3>1, <3>2, EnqueuePlaces
  <2>6. QED
    BY <2>1, <2>2, <2>3, <2>4, <2>5 DEF ListStep
<1>7. SameSpots(q)
  BY <1>2, <1>5, <1>6 DEF SameSpots, Has, Taken, Known
<1>8. QED
  BY <1>7, SamePlace
-----------------------------------------------------------------------------
\* A step of JobDelivery that moves one job.
LEMMA OneMoves ==
    ASSUME NEW r \in Requests, NEW from, NEW to,
           PlaceOf(r) = from, PlaceOf(r)' = to,
           \A q \in Requests \ {r} : PlaceOf(q)' = PlaceOf(q),
           UNCHANGED <<executed, undone>>
    PROVE  Delivery!Move(r, from, to)
  BY DEF Delivery!Move

LEMMA NoneMoves ==
    ASSUME \A q \in Requests : PlaceOf(q)' = PlaceOf(q),
           UNCHANGED <<executed, undone>>
    PROVE  UNCHANGED Delivery!deliveryVars
  BY DEF Delivery!deliveryVars

DeliveryStep == [Delivery!DeliveryNext]_(Delivery!deliveryVars)

LEMMA ListStepDelivers ==
    ASSUME SpotStep, [Next]_vars, NEW w \in WorkerIds, WorkerStep(w), ListStep(w),
           pc[w] # "recovering"
    PROVE  DeliveryStep
<1> USE DEF SpotStep, CleanState, TypeInv, TypeOK
<1>1. UNCHANGED <<executed, undone>>
  BY DEF ListStep, Dequeue, MoveToDlqRemove, MoveToDlqPush, Ack, ReEnqueueAck, ReEnqueuePush,
         ExhaustPush, chainVars
<1>2. ASSUME NEW r \in Requests
      PROVE  \A q \in Requests \ {r} : JobsOf(q) \cap JobsOf(r) = {}
  BY DEF JobsOf
<1>3. CASE Dequeue(w)
  <2>1. DequeueJob(w) /\ held[w] = NoJob /\ Last(queue) \in Payload
    BY <1>3, DequeueHand, DequeueJobType DEF Dequeue, LimitInv, LimitOK, AwayPc
  <2>2. \A q \in Requests : held[w] \notin JobsOf(q)
    BY <2>1, Constants DEF JobsOf, Payload
  <2>3. CASE Last(queue) = Corrupt
    <3>1. \A q \in Requests : Last(queue) \notin JobsOf(q)
      BY <2>3, CorruptIsNobodys
    <3>2. QED
      BY <1>1, <2>2, <3>1, OthersStay, NoneMoves DEF DeliveryStep
  <2>4. CASE Last(queue) \in Job
    <3>1. PICK r \in Requests : Last(queue) \in JobsOf(r)
      BY <2>4 DEF Job, JobsOf
    <3>2. \A q \in Requests \ {r} : Last(queue) \notin JobsOf(q)
      BY <3>1 DEF JobsOf
    <3>3. PlaceOf(r) = "ready"
      BY <2>1, <3>1, DequeuePlaces, PlaceBefore DEF Has
    <3>4. PlaceOf(r)' = "taken"
      <4>1. Taken(r)'
        BY <2>1, <3>1, DequeuePlaces DEF Has, Taken
      <4>2. QED
        BY <3>1, <4>1, PlaceAfter
    <3>5. Delivery!Take(r)
      BY <1>1, <2>2, <3>1, <3>2, <3>3, <3>4, OthersStay, OneMoves DEF Delivery!Take
    <3>6. QED
      BY <3>1, <3>5 DEF DeliveryStep, Delivery!DeliveryNext
  <2>5. QED
    BY <2>1, <2>3, <2>4 DEF Payload
<1>4. CASE ~Dequeue(w) /\ held[w] = Corrupt
  <2>1. \A q \in Requests : held[w] \notin JobsOf(q)
    BY <1>4, CorruptIsNobodys
  <2>2. QED
    BY <1>1, <1>4, <2>1, OthersStay, NoneMoves DEF DeliveryStep
<1>5. CASE ~Dequeue(w) /\ held[w] \in Job
  <2>1. PICK r \in Requests : held[w] \in JobsOf(r) /\ r = held[w].req
    BY <1>5 DEF Job, JobsOf
  <2>2. \A q \in Requests \ {r} : held[w] \notin JobsOf(q)
    BY <2>1 DEF JobsOf
  <2>3. \A q \in Requests \ {r} : PlaceOf(q)' = PlaceOf(q)
    BY <1>5, <2>2, OthersStay
  <2>4. CASE MoveToDlqRemove(w) \/ ReEnqueueAck(w) \/ Ack(w)
    <3>1. Keeps(w) /\ RemoveFromProcessing(w, held[w], "ok")
      BY <2>4, CleanReply DEF MoveToDlqRemove, Ack, ReEnqueueAck, Keeps, AwayPc, HandPc, Buries
    <3>2. /\ Reserialized(held[w]) = held[w]
          /\ Occurs({Reserialized(held[w])}, processing[w])
      BY <1>5, <3>1, KeptText
    <3>3. Has(r, processing[w])
      BY <2>1, <3>2, MemberHas
    <3>4. PlaceOf(r) = "taken"
      BY <2>1, <3>3, PlaceBefore DEF Taken
    <3>5. CASE MoveToDlqRemove(w) \/ ReEnqueueAck(w)
      <4>1. pc'[w] \in HandPc /\ held'[w] = held[w]
        BY <3>5, CleanReply DEF MoveToDlqRemove, ReEnqueueAck, Goto, HandPc, WorkerTypeOK
      <4>2. PlaceOf(r)' = "moving"
        <5>1. Moving(r)'
          BY <2>1, <4>1 DEF Moving
        <5>2. QED
          BY <2>1, <5>1, PlaceAfter
      <4>3. Delivery!PickUp(r)
        BY <1>1, <2>1, <2>3, <3>4, <4>2, OneMoves DEF Delivery!PickUp
      <4>4. QED
        BY <2>1, <4>3 DEF DeliveryStep, Delivery!DeliveryNext
    <3>6. CASE Ack(w)
      <4>1. pc[w] = "ack" /\ pc'[w] = "idle" /\ held'[w] = NoJob
            /\ \A v \in WorkerIds \ {w} : pc'[v] = pc[v] /\ held'[v] = held[v]
        BY <3>6, WorkerFrame DEF Ack, Finish, WorkerTypeOK
      <4>2. executed[r] + undone[r] > 0 /\ events[r] # <<>>
        BY <1>5, <2>1, <4>1 DEF DeliveryInv, DecidedInv, AnnouncedInv, AnnouncedPc, Decided
      <4>3. PICK kind \in {"queue", "list", "hand", "dead"}, x \in WorkerIds : OnlyAt(r, kind, x)
        BY <2>1 DEF CopyInv, OnePlace
      <4>4. /\ ~Has(r, queue) /\ ~Has(r, deadLetter)
            /\ \A v \in WorkerIds \ {w} : ~Has(r, processing[v])
            /\ \A v \in WorkerIds : ~(pc[v] \in HandPc /\ held[v] \in JobsOf(r))
        BY <3>3, <4>3 DEF OnlyAt
      <4>5. ~Has(r, processing'[w])
        <5>1. Once(JobsOf(r), processing[w]) /\ Reserialized(held[w]) \in JobsOf(r) /\ Applied("ok")
          BY <2>1, <3>2 DEF CopyInv, OncePerList, Applied
        <5>2. QED
          BY <3>1, <3>2, <5>1, RemovePlaces DEF Has
      <4>6. /\ UNCHANGED <<queue, deadLetter>>
            /\ \A v \in WorkerIds \ {w} : processing'[v] = processing[v]
        BY <3>1, RemovePlaces
      <4>7. /\ ~Has(r, queue)' /\ ~Has(r, deadLetter)' /\ ~Taken(r)'
        BY <4>4, <4>5, <4>6 DEF Taken, Has
      <4>8. ~Moving(r)'
        BY <4>1, <4>4 DEF Moving, HandPc
      <4>9. Known(r)'
        BY <2>1, <4>2, EventsGrow DEF Known
      <4>10. PlaceOf(r)' = "gone"
        BY <2>1, <4>7, <4>8, <4>9, PlaceAfter
      <4>11. Delivery!Settle(r)
        BY <1>1, <2>1, <2>3, <3>4, <4>2, <4>10, OneMoves DEF Delivery!Settle
      <4>12. QED
        BY <2>1, <4>11 DEF DeliveryStep, Delivery!DeliveryNext
    <3>7. QED
      BY <2>4, <3>5, <3>6
  <2>5. CASE MoveToDlqPush(w) \/ ReEnqueuePush(w) \/ ExhaustPush(w)
    <3>1. PlaceOf(r) = "moving"
      <4>1. Moving(r)
        BY <2>1, <2>5 DEF Moving, HandPc, MoveToDlqPush, ReEnqueuePush, ExhaustPush
      <4>2. QED
        BY <2>1, <4>1, PlaceBefore
    <3>2. /\ Reserialized(held[w]) \in JobsOf(r)
          /\ Bumped(held[w]) \in Payload /\ Reserialized(Bumped(held[w])) \in JobsOf(r)
      BY <1>5, <2>1, SameRequest, BumpedType DEF Payload
    <3>3. CASE ReEnqueuePush(w)
      <4>1. EnqueueJob(Bumped(held[w]), "ok") /\ Applied("ok")
        BY <3>3, CleanReply DEF ReEnqueuePush, Applied
      <4>2. Has(r, queue)'
        BY <3>2, <4>1, EnqueuePlaces DEF Has
      <4>3. Delivery!Retry(r)
        BY <1>1, <2>1, <2>3, <3>1, <4>2, PlaceAfter, OneMoves DEF Delivery!Retry
      <4>4. QED
        BY <2>1, <4>3 DEF DeliveryStep, Delivery!DeliveryNext
    <3>4. CASE MoveToDlqPush(w) \/ ExhaustPush(w)
      <4>1. Applied("ok") /\ (PushToDlq(held[w], "ok") \/ PushToDlq(Bumped(held[w]), "ok"))
        BY <3>4, CleanReply DEF MoveToDlqPush, ExhaustPush, Applied
      <4>2. Has(r, deadLetter)'
        BY <1>5, <3>2, <4>1, BuryPlaces DEF Has, Payload
      <4>3. Delivery!Bury(r)
        BY <1>1, <2>1, <2>3, <3>1, <4>2, PlaceAfter, OneMoves DEF Delivery!Bury
      <4>4. QED
        BY <2>1, <4>3 DEF DeliveryStep, Delivery!DeliveryNext
    <3>5. QED
      BY <2>5, <3>3, <3>4
  <2>6. QED
    BY <1>5, <2>4, <2>5 DEF ListStep
<1>6. ~Dequeue(w) => held[w] \in Payload
  BY DEF ListStep, MoveToDlqRemove, MoveToDlqPush, Ack, ReEnqueueAck, ReEnqueuePush,
         ExhaustPush, HandOK
<1>7. QED
  BY <1>3, <1>4, <1>5, <1>6 DEF Payload
-----------------------------------------------------------------------------
\* LMOVE gives a job back.
LEMMA RecoverDelivers ==
    ASSUME SpotStep, [Next]_vars, NEW w \in WorkerIds, NEW reply, Answer(reply),
           RecoverOne(w, reply), pc[w] \in AwayPc, pc'[w] \in AwayPc,
           \A v \in WorkerIds \ {w} : pc'[v] = pc[v],
           UNCHANGED <<held, runs, events, executed, undone>>
    PROVE  DeliveryStep
<1> USE DEF SpotStep, CleanState, TypeInv, TypeOK, QueueTypeOK
<1>1. /\ processing[w] \in Seq(Payload) /\ processing[w] # <<>>
      /\ queue' = Cons(Last(processing[w]), queue) /\ processing'[w] = Front(processing[w])
      /\ \A v \in WorkerIds \ {w} : processing'[v] = processing[v]
      /\ UNCHANGED deadLetter
  BY CleanReply DEF RecoverOne, Applied
<1>2. PICK job : job = Last(processing[w])
  OBVIOUS
<1>3. job \in Payload
  BY <1>1, <1>2, PopType
<1>4. ASSUME NEW q \in Requests
      PROVE  /\ Has(q, queue)' <=> job \in JobsOf(q) \/ Has(q, queue)
             /\ Has(q, processing[w]) <=> job \in JobsOf(q) \/ Has(q, processing'[w])
  BY <1>1, <1>2, <1>3, ConsPlaces, PopPlaces DEF Has
<1>5. ASSUME NEW q \in Requests, job \notin JobsOf(q)
      PROVE  PlaceOf(q)' = PlaceOf(q)
  <2>1. /\ Has(q, queue)' <=> Has(q, queue)
        /\ Has(q, deadLetter)' <=> Has(q, deadLetter)
        /\ Taken(q)' <=> Taken(q)
    BY <1>1, <1>4, <1>5 DEF Taken, Has
  <2>2. (Moving(q)' <=> Moving(q)) /\ (Known(q)' <=> Known(q))
    BY DEF Moving, Known, HandPc, AwayPc
  <2>3. QED
    BY <2>1, <2>2, SamePlace DEF SameSpots
<1>6. CASE job = Corrupt
  BY <1>5, <1>6, CorruptIsNobodys, NoneMoves DEF DeliveryStep
<1>7. CASE job \in Job
  <2>1. PICK r \in Requests : job \in JobsOf(r)
    BY <1>7 DEF Job, JobsOf
  <2>2. \A q \in Requests \ {r} : PlaceOf(q)' = PlaceOf(q)
    BY <1>5, <2>1 DEF JobsOf
  <2>3. PlaceOf(r) = "taken" /\ PlaceOf(r)' = "ready"
    BY <1>4, <2>1, PlaceBefore, PlaceAfter DEF Taken
  <2>4. Delivery!GiveBack(r)
    BY <2>2, <2>3, OneMoves DEF Delivery!GiveBack
  <2>5. QED
    BY <2>4 DEF DeliveryStep, Delivery!DeliveryNext
<1>8. QED
  BY <1>3, <1>6, <1>7 DEF Payload

\* A step without a list command moves no job; it may end a worker that had
\* one in hand.
LEMMA NoListDelivers ==
    ASSUME SpotStep, [Next]_vars, UNCHANGED <<queueVars, executed, undone>>,
           \A q \in Requests : /\ Moving(q)' => Moving(q)
                               /\ Known(q)' => Known(q) \/ Taken(q)
    PROVE  DeliveryStep
<1> USE DEF SpotStep, CleanState, DeliveryInv, TypeInv
<1> DEFINE lost == {q \in Requests : Moving(q) /\ ~Moving(q)'}
<1>1. ASSUME NEW q \in Requests
      PROVE  /\ Has(q, queue)' <=> Has(q, queue)
             /\ Has(q, deadLetter)' <=> Has(q, deadLetter)
             /\ Taken(q)' <=> Taken(q)
  BY DEF Has, Taken, queueVars
<1>2. ASSUME NEW q \in Requests, q \notin lost
      PROVE  PlaceOf(q)' = PlaceOf(q)
  BY <1>1, <1>2, SamePlace DEF SameSpots
<1>3. ASSUME NEW q \in lost
      PROVE  PlaceOf(q) = "moving" /\ PlaceOf(q)' = "gone"
  <2>1. PICK w \in WorkerIds : pc[w] \in HandPc /\ held[w] \in JobsOf(q)
    BY <1>3 DEF Moving
  <2>2. held[w] \in Job /\ held[w].req = q
    BY <2>1 DEF JobsOf
  <2>3. runs[q] > 0 \/ events[q] # <<>>
    BY <2>1, <2>2 DEF RanInv, RanOK, RanPc, RequeuePc, HandPc, AnnouncedInv, AnnouncedPc, DlqPc
  <2>4. Known(q)'
    <3>1. runs[q] \in Nat /\ runs'[q] \in Nat /\ runs'[q] >= runs[q]
      BY RunsGrow DEF TypeOK, WorkerTypeOK
    <3>2. events[q] # <<>> => events'[q] # <<>>
      BY EventsGrow
    <3>3. QED
      BY <2>3, <3>1, <3>2 DEF Known
  <2>5. ~Has(q, queue) /\ ~Taken(q) /\ ~Has(q, deadLetter)
    BY <1>3, OneSpot
  <2>6. QED
    BY <1>1, <1>3, <2>4, <2>5, PlaceBefore, PlaceAfter
<1>4. /\ \A q \in lost : PlaceOf(q) = "moving" /\ PlaceOf(q)' = "gone"
      /\ \A q \in Requests \ lost : PlaceOf(q)' = PlaceOf(q)
  BY <1>2, <1>3
<1>5. lost \in SUBSET Requests
  OBVIOUS
<1> HIDE DEF lost
<1>6. Delivery!Lose(lost)
  BY <1>4, <1>5 DEF Delivery!Lose
<1>7. QED
  BY <1>5, <1>6 DEF DeliveryStep, Delivery!DeliveryNext

\* A worker marks or announces a request whose job it keeps in its list, or
\* that it already ran.
LEMMA QuietWorkerDelivers ==
    ASSUME SpotStep, [Next]_vars, NEW w \in WorkerIds, WorkerStep(w), ~ListStep(w)
    PROVE  DeliveryStep
<1> USE DEF SpotStep, CleanState, DeliveryInv, TypeInv, TypeOK
<1>1. UNCHANGED queueVars /\ \A v \in WorkerIds : SameHand(v)
  BY WorkerQuiet DEF Quiet
<1>2. UNCHANGED <<executed, undone>>
  BY DEF WorkerStep, Dequeue, PoisonStatus, MoveToDlqRemove, MoveToDlqPush,
         Broadcast, ExecuteFails, ExecuteFailsAsRevert, SubmitUserOp, Submit, ReceiptConfirmed,
         ReceiptReverted, ReceiptTimeout, ExecutionPanics, ConfirmStatus, ConfirmRow,
         RevertStatus, FireWebhook, Ack, ReEnqueueAck, ReEnqueuePush, ExhaustPush,
         ExhaustStatus, SupervisorRecovers, chainVars, Abandon
<1>3. ASSUME NEW q \in Requests
      PROVE  Moving(q)' => Moving(q)
  BY <1>1, Constants DEF SameHand, Moving, HandPc, AwayPc, JobsOf, Payload
<1>4. ASSUME NEW q \in Requests, Known(q)', ~Known(q)
      PROVE  Taken(q)
  <2>1. held[w] \in JobsOf(q)
    BY <1>4, OwnRequestOnly DEF Known
  <2>2. held[w] \in Job /\ held[w].req = q /\ held[w].attempt \in Nat
    BY <2>1 DEF JobsOf, Job
  <2>3. Broadcast(w) \/ FireWebhook(w)
    BY <1>4 DEF Known, WorkerStep, Dequeue, PoisonStatus, MoveToDlqRemove, MoveToDlqPush,
         ExecuteFails, ExecuteFailsAsRevert, SubmitUserOp, ReceiptConfirmed,
         ReceiptReverted, ReceiptTimeout, ExecutionPanics, ConfirmStatus, ConfirmRow,
         RevertStatus, Ack, ReEnqueueAck, ReEnqueuePush, ExhaustPush,
         ExhaustStatus, SupervisorRecovers
  <2>4. FireWebhook(w) => ~(held[w].attempt < MaxAttempts)
    BY <1>4, <2>2 DEF FireWebhook, RanInv, RanOK, Known
  <2>5. Keeps(w)
    BY <2>3, <2>4 DEF Broadcast, FireWebhook, Keeps, AwayPc, HandPc, Buries
  <2>6. Occurs({held[w]}, processing[w])
    BY <2>2, <2>5 DEF CopyInv, KeepsOriginal
  <2>7. QED
    BY <2>1, <2>6, MemberHas DEF Taken
<1>5. QED
  BY <1>1, <1>2, <1>3, <1>4, NoListDelivers

\* The chain includes operations of requests that ran.
LEMMA ChainDelivers ==
    ASSUME SpotStep, [Next]_vars, ChainStep
    PROVE  DeliveryStep
<1> USE DEF SpotStep, CleanState, DeliveryInv, TypeInv, TypeOK, ChainTypeOK
<1>1. UNCHANGED <<queue, processing, deadLetter, pc, held, runs, events>>
  BY DEF ChainStep, queueVars, workerVars
<1>2. ASSUME NEW q \in Requests
      PROVE  PlaceOf(q)' = PlaceOf(q)
  BY <1>1, SamePlace DEF SameSpots, Has, Taken, Moving, Known
<1>3. ASSUME NEW r \in Requests, NEW success \in BOOLEAN, Include(r, success), runs[r] > 0
      PROVE  DeliveryStep
  <2>1. PlaceOf(r) # "outside"
    BY <1>3, PlaceCases DEF PlacesByHolder, PlaceByHolder, Known
  <2>2. /\ executed'[r] + undone'[r] = executed[r] + undone[r] + 1
        /\ \A q \in Requests \ {r} : executed'[q] = executed[q] /\ undone'[q] = undone[q]
    BY <1>3 DEF Include
  <2>3. Delivery!Effect(r)
    BY <1>2, <2>1, <2>2 DEF Delivery!Effect
  <2>4. QED
    BY <2>3 DEF DeliveryStep, Delivery!DeliveryNext
<1>4. ASSUME NEW w \in WorkerIds, NEW success \in BOOLEAN, IncludeWatched(w, success)
      PROVE  DeliveryStep
  <2>1. watched[w].req \in Requests /\ runs[watched[w].req] > 0
    BY <1>4 DEF IncludeWatched, NoOp, RanInv, RanOK
  <2>2. PICK r \in Requests : r = watched[w].req
    BY <2>1
  <2>3. Include(r, success)
    BY <1>4, <2>2 DEF IncludeWatched, Include
  <2>4. QED
    BY <1>3, <2>1, <2>2, <2>3
<1>5. ASSUME NEW r \in Requests, NEW success \in BOOLEAN, IncludeOrphan(r, success)
      PROVE  DeliveryStep
  BY <1>3, <1>5 DEF IncludeOrphan, RanInv
<1>6. ASSUME NEW r \in Requests, ExpireOrphan(r)
      PROVE  DeliveryStep
  BY <1>2, <1>6, NoneMoves DEF ExpireOrphan, DeliveryStep
<1>7. QED
  BY <1>4, <1>5, <1>6 DEF ChainStep

\* The first push accepts a job from outside.
LEMMA EnqueueDelivers ==
    ASSUME SpotStep, [Next]_vars, NEW r \in Requests, Enqueue(r)
    PROVE  DeliveryStep
<1> USE DEF SpotStep, CleanState, TypeInv, TypeOK
<1>1. /\ FirstJob(r) \in Job /\ FirstJob(r) \in Payload /\ FirstJob(r) \in JobsOf(r)
      /\ EnqueueJob(FirstJob(r), "ok") /\ Applied("ok")
      /\ UNCHANGED <<pc, held, runs, events, executed, undone>>
  BY CleanReply DEF Enqueue, FirstJob, Job, Payload, JobsOf, workerVars, chainVars, Applied
<1>2. UNCHANGED <<processing, deadLetter>>
  BY <1>1 DEF EnqueueJob
<1>3. ASSUME NEW q \in Requests
      PROVE  Has(q, queue)' <=> q = r \/ Has(q, queue)
  <2>1. Reserialized(FirstJob(r)) \in JobsOf(q) <=> q = r
    BY <1>1, SameRequest DEF JobsOf
  <2>2. QED
    BY <1>1, <2>1, EnqueuePlaces DEF Has
<1>4. PlaceOf(r) = "outside"
  <2>1. Untouched(r)
    BY DEF FreshInv, Enqueue, PreCall
  <2>2. ~Has(r, queue) /\ ~Has(r, deadLetter) /\ ~Taken(r) /\ ~Moving(r) /\ ~Known(r)
    BY <2>1 DEF Untouched, Absent, Taken, Moving, Known
  <2>3. QED
    BY <2>2, PlaceCases DEF PlacesByHolder, PlaceByHolder
<1>5. PlaceOf(r)' = "ready"
  BY <1>3, PlaceAfter
<1>6. ASSUME NEW q \in Requests \ {r}
      PROVE  PlaceOf(q)' = PlaceOf(q)
  BY <1>1, <1>2, <1>3, SamePlace DEF SameSpots, Has, Taken, Moving, Known
<1>7. Delivery!Accept(r)
  BY <1>1, <1>4, <1>5, <1>6, OneMoves DEF Delivery!Accept
<1>8. QED
  BY <1>7 DEF DeliveryStep, Delivery!DeliveryNext

LEMMA NextDelivers ==
    ASSUME SpotStep, [Next]_vars
    PROVE  DeliveryStep
<1> USE DEF SpotStep, CleanState, DeliveryInv, TypeInv, TypeOK
<1>1. ASSUME NEW w \in WorkerIds, WorkerStep(w)
      PROVE  DeliveryStep
  <2>1. CASE ListStep(w) /\ pc[w] # "recovering"
    BY <1>1, <2>1, ListStepDelivers
  <2>2. CASE ListStep(w) /\ pc[w] = "recovering"
    <3>1. PICK reply \in Replies :
             /\ Answer(reply) /\ RecoverOne(w, reply)
             /\ Goto(w, IF reply = "ok" THEN "recovering" ELSE "idle")
      BY <2>2 DEF ListStep, Dequeue, MoveToDlqRemove, MoveToDlqPush, Ack, ReEnqueueAck,
                  ReEnqueuePush, ExhaustPush
    <3>2. /\ pc'[w] \in AwayPc /\ pc[w] \in AwayPc /\ UNCHANGED held
          /\ \A v \in WorkerIds \ {w} : pc'[v] = pc[v]
      BY <2>2, <3>1 DEF Goto, AwayPc, WorkerTypeOK
    <3>3. UNCHANGED <<runs, events, executed, undone>>
      <4>1. SupervisorRecovers(w)
        BY <1>1, <2>2 DEF WorkerStep, Dequeue, PoisonStatus, MoveToDlqRemove,
         MoveToDlqPush, Broadcast,
         ExecuteFails, ExecuteFailsAsRevert, SubmitUserOp, ReceiptConfirmed,
         ReceiptReverted, ReceiptTimeout, ExecutionPanics, ConfirmStatus, ConfirmRow,
         RevertStatus, FireWebhook, Ack, ReEnqueueAck, ReEnqueuePush, ExhaustPush,
         ExhaustStatus, RunPc
      <4>2. QED
        BY <4>1 DEF SupervisorRecovers, chainVars
    <3>4. QED
      BY <3>1, <3>2, <3>3, RecoverDelivers
  <2>3. CASE ~ListStep(w)
    BY <1>1, <2>3, QuietWorkerDelivers
  <2>4. QED
    BY <2>1, <2>2, <2>3
<1>2. CASE BootRecovers
  <2>1. PICK w \in WorkerIds : w = bootWid
    OBVIOUS
  <2>2. /\ UNCHANGED <<pc, held, runs, events, executed, undone>>
        /\ \E reply : Answer(reply) /\ RecoverOne(w, reply)
    BY <1>2, <2>1 DEF BootRecovers, RecoverOne, workerVars, chainVars
  <2>3. pc[w] \in AwayPc /\ pc'[w] \in AwayPc
    BY <1>2, <2>2 DEF BootRecovers, LimitInv, AwayPc
  <2>4. QED
    BY <2>2, <2>3, RecoverDelivers
<1>3. CASE Crash \/ BootNext \/ Boot \/ UNCHANGED vars \/ \E w \in WorkerIds : WorkerPanics(w)
  <2>1. UNCHANGED <<queueVars, runs, events, executed, undone>>
    BY <1>3 DEF Crash, BootNext, Boot, vars, workerVars, chainVars, Abandon, WorkerPanics,
                LoopPanics
  <2>2. ASSUME NEW v \in WorkerIds
        PROVE  (pc'[v] = pc[v] /\ held'[v] = held[v]) \/ pc'[v] \notin HandPc
    BY <1>3 DEF Crash, BootNext, Boot, vars, workerVars, WorkerPanics, LoopPanics,
                HandPc, WorkerTypeOK
  <2>3. ASSUME NEW q \in Requests
        PROVE  (Moving(q)' => Moving(q)) /\ (Known(q)' => Known(q))
    BY <2>1, <2>2 DEF Moving, Known
  <2>4. QED
    BY <2>1, <2>3, NoListDelivers
<1>4. ASSUME NEW r \in Requests, HandlerStep(r) \/ HandlerDropped(r)
      PROVE  DeliveryStep
  <2>1. CASE Enqueue(r)
    BY <2>1, EnqueueDelivers
  <2>2. CASE ~Enqueue(r)
    <3>1. UNCHANGED <<queueVars, pc, held, runs, events, executed, undone>>
      BY <1>4, <2>2 DEF HandlerStep, HandlerDropped, InsertRequest, Simulate, RecordFailure,
         RecordEstimate, MarkQueued, workerVars, chainVars
    <3>2. ASSUME NEW q \in Requests
          PROVE  (Moving(q)' => Moving(q)) /\ (Known(q)' => Known(q))
      BY <3>1 DEF Moving, Known
    <3>3. QED
      BY <3>1, <3>2, NoListDelivers
  <2>3. QED
    BY <2>1, <2>2
<1>5. QED
  BY <1>1, <1>2, <1>3, <1>4, ChainDelivers DEF Next

LEMMA InitDelivers == Init => Delivery!DeliveryInit
<1> SUFFICES ASSUME Init
             PROVE  Delivery!DeliveryInit
  OBVIOUS
<1>1. ASSUME NEW r \in Requests
      PROVE  PlaceOf(r) \in {"outside", "ready"}
  <2>1. ~Taken(r) /\ ~Has(r, deadLetter) /\ ~Moving(r) /\ ~Known(r)
    BY EmptyPlaces DEF Init, Taken, Has, Moving, HandPc, Known
  <2>2. QED
    BY <2>1, TypeInvInit, PlaceCases DEF PlacesByHolder, PlaceByHolder
<1>2. ASSUME NEW r \in Requests
      PROVE  executed[r] = 0 /\ undone[r] = 0 /\ executed[r] + undone[r] = 0
  <2>1. executed[r] = 0 /\ undone[r] = 0
    BY DEF Init
  <2>2. QED
    BY <2>1
<1>3. QED
  BY <1>1, <1>2 DEF Delivery!DeliveryInit

\* With no failing command, payloads of this release and a bundler whose words
\* are not mistaken, the pipeline implements JobDelivery, whatever crashes,
\* panics and recoveries happen (queue/mod.rs:1-13, worker/mod.rs:4-9).
THEOREM ImplementsDeliveryCorrect ==
    ASSUME MaxFaults = 0, CurrentForm(Backlog), ~EchoesRevert
    PROVE  Spec => ImplementsDelivery
<1>1. TypeInv => Clean
  BY DEF TypeInv, TypeOK, FaultsTypeOK, Clean
<1>2. Init => DeliveryInv
  BY TypeInvInit, LimitInvInit, FreshInvInit, CopyInvInit, KeptInvInit, RanInvInit,
     OutcomeInvInit DEF DeliveryInv, PlacesInv, KeptInv, DecidedInv, Init
<1>3. DeliveryInv /\ [Next]_vars => DeliveryInv'
  BY TypeInvStep, LimitInvStep, FreshInvStep, CopyInvStep, AnnouncedInvStep, RanInvStep,
     OutcomeInvStep, DecidedInvStep DEF DeliveryInv, PlacesInv
<1>4. DeliveryInv /\ [Next]_vars => DeliveryStep
  <2> SUFFICES ASSUME DeliveryInv, [Next]_vars
               PROVE  DeliveryStep
    OBVIOUS
  <2>1. DeliveryInv'
    BY <1>3
  <2>2. TypeInv' /\ CopyInv' /\ faults' = 0
    BY <2>1 DEF DeliveryInv, PlacesInv, TypeInv, TypeOK, FaultsTypeOK
  <2>3. SpotStep
    BY <1>1, <2>2 DEF SpotStep, CleanState, DeliveryInv, PlacesInv, Clean
  <2>4. QED
    BY <2>3, NextDelivers
<1>5. QED
  BY <1>2, <1>3, <1>4, InitDelivers, PTL
     DEF Spec, ImplementsDelivery, Delivery!DeliverySpec, DeliveryStep
-----------------------------------------------------------------------------
\* The steps that write each part of the history and of the database.
LEMMA Writers ==
    ASSUME TypeInv, [Next]_vars
    PROVE  /\ UNCHANGED runs \/ \E w \in WorkerIds : Broadcast(w)
           /\ UNCHANGED events \/ \E w \in WorkerIds : FireWebhook(w)
           /\ UNCHANGED txRows \/ (\E w \in WorkerIds : ConfirmRow(w))
                \/ \E q \in Requests : InsertRequest(q)
           /\ \/ UNCHANGED status
              \/ \E w \in WorkerIds : \/ PoisonStatus(w) \/ Broadcast(w) \/ ConfirmStatus(w)
                                      \/ RevertStatus(w) \/ ExhaustStatus(w)
              \/ \E q \in Requests : \/ InsertRequest(q) \/ RecordFailure(q)
                                     \/ RecordEstimate(q) \/ MarkQueued(q)
<1>1. ASSUME \/ UNCHANGED vars \/ ChainStep \/ Boot \/ BootRecovers \/ BootNext \/ Crash
             \/ \E w \in WorkerIds : WorkerPanics(w)
      PROVE  UNCHANGED <<runs, events, txRows, status>>
  BY <1>1 DEF vars, ChainStep, Boot, BootRecovers, BootNext, Crash, WorkerPanics, LoopPanics,
         workerVars, storeVars
<1>2. ASSUME NEW q \in Requests, HandlerStep(q) \/ HandlerDropped(q)
      PROVE  /\ UNCHANGED <<runs, events>>
             /\ UNCHANGED txRows \/ InsertRequest(q)
             /\ \/ UNCHANGED status
                \/ InsertRequest(q) \/ RecordFailure(q) \/ RecordEstimate(q) \/ MarkQueued(q)
  BY <1>2 DEF HandlerStep, HandlerDropped, InsertRequest, Simulate, RecordFailure,
         RecordEstimate, Enqueue, MarkQueued, workerVars, storeVars, UpdateExecutionStatus
<1>3. ASSUME NEW w \in WorkerIds, WorkerStep(w)
      PROVE  /\ UNCHANGED runs \/ Broadcast(w)
             /\ UNCHANGED events \/ FireWebhook(w)
             /\ UNCHANGED txRows \/ ConfirmRow(w)
             /\ \/ UNCHANGED status
                \/ PoisonStatus(w) \/ Broadcast(w) \/ ConfirmStatus(w)
                \/ RevertStatus(w) \/ ExhaustStatus(w)
  BY <1>3 DEF WorkerStep, Dequeue, PoisonStatus, MoveToDlqRemove, MoveToDlqPush, Broadcast,
         ExecuteFails, ExecuteFailsAsRevert, SubmitUserOp, ReceiptConfirmed,
         ReceiptReverted, ReceiptTimeout, ExecutionPanics, ConfirmStatus, ConfirmRow,
         RevertStatus, FireWebhook, Ack, ReEnqueueAck, ReEnqueuePush, ExhaustPush,
         ExhaustStatus, SupervisorRecovers, storeVars, UpdateExecutionStatus, InsertTransaction
<1>4. QED
  BY <1>1, <1>2, <1>3 DEF Next

\* A webhook adds one event to its request, and none to another.
LEMMA EventsOf ==
    ASSUME TypeInv, NEW w \in WorkerIds, FireWebhook(w), NEW r \in Requests
    PROVE  /\ held[w] \in Job /\ verdict[w] \in Terminal
           /\ events'[r] = IF held[w].req = r THEN Append(events[r], verdict[w]) ELSE events[r]
           /\ ToSet(events'[r]) = ToSet(events[r]) \cup
                                  (IF held[w].req = r THEN {verdict[w]} ELSE {})
<1>1. held[w] \in Job /\ verdict[w] \in Terminal /\ events[r] \in Seq(Terminal)
  BY DEF FireWebhook, TypeInv, TypeOK, HandOK, WorkerTypeOK
<1>2. events'[r] = IF held[w].req = r THEN Append(events[r], verdict[w]) ELSE events[r]
  BY <1>1 DEF FireWebhook, TypeInv, TypeOK, WorkerTypeOK
<1>3. QED
  BY <1>1, <1>2, AppendMembers

\* An UPDATE writes the row of its request.
LEMMA StatusOf ==
    ASSUME TypeInv, NEW w \in WorkerIds, NEW r \in Requests, status'[r] # status[r],
           \/ PoisonStatus(w) \/ Broadcast(w) \/ ConfirmStatus(w)
           \/ RevertStatus(w) \/ ExhaustStatus(w)
    PROVE  /\ held[w] \in JobsOf(r)
           /\ status'[r] = "failed" => PoisonStatus(w) \/ ExhaustStatus(w)
<1>1. held[w] \in Job
  BY DEF PoisonStatus, Broadcast, ConfirmStatus, RevertStatus, ExhaustStatus, TypeInv, HandOK
<1>2. /\ held[w].req = r
      /\ status'[r] = "failed" => PoisonStatus(w) \/ ExhaustStatus(w)
  BY <1>1 DEF PoisonStatus, Broadcast, ConfirmStatus, RevertStatus, ExhaustStatus, TypeInv,
         TypeOK, StoreTypeOK, UpdateExecutionStatus
<1>3. QED
  BY <1>1, <1>2 DEF JobsOf
-----------------------------------------------------------------------------
\* The backlog brought a job of r whose attempts were used up.
Overdue(r) == \E i \in BacklogOf(r) : Backlog[i].attempt >= MaxAttempts

\* The jobs whose attempts are used up.
Spent == {job \in Job : job.attempt >= MaxAttempts}

\* The payloads of r that no worker may ever take: those used up, or for an
\* overdue request those that are not.
Barred(r) == IF Overdue(r) THEN JobsOf(r) \ Spent ELSE JobsOf(r) \cap Spent

AttemptsInv ==
    /\ \A r \in Requests : BacklogOf(r) # {} => call[r] = "accepted"
    /\ \A r \in Requests : Nowhere(Barred(r))
    /\ \A r \in Requests : Overdue(r) => runs[r] = 0 /\ ToSet(events[r]) \subseteq {"failed"}
    /\ ~Occurs(Job \ Spent, deadLetter)

\* The attempts of the text a worker writes.
LEMMA SpentText ==
    ASSUME NEW job \in Job
    PROVE  /\ job \in Spent <=> ~(job.attempt < MaxAttempts)
           /\ Reserialized(job) \in Spent <=> ~(job.attempt < MaxAttempts)
           /\ Reserialized(Bumped(job)) \in Spent <=> ~(job.attempt + 1 < MaxAttempts)
           /\ Reserialized(job) \in Job /\ Reserialized(Bumped(job)) \in Job
<1>1. /\ job # Corrupt /\ Bumped(job) # Corrupt
      /\ Bumped(job) \in Job /\ Bumped(job).attempt = job.attempt + 1
  BY BumpedType, Constants
<1>2. /\ Reserialized(job) \in Job /\ Reserialized(job).attempt = job.attempt
      /\ Reserialized(Bumped(job)) \in Job
      /\ Reserialized(Bumped(job)).attempt = job.attempt + 1
  BY <1>1 DEF Reserialized, Job
<1>3. job.attempt \in Nat /\ MaxAttempts \in Nat
  BY Constants DEF Job
<1>4. QED
  BY <1>1, <1>2, <1>3 DEF Spent

LEMMA AttemptsInvInit == Init => AttemptsInv
<1> SUFFICES ASSUME Init
             PROVE  AttemptsInv
  OBVIOUS
<1>1. /\ \A w \in WorkerIds : processing[w] = <<>> /\ held[w] = NoJob
      /\ queue = Backlog /\ deadLetter = <<>>
      /\ \A r \in Requests : /\ BacklogOf(r) # {} => call[r] = "accepted"
                             /\ runs[r] = 0 /\ events[r] = <<>>
  BY DEF Init
<1>2. ASSUME NEW r \in Requests
      PROVE  Nowhere(Barred(r))
  <2>1. NoJob \notin Barred(r)
    BY Constants DEF Barred, JobsOf, Payload
  <2>2. ASSUME NEW i \in DOMAIN Backlog, Backlog[i] \in Barred(r)
        PROVE  FALSE
    <3>1. Backlog[i] \in JobsOf(r) /\ i \in BacklogOf(r)
      BY <2>2, Constants DEF Barred, JobsOf, BacklogOf, PositionsOf
    <3>2. CASE Overdue(r)
      <4>1. PICK j \in BacklogOf(r) : Backlog[j].attempt >= MaxAttempts
        BY <3>2 DEF Overdue
      <4>2. i = j
        BY <3>1, <4>1, PipelineAssumption
      <4>3. QED
        BY <2>2, <3>1, <3>2, <4>1, <4>2 DEF Barred, Spent, JobsOf
    <3>3. CASE ~Overdue(r)
      BY <2>2, <3>1, <3>3 DEF Barred, Spent, Overdue
    <3>4. QED
      BY <3>2, <3>3
  <2>3. QED
    BY <1>1, <2>1, <2>2, EmptyPlaces DEF Nowhere, Occurs
<1>3. QED
  BY <1>1, <1>2, EmptyPlaces DEF AttemptsInv, ToSet

LEMMA AttemptsInvStep ==
    TypeInv /\ LimitInv /\ AttemptsInv /\ [Next]_vars => AttemptsInv'
<1> SUFFICES ASSUME TypeInv, LimitInv, AttemptsInv, [Next]_vars
             PROVE  AttemptsInv'
  OBVIOUS
<1>1. \A r \in Requests : BacklogOf(r) # {} => call'[r] = "accepted"
  <2>1. ASSUME NEW q \in Requests, HandlerStep(q) \/ HandlerDropped(q)
        PROVE  call[q] # "accepted" /\ \A r \in Requests \ {q} : call'[r] = call[r]
    BY <2>1 DEF HandlerStep, HandlerDropped, InsertRequest, Simulate, RecordFailure,
         RecordEstimate, Enqueue, MarkQueued, Proceed, Handling, TypeInv, TypeOK
  <2>2. CASE Crash
    BY <2>2 DEF Crash, AttemptsInv, Handling
  <2>3. CASE UNCHANGED call
    BY <2>3 DEF AttemptsInv
  <2>4. QED
    BY <2>1, <2>2, <2>3 DEF Next, vars, WorkerPanics, ChainStep, Boot, BootRecovers, BootNext,
         AttemptsInv
<1>2. ASSUME NEW r \in Requests
      PROVE  Nowhere(Barred(r))'
  <2> DEFINE T == Barred(r)
  <2>1. NoJob \notin T /\ Nowhere(T)
    BY Constants DEF Barred, JobsOf, Payload, AttemptsInv
  <2>2. ASSUME NEW q \in Requests, Enqueue(q)
        PROVE  Reserialized(FirstJob(q)) \notin T
    <3>1. FirstJob(q) \in Job /\ FirstJob(q).attempt = 0 /\ FirstJob(q).req = q
      BY DEF FirstJob, Job
    <3>2. Reserialized(FirstJob(q)) \notin Spent
      BY <3>1, SpentText, Constants
    <3>3. Reserialized(FirstJob(q)) \in JobsOf(r) => r = q
      BY <3>1, SameRequest DEF JobsOf
    <3>4. call[q] # "accepted"
      BY <2>2 DEF Enqueue
    <3>5. ~Overdue(q)
      BY <3>4 DEF AttemptsInv, Overdue
    <3>6. QED
      BY <3>2, <3>3, <3>5 DEF Barred
  <2>3. ASSUME NEW w \in WorkerIds, ReEnqueuePush(w)
        PROVE  Reserialized(Bumped(held[w])) \notin T
    <3>1. held[w] \in Job /\ held[w] \notin T
      BY <2>1, <2>3 DEF ReEnqueuePush, TypeInv, HandOK, Nowhere
    <3>2. held[w].attempt + 1 < MaxAttempts /\ held[w].attempt < MaxAttempts
      BY <2>3, <3>1, Constants DEF ReEnqueuePush, LimitInv, LimitOK, Job
    <3>3. Reserialized(Bumped(held[w])) \notin Spent /\ held[w] \notin Spent
      BY <3>1, <3>2, SpentText
    <3>4. Reserialized(Bumped(held[w])) \in JobsOf(r) => held[w] \in JobsOf(r)
      BY <3>1, SameRequest
    <3>5. QED
      BY <3>1, <3>3, <3>4 DEF Barred
  <2> HIDE DEF T
  <2>4. Nowhere(T)'
    BY <2>1, <2>2, <2>3, NowhereStep
  <2>5. QED
    BY <2>4 DEF T, Barred, Overdue, BacklogOf
<1>3. ASSUME NEW r \in Requests, Overdue(r)
      PROVE  runs'[r] = 0 /\ ToSet(events'[r]) \subseteq {"failed"}
  <2>1. runs[r] = 0 /\ ToSet(events[r]) \subseteq {"failed"} /\ Nowhere(JobsOf(r) \ Spent)
    BY <1>3 DEF AttemptsInv, Barred
  <2>2. ASSUME NEW w \in WorkerIds, held[w] \in JobsOf(r)
        PROVE  held[w] \in Job /\ ~(held[w].attempt < MaxAttempts)
    <3>1. held[w] \in Spent /\ held[w] \in Job
      BY <2>1, <2>2 DEF Nowhere, JobsOf
    <3>2. QED
      BY <3>1, SpentText
  <2>3. ASSUME NEW w \in WorkerIds, Broadcast(w)
        PROVE  runs'[r] = runs[r]
    <3>1. held[w] \in Job /\ held[w].attempt < MaxAttempts
      BY <2>3 DEF Broadcast, TypeInv, HandOK, LimitInv, LimitOK, AwayPc, PoisonPc
    <3>2. held[w].req # r
      BY <2>2, <3>1 DEF JobsOf
    <3>3. QED
      BY <2>3, <3>2 DEF Broadcast, TypeInv, TypeOK, WorkerTypeOK
  <2>4. ASSUME NEW w \in WorkerIds, FireWebhook(w)
        PROVE  ToSet(events'[r]) \subseteq {"failed"}
    <3>1. held[w].req = r => verdict[w] = "failed"
      <4>1. SUFFICES ASSUME held[w].req = r
                     PROVE  verdict[w] = "failed"
        OBVIOUS
      <4>2. held[w] \in JobsOf(r)
        BY <2>4, <4>1, EventsOf DEF JobsOf
      <4>3. QED
        BY <2>2, <2>4, <4>2 DEF FireWebhook, LimitInv, LimitOK
    <3>2. QED
      BY <2>1, <2>4, <3>1, EventsOf
  <2>5. QED
    BY <2>1, <2>3, <2>4, Writers
<1>4. ~Occurs(Job \ Spent, deadLetter')
  <2> DEFINE T == Job \ Spent
  <2>1. ASSUME NEW w \in WorkerIds, MoveToDlqPush(w)
        PROVE  Reserialized(held[w]) \notin T
    <3>1. held[w] \in Payload /\ pc[w] \in PoisonPc
      BY <2>1 DEF MoveToDlqPush, TypeInv, HandOK, PoisonPc
    <3>2. CASE held[w] = Corrupt
      BY <3>2, Constants DEF Reserialized
    <3>3. CASE held[w] # Corrupt
      <4>1. held[w] \in Job /\ held[w].attempt >= MaxAttempts /\ held[w].attempt \in Nat
        BY <3>1, <3>3 DEF LimitInv, LimitOK, Payload, Job
      <4>2. QED
        BY <4>1, SpentText, Constants
    <3>4. QED
      BY <3>2, <3>3
  <2>2. ASSUME NEW w \in WorkerIds, ExhaustPush(w)
        PROVE  Reserialized(Bumped(held[w])) \notin T
    <3>1. held[w] \in Job /\ held[w].attempt + 1 >= MaxAttempts /\ held[w].attempt \in Nat
      BY <2>2 DEF ExhaustPush, TypeInv, HandOK, LimitInv, LimitOK, Job
    <3>2. QED
      BY <3>1, SpentText, Constants
  <2> HIDE DEF T
  <2>3. ~Occurs(T, deadLetter)
    BY DEF AttemptsInv, T
  <2>4. ~Occurs(T, deadLetter')
    BY <2>1, <2>2, <2>3, DeadLetterStep
  <2>5. QED
    BY <2>4 DEF T
<1>5. QED
  BY <1>1, <1>2, <1>3, <1>4 DEF AttemptsInv, Overdue, BacklogOf, Spent, Job

\* A job goes back to the main list only with an attempt left, and to the
\* dead-letter list only without, whatever fails: the bump, the limit and the
\* poison-pill guard agree for every MAX_JOB_ATTEMPTS (worker/mod.rs:74,
\* 799-842).
THEOREM AttemptsWithinLimitCorrect == Spec => []AttemptsWithinLimit
<1>1. Init => TypeInv /\ LimitInv /\ AttemptsInv
  BY TypeInvInit, LimitInvInit, AttemptsInvInit
<1>2. TypeInv /\ LimitInv /\ AttemptsInv /\ [Next]_vars => (TypeInv /\ LimitInv /\ AttemptsInv)'
  BY TypeInvStep, LimitInvStep, AttemptsInvStep
<1>3. TypeInv /\ LimitInv /\ AttemptsInv => AttemptsWithinLimit
  <2> SUFFICES ASSUME TypeInv, AttemptsInv, NEW r \in Requests
               PROVE  /\ \A i \in PositionsOf(r, queue) :
                            queue[i].attempt >= MaxAttempts => BacklogOf(r) # {} /\ runs[r] = 0
                      /\ \A i \in PositionsOf(r, deadLetter) :
                            deadLetter[i].attempt >= MaxAttempts
    BY DEF AttemptsWithinLimit
  <2>1. ASSUME NEW i \in PositionsOf(r, queue), queue[i].attempt >= MaxAttempts
        PROVE  BacklogOf(r) # {} /\ runs[r] = 0
    <3>1. i \in DOMAIN queue /\ queue[i] \in JobsOf(r) \cap Spent
      BY <2>1, PositionsAreJobs DEF TypeInv, TypeOK, QueueTypeOK, Spent, JobsOf
    <3>2. Overdue(r)
      BY <3>1 DEF AttemptsInv, Nowhere, Occurs, Barred
    <3>3. QED
      BY <3>2 DEF AttemptsInv, Overdue
  <2>2. ASSUME NEW i \in PositionsOf(r, deadLetter)
        PROVE  deadLetter[i].attempt >= MaxAttempts
    <3>1. i \in DOMAIN deadLetter /\ deadLetter[i] \in JobsOf(r)
      BY PositionsAreJobs DEF TypeInv, TypeOK, QueueTypeOK
    <3>2. deadLetter[i] \in Spent
      BY <3>1 DEF AttemptsInv, Occurs, JobsOf
    <3>3. QED
      BY <3>2 DEF Spent
  <2>3. QED
    BY <2>1, <2>2
<1>4. QED
  BY <1>1, <1>2, <1>3, PTL DEF Spec
-----------------------------------------------------------------------------
\* A dead-letter entry of r with its attempts used up.
Buried(r) == Occurs(JobsOf(r) \cap Spent, deadLetter)

\* Why a request is called failed, as long as no command fails.
FailInv ==
    faults = 0 =>
        /\ \A w \in WorkerIds : Buries(w) => Buried(held[w].req)
        /\ \A r \in Requests :
              status[r] = "failed" \/ "failed" \in ToSet(events[r]) =>
                  call[r] = "rejected" \/ Overdue(r) \/ Buried(r)

LEMMA FailInvInit == Init => FailInv
<1> SUFFICES ASSUME Init
             PROVE  FailInv
  OBVIOUS
<1>1. \A w \in WorkerIds : ~Buries(w)
  BY DEF Init, Buries
<1>2. \A r \in Requests : status[r] # "failed" /\ events[r] = <<>>
  BY DEF Init
<1>3. ASSUME NEW r \in Requests
      PROVE  "failed" \notin ToSet(events[r])
  <2>1. DOMAIN <<>> = {}
    OBVIOUS
  <2>2. ToSet(<<>>) = {}
    BY <2>1 DEF ToSet
  <2>3. QED
    BY <1>2, <2>2
<1>4. QED
  BY <1>1, <1>2, <1>3 DEF FailInv

LEMMA BuriedStays ==
    ASSUME TypeInv, LimitInv, [Next]_vars, NEW r, Buried(r)
    PROVE  Buried(r)'
<1> DEFINE T == JobsOf(r) \cap Spent
<1>1. Occurs(T, deadLetter)
  BY DEF Buried
<1> HIDE DEF T
<1>2. Occurs(T, deadLetter')
  BY <1>1, DeadLetterStep
<1>3. QED
  BY <1>2 DEF Buried, T, JobsOf, Spent

\* A worker that buries did so before, or pushes the exhausted job now.
LEMMA BuriesStep ==
    ASSUME TypeInv, LimitInv, [Next]_vars, NEW w \in WorkerIds, Buries(w)'
    PROVE  held'[w] = held[w] /\ (Buries(w) \/ ExhaustPush(w))
<1> USE DEF TypeInv, TypeOK, WorkerTypeOK
<1>1. pc'[w] \notin AwayPc
  BY DEF Buries, AwayPc
<1>2. CASE Quiet
  BY <1>1, <1>2 DEF Quiet, SameHand
<1>3. CASE UNCHANGED <<pc, held, verdict>>
  BY <1>3 DEF Buries
<1>4. ASSUME NEW v \in WorkerIds, WorkerStep(v), ListStep(v)
      PROVE  held'[w] = held[w] /\ (Buries(w) \/ ExhaustPush(w))
  <2>1. CASE v # w
    <3>1. pc'[w] = pc[w] /\ held'[w] = held[w] /\ verdict'[w] = verdict[w]
      BY <1>4, <2>1, WorkerFrame
    <3>2. QED
      BY <3>1 DEF Buries
  <2>2. CASE v = w /\ Dequeue(w)
    BY <2>2, DequeueHand DEF Buries, Dequeue
  <2>3. CASE v = w /\ ~Dequeue(w)
    <3>1. pc'[w] \in {"exhaust_status", "notify"}
      BY DEF Buries
    <3>2. QED
      BY <1>4, <2>3, <3>1 DEF ListStep, MoveToDlqRemove, MoveToDlqPush, Ack, ReEnqueueAck,
         ReEnqueuePush, ExhaustPush, Goto, Finish
  <2>4. QED
    BY <2>1, <2>2, <2>3
<1>5. QED
  BY <1>2, <1>3, <1>4, StepKinds DEF Enqueue, BootRecovers, workerVars

LEMMA FailInvStep ==
    TypeInv /\ LimitInv /\ AttemptsInv /\ FailInv /\ [Next]_vars => FailInv'
<1> SUFFICES ASSUME TypeInv, LimitInv, AttemptsInv, FailInv, [Next]_vars, faults' = 0
             PROVE  /\ \A w \in WorkerIds : Buries(w)' => Buried(held[w].req)'
                    /\ \A r \in Requests :
                          status'[r] = "failed" \/ "failed" \in ToSet(events'[r]) =>
                              call'[r] = "rejected" \/ Overdue(r) \/ Buried(r)'
  BY DEF FailInv, Overdue, BacklogOf
<1>1. faults = 0
  <2>1. faults \in Nat /\ faults' \in Nat
    BY TypeInvStep, Constants DEF TypeInv, TypeOK, FaultsTypeOK
  <2>2. QED
    BY <2>1, FaultsGrow
<1>2. ASSUME NEW w \in WorkerIds, Buries(w)
      PROVE  Buried(held[w].req)
  BY <1>1, <1>2 DEF FailInv
<1>3. ASSUME NEW w \in WorkerIds, Buries(w)'
      PROVE  Buried(held[w].req)'
  <2>1. held'[w] = held[w] /\ (Buries(w) \/ ExhaustPush(w))
    BY <1>3, BuriesStep
  <2>2. CASE Buries(w)
    BY <1>2, <2>1, <2>2, BuriedStays DEF Buried
  <2>3. CASE ExhaustPush(w)
    <3>1. held[w] \in Job /\ held[w].attempt + 1 >= MaxAttempts /\ held[w].attempt \in Nat
      BY <2>3 DEF ExhaustPush, TypeInv, HandOK, LimitInv, LimitOK, Job
    <3> DEFINE text == Reserialized(Bumped(held[w]))
               T == JobsOf(held[w].req) \cap Spent
    <3>2. text \in T
      BY <3>1, SpentText, SameRequest, Constants
    <3>3. \E reply : PushToDlq(Bumped(held[w]), reply) /\ Applied(reply)
      BY <2>3, NoFaultReply DEF ExhaustPush
    <3>4. Bumped(held[w]) \in Payload /\ QueueTypeOK
      BY <3>1, BumpedType DEF Payload, TypeInv, TypeOK
    <3> HIDE DEF T
    <3>5. Occurs(T, deadLetter')
      BY <3>2, <3>3, <3>4, BuryPlaces
    <3>6. QED
      BY <2>1, <3>5 DEF T, Buried
  <2>4. QED
    BY <2>1, <2>2, <2>3
<1>4. ASSUME NEW r \in Requests, NEW w \in WorkerIds, held[w] \in JobsOf(r),
             ~(held[w].attempt < MaxAttempts)
      PROVE  Overdue(r)
  <2>1. held[w] \in Spent
    BY <1>4, SpentText DEF JobsOf
  <2>2. QED
    BY <1>4, <2>1 DEF AttemptsInv, Nowhere, Barred
<1>5. ASSUME NEW r \in Requests, status[r] = "failed" \/ "failed" \in ToSet(events[r])
      PROVE  call'[r] = "rejected" \/ Overdue(r) \/ Buried(r)'
  <2>1. call[r] = "rejected" => call'[r] = "rejected"
    BY DEF Next, vars, WorkerPanics, ChainStep, Boot, BootRecovers, BootNext, Crash,
       HandlerStep, HandlerDropped, InsertRequest, Simulate, RecordFailure,
       RecordEstimate, Enqueue, MarkQueued, Proceed, Handling, TypeInv, TypeOK
  <2>2. QED
    BY <1>1, <1>5, <2>1, BuriedStays DEF FailInv
<1>6. ASSUME NEW r \in Requests, status'[r] = "failed", status[r] # "failed"
      PROVE  call'[r] = "rejected" \/ Overdue(r) \/ Buried(r)'
  <2>1. ASSUME NEW w \in WorkerIds,
               \/ PoisonStatus(w) \/ Broadcast(w) \/ ConfirmStatus(w)
               \/ RevertStatus(w) \/ ExhaustStatus(w)
        PROVE  Overdue(r) \/ Buried(r)'
    <3>1. held[w] \in JobsOf(r) /\ (PoisonStatus(w) \/ ExhaustStatus(w))
      BY <1>6, <2>1, StatusOf
    <3>2. CASE PoisonStatus(w)
      <4>1. held[w].attempt >= MaxAttempts /\ held[w] # Corrupt /\ held[w].attempt \in Nat
        BY <3>1, <3>2, Constants DEF PoisonStatus, LimitInv, LimitOK, PoisonPc, JobsOf, Job
      <4>2. QED
        BY <1>4, <3>1, <4>1, Constants
    <3>3. CASE ExhaustStatus(w)
      <4>1. Buries(w) /\ held[w].req = r
        BY <3>1, <3>3 DEF ExhaustStatus, Buries, JobsOf
      <4>2. QED
        BY <1>2, <4>1, BuriedStays
    <3>4. QED
      BY <3>1, <3>2, <3>3
  <2>2. ASSUME NEW q \in Requests, \/ InsertRequest(q) \/ RecordFailure(q)
                                   \/ RecordEstimate(q) \/ MarkQueued(q)
        PROVE  call'[r] = "rejected"
    <3> USE DEF TypeInv, TypeOK, StoreTypeOK
    <3>1. CASE RecordFailure(q)
      <4>1. PICK reply : /\ Answer(reply) /\ UpdateExecutionStatus(q, "failed", reply)
                         /\ Proceed(q, reply, "rejected")
        BY <3>1 DEF RecordFailure
      <4>2. reply = "ok"
        BY <4>1, NoFaultReply
      <4>3. q = r
        BY <1>6, <4>1 DEF UpdateExecutionStatus
      <4>4. QED
        BY <4>1, <4>2, <4>3 DEF Proceed
    <3>2. CASE InsertRequest(q) \/ RecordEstimate(q) \/ MarkQueued(q)
      <4>1. FALSE
        BY <1>6, <3>2 DEF InsertRequest, RecordEstimate, MarkQueued,
           InsertExecutionRequest, UpdateExecutionStatus
      <4>2. QED
        BY <4>1
    <3>3. QED
      BY <2>2, <3>1, <3>2
  <2>3. QED
    BY <1>6, <2>1, <2>2, Writers
<1>7. ASSUME NEW r \in Requests, "failed" \in ToSet(events'[r]), "failed" \notin ToSet(events[r])
      PROVE  Overdue(r) \/ Buried(r)'
  <2>1. PICK w \in WorkerIds : FireWebhook(w)
    BY <1>7, Writers
  <2>2. pc[w] = "notify"
    BY <2>1 DEF FireWebhook
  <2>3. held[w] \in Job /\ held[w].req = r /\ verdict[w] = "failed"
    BY <1>7, <2>1, EventsOf
  <2>4. held[w] \in JobsOf(r)
    BY <2>3 DEF JobsOf
  <2>5. CASE held[w].attempt < MaxAttempts
    BY <1>2, <2>2, <2>3, <2>5, BuriedStays DEF Buries
  <2>6. CASE ~(held[w].attempt < MaxAttempts)
    BY <1>4, <2>4, <2>6
  <2>7. QED
    BY <2>5, <2>6
<1>8. QED
  BY <1>3, <1>5, <1>6, <1>7

\* As long as no command fails, a request that ran and is called failed is in
\* the dead-letter list with its attempts used up, whatever crashes, panics
\* and recoveries happen (worker/mod.rs:801-842).
THEOREM FailureIsDeadLetteredCorrect == Spec => []FailureIsDeadLettered
<1> DEFINE Inv == TypeInv /\ LimitInv /\ FreshInv /\ AttemptsInv /\ FailInv
<1>1. Init => Inv
  BY TypeInvInit, LimitInvInit, FreshInvInit, AttemptsInvInit, FailInvInit
<1>2. Inv /\ [Next]_vars => Inv'
  BY TypeInvStep, LimitInvStep, FreshInvStep, AttemptsInvStep, FailInvStep
<1>3. Inv => FailureIsDeadLettered
  <2> SUFFICES ASSUME Inv, faults = 0, NEW r \in Requests,
                      status[r] = "failed" \/ "failed" \in ToSet(events[r])
               PROVE  runs[r] = 0 \/ DeadLettered(r)
    BY DEF FailureIsDeadLettered
  <2>1. call[r] = "rejected" \/ Overdue(r) \/ Buried(r)
    BY DEF FailInv
  <2>2. CASE call[r] = "rejected"
    BY <2>2 DEF FreshInv, PreCall, Untouched
  <2>3. CASE Overdue(r)
    BY <2>3 DEF AttemptsInv
  <2>4. CASE Buried(r)
    <3>1. PICK i \in DOMAIN deadLetter : deadLetter[i] \in JobsOf(r) \cap Spent
      BY <2>4 DEF Buried, Occurs
    <3>2. i \in PositionsOf(r, deadLetter) /\ deadLetter[i].attempt >= MaxAttempts
      BY <3>1, PositionsAreJobs DEF TypeInv, TypeOK, QueueTypeOK, Spent
    <3>3. QED
      BY <3>2 DEF DeadLettered
  <2>5. QED
    BY <2>1, <2>2, <2>3, <2>4
<1> HIDE DEF Inv
<1>4. QED
  BY <1>1, <1>2, <1>3, PTL DEF Spec
-----------------------------------------------------------------------------
\* Some Redis list has a job of r.
InSomeList(r) ==
    Has(r, queue) \/ Has(r, deadLetter) \/ \E w \in WorkerIds : Has(r, processing[w])

LEMMA StoredIsListed ==
    ASSUME TypeInv, NEW r
    PROVE  Stored(r) <=> InSomeList(r)
<1>1. /\ queue \in Seq(Payload) /\ deadLetter \in Seq(Payload)
      /\ \A w \in WorkerIds : processing[w] \in Seq(Payload)
  BY DEF TypeInv, TypeOK, QueueTypeOK
<1>2. QED
  BY <1>1, PositionsAreJobs DEF Stored, InProcessing, InSomeList

\* The last job of r is taken out of the lists by the LREM of a worker that
\* holds one.
LEMMA LastCopyRemoved ==
    ASSUME TypeInv, LimitInv, [Next]_vars, NEW r \in Requests,
           InSomeList(r), ~InSomeList(r)'
    PROVE  \E w \in WorkerIds : /\ held[w] \in JobsOf(r)
                                /\ MoveToDlqRemove(w) \/ Ack(w) \/ ReEnqueueAck(w)
<1> USE DEF TypeInv, TypeOK
<1> DEFINE T == JobsOf(r)
<1>1. /\ Occurs(T, queue) \/ Occurs(T, deadLetter) \/ \E v \in WorkerIds : Occurs(T, processing[v])
      /\ ~Occurs(T, queue') /\ ~Occurs(T, deadLetter')
      /\ \A v \in WorkerIds : ~Occurs(T, processing'[v])
  BY DEF InSomeList, Has
<1>2. ASSUME NEW w \in WorkerIds, NEW reply, RecoverOne(w, reply)
      PROVE  FALSE
  <2> HIDE DEF T
  <2>1. /\ UNCHANGED deadLetter
        /\ \A v \in WorkerIds \ {w} : processing'[v] = processing[v]
        /\ Occurs(T, queue) => Occurs(T, queue')
        /\ Occurs(T, processing[w]) => Occurs(T, queue') \/ Occurs(T, processing'[w])
    BY <1>2, RecoverPlaces
  <2>2. QED
    BY <1>1, <2>1
<1>3. ASSUME NEW w \in WorkerIds, WorkerStep(w), ListStep(w)
      PROVE  held[w] \in T /\ (MoveToDlqRemove(w) \/ Ack(w) \/ ReEnqueueAck(w))
  <2>1. ~Dequeue(w)
    <3>1. SUFFICES ASSUME DequeueJob(w)
                   PROVE  FALSE
      BY DEF Dequeue
    <3> HIDE DEF T
    <3>2. /\ Occurs(T, queue) => Occurs(T, queue') \/ Occurs(T, processing'[w])
          /\ Occurs(T, processing[w]) => Occurs(T, processing'[w])
          /\ \A v \in WorkerIds \ {w} : processing'[v] = processing[v]
          /\ UNCHANGED deadLetter
      BY <3>1, DequeuePlaces
    <3>3. QED
      BY <1>1, <3>2
  <2>2. CASE MoveToDlqRemove(w) \/ Ack(w) \/ ReEnqueueAck(w)
    <3>1. /\ held[w] \in Payload
          /\ \E reply : RemoveFromProcessing(w, held[w], reply)
      BY <2>2 DEF MoveToDlqRemove, Ack, ReEnqueueAck, HandOK
    <3>2. Reserialized(held[w]) \in T
      <4> HIDE DEF T
      <4>1. /\ Occurs(T, processing[w]) =>
                  Reserialized(held[w]) \in T \/ Occurs(T, processing'[w])
            /\ \A v \in WorkerIds \ {w} : processing'[v] = processing[v]
            /\ UNCHANGED <<queue, deadLetter>>
        BY <3>1, RemovePlaces
      <4>2. QED
        BY <1>1, <4>1
    <3>3. QED
      BY <2>2, <3>1, <3>2, SameRequest, CorruptIsNobodys DEF Payload
  <2>3. ~ReEnqueuePush(w)
    <3>1. SUFFICES ASSUME ReEnqueuePush(w)
                   PROVE  FALSE
      OBVIOUS
    <3>2. held[w] \in Job /\ \E reply : EnqueueJob(Bumped(held[w]), reply)
      BY <3>1 DEF ReEnqueuePush, HandOK
    <3>3. UNCHANGED <<processing, deadLetter>> /\ (Occurs(T, queue) => Occurs(T, queue'))
      BY <3>2, EnqueuePlaces, BumpedType DEF Payload
    <3>4. QED
      BY <1>1, <3>3
  <2>4. ~MoveToDlqPush(w) /\ ~ExhaustPush(w)
    <3>1. SUFFICES ASSUME MoveToDlqPush(w) \/ ExhaustPush(w)
                   PROVE  FALSE
      OBVIOUS
    <3>2. UNCHANGED <<queue, processing>>
      BY <3>1 DEF MoveToDlqPush, ExhaustPush, PushToDlq
    <3> HIDE DEF T
    <3>3. Occurs(T, deadLetter) => Occurs(T, deadLetter')
      BY DeadLetterStep
    <3>4. QED
      BY <1>1, <3>2, <3>3
  <2>5. ~ \E reply \in Replies : RecoverOne(w, reply)
    BY <1>2
  <2>6. QED
    BY <1>3, <2>1, <2>2, <2>3, <2>4, <2>5 DEF ListStep
<1>4. ~Quiet
  BY <1>1 DEF Quiet, queueVars
<1>5. ~ \E q \in Requests : Enqueue(q)
  <2>1. SUFFICES ASSUME NEW q \in Requests, Enqueue(q)
                 PROVE  FALSE
    OBVIOUS
  <2>2. FirstJob(q) \in Payload /\ \E reply : EnqueueJob(FirstJob(q), reply)
    BY <2>1 DEF Enqueue, FirstJob, Payload, Job
  <2>3. UNCHANGED <<processing, deadLetter>> /\ (Occurs(T, queue) => Occurs(T, queue'))
    BY <2>2, EnqueuePlaces
  <2>4. QED
    BY <1>1, <2>3
<1>6. ~BootRecovers
  BY <1>2 DEF BootRecovers
<1>7. QED
  BY <1>3, <1>4, <1>5, <1>6, StepKinds

\* The last entry of a list of webhooks is one of them.
LEMMA LastIsMember ==
    ASSUME NEW S, NEW s \in Seq(S), s # <<>>
    PROVE  Last(s) \in ToSet(s)
<1>1. Len(s) \in Nat /\ DOMAIN s = 1..Len(s) /\ Len(s) # 0
  BY LenProperties, EmptySeq
<1>2. Last(s) = s[Len(s)] /\ Len(s) \in DOMAIN s
  BY <1>1 DEF Last
<1>3. QED
  BY <1>2 DEF ToSet

\* Unless the bundler's words are mistaken, and whatever else fails, the last
\* job of a request leaves Redis decided, in the hand of a worker, or after its
\* failure was announced (worker/mod.rs:74-105, 196-208, 786-796).
THEOREM LastCopyLeavesDecidedCorrect ==
    ASSUME ~EchoesRevert
    PROVE  Spec => LastCopyLeavesDecided
<1> DEFINE Inv == TypeInv /\ LimitInv /\ OutcomeInv /\ DecidedInv /\ AnnouncedInv /\ AttemptsInv
           Step == \A r \in Requests :
                      Stored(r) /\ ~Stored(r)' =>
                          \/ Decided(r)
                          \/ Hands(r)' # {}
                          \/ events[r] # <<>> /\ Last(events[r]) = "failed"
<1>1. Init => Inv
  BY TypeInvInit, LimitInvInit, OutcomeInvInit, AttemptsInvInit, KeptInvInit
     DEF KeptInv, DecidedInv, Init
<1>2. Inv /\ [Next]_vars => Inv'
  BY TypeInvStep, LimitInvStep, OutcomeInvStep, DecidedInvStep, AnnouncedInvStep,
     AttemptsInvStep
<1>3. Inv /\ Inv' /\ [Next]_vars => Step
  <2> SUFFICES ASSUME Inv, Inv', [Next]_vars, NEW r \in Requests, Stored(r), ~Stored(r)'
               PROVE  \/ Decided(r)
                      \/ Hands(r)' # {}
                      \/ events[r] # <<>> /\ Last(events[r]) = "failed"
    OBVIOUS
  <2>1. InSomeList(r)
    BY StoredIsListed
  <2>2. (TypeInv => (Stored(r) <=> InSomeList(r)))'
    <3>1. TypeInv => (Stored(r) <=> InSomeList(r))
      BY StoredIsListed
    <3>2. QED
      BY <3>1, StoredIsListed, PTL
  <2>3. PICK w \in WorkerIds : /\ held[w] \in JobsOf(r)
                               /\ MoveToDlqRemove(w) \/ Ack(w) \/ ReEnqueueAck(w)
    BY <2>1, <2>2, LastCopyRemoved
  <2>4. held[w] \in Job /\ held[w].req = r /\ held[w] # Corrupt
    BY <2>3, Constants DEF JobsOf
  <2>5. CASE Ack(w)
    BY <2>4, <2>5 DEF Ack, DecidedInv
  <2>6. CASE ReEnqueueAck(w) \/ (MoveToDlqRemove(w) /\ pc'[w] = "dlq_push")
    <3>1. held'[w] = held[w]
          /\ pc'[w] \in {"requeue_push", "exhaust_push", "dlq_push"}
      BY <2>6 DEF ReEnqueueAck, MoveToDlqRemove, Goto, Finish, TypeInv, TypeOK, WorkerTypeOK
    <3>2. w \in Hands(r)'
      BY <2>4, <3>1 DEF Hands
    <3>3. QED
      BY <3>2
  <2>7. CASE MoveToDlqRemove(w)
    <3>1. pc[w] = "dlq_rem" /\ events[r] # <<>> /\ held[w].attempt >= MaxAttempts
      BY <2>4, <2>7 DEF MoveToDlqRemove, AnnouncedInv, AnnouncedPc, DlqPc, LimitInv,
         LimitOK, PoisonPc
    <3>2. held[w] \in JobsOf(r) \cap Spent
      BY <2>3, <2>4, <3>1 DEF Spent
    <3>3. Overdue(r)
      BY <3>2 DEF AttemptsInv, Nowhere, Barred
    <3>4. ToSet(events[r]) \subseteq {"failed"} /\ events[r] \in Seq(Terminal)
      BY <3>3 DEF AttemptsInv, TypeInv, TypeOK, WorkerTypeOK
    <3>5. QED
      BY <3>1, <3>4, LastIsMember
  <2>8. QED
    BY <2>3, <2>5, <2>6, <2>7
<1> HIDE DEF Inv, Step
<1>4. Inv /\ Inv' /\ [Next]_vars => [Step]_vars
  BY <1>3
<1>5. Spec => [][Step]_vars
  BY <1>1, <1>2, <1>4, PTL DEF Spec
<1>6. QED
  BY <1>5 DEF Step, LastCopyLeavesDecided
-----------------------------------------------------------------------------
\* Workers about to submit an operation of r, workers that watch a pending
\* one, and whether one is pending that nobody watches: each of them is a run
\* of r that may still take effect.
Runners(r) == {w \in WorkerIds : pc[w] = "execute" /\ held[w] \in JobsOf(r)}

Watchers(r) == {w \in WorkerIds : watched[w] = Pending(r)}

Loose(r) == IF r \in orphaned THEN 1 ELSE 0

Spending(r) == Cardinality(Runners(r)) + Cardinality(Watchers(r)) + Loose(r)

\* A worker knows of a success of r that it has not told yet.
Knows(w, r) ==
    \/ watched[w] = [req |-> r, state |-> "succeeded"]
    \/ /\ held[w] \in JobsOf(r)
       /\ \/ pc[w] \in {"confirm_status", "confirm_row"}
          \/ pc[w] = "notify" /\ verdict[w] = "confirmed"

Knowers(r) == {w \in WorkerIds : Knows(w, r)}

Told(r) == {i \in DOMAIN events[r] : events[r][i] = "confirmed"}

\* Counting sets of workers.
LEMMA CountWorkers ==
    ASSUME NEW S \in SUBSET WorkerIds, NEW T \in SUBSET WorkerIds
    PROVE  /\ Cardinality(S) \in Nat /\ Cardinality(T) \in Nat
           /\ T \subseteq S => Cardinality(T) <= Cardinality(S)
           /\ \A w \in S : T \subseteq S \ {w} => Cardinality(T) + 1 <= Cardinality(S)
           /\ \A w : T \subseteq S \cup {w} => Cardinality(T) <= Cardinality(S) + 1
           /\ \A w : T \subseteq {w} => Cardinality(T) <= 1
           /\ T = {} => Cardinality(T) = 0
<1>1. IsFiniteSet(WorkerIds)
  <2>1. 0 \in Int /\ NumWorkers - 1 \in Int
    BY Constants
  <2>2. QED
    BY <2>1, FS_Interval DEF WorkerIds
<1>2. IsFiniteSet(S) /\ IsFiniteSet(T)
  BY <1>1, FS_Subset
<1>3. Cardinality(S) \in Nat /\ Cardinality(T) \in Nat
  BY <1>2, FS_CardinalityType
<1>4. T \subseteq S => Cardinality(T) <= Cardinality(S)
  BY <1>2, FS_Subset
<1>5. ASSUME NEW w \in S, T \subseteq S \ {w}
      PROVE  Cardinality(T) + 1 <= Cardinality(S)
  <2>1. IsFiniteSet(S \ {w}) /\ Cardinality(S \ {w}) = Cardinality(S) - 1
    BY <1>2, FS_RemoveElement
  <2>2. Cardinality(T) <= Cardinality(S \ {w})
    BY <1>5, <2>1, FS_Subset
  <2>3. QED
    BY <1>3, <2>1, <2>2
<1>6. ASSUME NEW w, T \subseteq S \cup {w}
      PROVE  Cardinality(T) <= Cardinality(S) + 1
  <2>1. IsFiniteSet(S \cup {w}) /\ Cardinality(S \cup {w}) <= Cardinality(S) + 1
    <3>1. /\ IsFiniteSet(S \cup {w})
          /\ Cardinality(S \cup {w}) = IF w \in S THEN Cardinality(S) ELSE Cardinality(S) + 1
      BY <1>2, FS_AddElement
    <3>2. QED
      BY <1>3, <3>1
  <2>2. Cardinality(T) <= Cardinality(S \cup {w})
    BY <1>6, <2>1, FS_Subset
  <2>3. Cardinality(S \cup {w}) \in Nat
    BY <2>1, FS_CardinalityType
  <2>4. QED
    BY <1>3, <2>1, <2>2, <2>3
<1>7. ASSUME NEW w, T \subseteq {w}
      PROVE  Cardinality(T) <= 1
  <2>1. IsFiniteSet({w}) /\ Cardinality({w}) = 1
    BY FS_Singleton
  <2>2. QED
    BY <1>7, <2>1, FS_Subset
<1>8. T = {} => Cardinality(T) = 0
  BY FS_EmptySet
<1>9. QED
  BY <1>3, <1>4, <1>5, <1>6, <1>7, <1>8

LEMMA RunnersCount ==
    ASSUME NEW r
    PROVE  /\ Runners(r) \in SUBSET WorkerIds /\ Runners(r)' \in SUBSET WorkerIds
           /\ Watchers(r) \in SUBSET WorkerIds /\ Watchers(r)' \in SUBSET WorkerIds
           /\ Knowers(r) \in SUBSET WorkerIds /\ Knowers(r)' \in SUBSET WorkerIds
           /\ Loose(r) \in {0, 1} /\ Loose(r)' \in {0, 1}
  BY DEF Runners, Watchers, Knowers, WorkerIds, Loose

\* What stays includable: a worker that gives up leaves what it watched.
LEMMA AbandonCounts ==
    ASSUME TypeInv, NEW gone \in SUBSET WorkerIds, Abandon(gone), NEW r \in Requests
    PROVE  Cardinality(Watchers(r)') + Loose(r)' <= Cardinality(Watchers(r)) + Loose(r)
<1>1. ChainTypeOK
  BY DEF TypeInv, TypeOK
<1>2. Watchers(r)' \subseteq Watchers(r) \ gone
  BY <1>1 DEF Watchers, Abandon, NoOp, Pending, WorkerIds
<1>3. CASE r \in orphaned' /\ r \notin orphaned
  <2>1. PICK w \in gone : watched[w].state = "pending" /\ watched[w].req = r
    BY <1>3 DEF Abandon
  <2>2. watched[w] = Pending(r)
    BY <1>1, <2>1 DEF ChainTypeOK, NoOp, Pending
  <2>3. w \in Watchers(r) /\ Watchers(r)' \subseteq Watchers(r) \ {w}
    BY <1>2, <2>1, <2>2 DEF Watchers
  <2>4. QED
    BY <1>3, <2>3, RunnersCount, CountWorkers DEF Loose
<1>4. CASE r \in orphaned' => r \in orphaned
  <2>1. r \in orphaned' <=> r \in orphaned
    BY <1>4 DEF Abandon
  <2>2. Cardinality(Watchers(r)') <= Cardinality(Watchers(r))
    BY <1>2, RunnersCount, CountWorkers
  <2>3. QED
    BY <2>1, <2>2, RunnersCount, CountWorkers DEF Loose
<1>5. QED
  BY <1>3, <1>4

\* An accepted operation replaces the pending ones of its request: one is left.
LEMMA SubmitCounts ==
    ASSUME TypeInv, NEW w \in WorkerIds, SubmitUserOp(w), NEW r \in Requests
    PROVE  Spending(r)' <= Spending(r)
<1> USE DEF TypeInv, TypeOK, WorkerTypeOK
<1>1. /\ held[w] \in Job /\ pc[w] = "execute" /\ UNCHANGED held
      /\ pc'[w] # "execute" /\ \A v \in WorkerIds \ {w} : pc'[v] = pc[v]
  BY DEF SubmitUserOp, HandOK, Goto
<1>2. Runners(r)' \subseteq Runners(r) \ {w}
  BY <1>1 DEF Runners, WorkerIds
<1>3. PICK submitters \in SUBSET {w} : Submit(held[w].req, submitters)
  BY DEF SubmitUserOp
<1>4. CASE held[w].req = r
  <2>1. w \in Runners(r)
    BY <1>1, <1>4 DEF Runners, JobsOf
  <2>2. Cardinality(Runners(r)') + 1 <= Cardinality(Runners(r))
    BY <1>2, <2>1, RunnersCount, CountWorkers
  <2>3. CASE submitters = {}
    <3>1. Watchers(r)' = {}
      BY <1>3, <1>4, <2>3 DEF Watchers, Submit, Pending, WorkerIds
    <3>2. Cardinality(Watchers(r)') = 0
      BY <3>1, RunnersCount, CountWorkers
    <3> DEFINE a == Cardinality(Runners(r))
               b == Cardinality(Watchers(r))
               aa == Cardinality(Runners(r)')
    <3>3. a \in Nat /\ b \in Nat /\ aa \in Nat /\ aa + 1 <= a
      BY <2>2, RunnersCount, CountWorkers
    <3>4. /\ Spending(r)' = aa + 0 + Loose(r)' /\ Spending(r) = a + b + Loose(r)
          /\ Loose(r) \in {0, 1} /\ Loose(r)' \in {0, 1}
      BY <3>2, RunnersCount DEF Spending
    <3> HIDE DEF a, b, aa
    <3>5. QED
      BY <3>3, <3>4
  <2>4. CASE submitters = {w}
    <3>1. Watchers(r)' \subseteq {w} /\ r \notin orphaned'
      BY <1>3, <1>4, <2>4 DEF Watchers, Submit, Pending, WorkerIds
    <3> DEFINE a == Cardinality(Runners(r))
               b == Cardinality(Watchers(r))
               aa == Cardinality(Runners(r)')
               bb == Cardinality(Watchers(r)')
    <3>2. a \in Nat /\ b \in Nat /\ aa \in Nat /\ bb \in Nat /\ aa + 1 <= a /\ bb <= 1
      BY <2>2, <3>1, RunnersCount, CountWorkers
    <3>3. /\ Spending(r)' = aa + bb + Loose(r)' /\ Spending(r) = a + b + Loose(r)
          /\ Loose(r) \in {0, 1} /\ Loose(r)' = 0
      BY <3>1, RunnersCount DEF Spending, Loose
    <3> HIDE DEF a, b, aa, bb
    <3>4. QED
      BY <3>2, <3>3
  <2>5. QED
    BY <2>3, <2>4
<1>5. CASE held[w].req # r
  <2>1. Watchers(r)' \subseteq Watchers(r) /\ (r \in orphaned' <=> r \in orphaned)
    BY <1>3, <1>5 DEF Watchers, Submit, Pending, WorkerIds
  <2>2. Loose(r)' = Loose(r) /\ Loose(r) \in Nat
    BY <2>1 DEF Loose
  <2>3. /\ Cardinality(Watchers(r)') <= Cardinality(Watchers(r))
        /\ Cardinality(Runners(r)') <= Cardinality(Runners(r))
    BY <1>2, <2>1, RunnersCount, CountWorkers
  <2> DEFINE a == Cardinality(Runners(r))
             b == Cardinality(Watchers(r))
             aa == Cardinality(Runners(r)')
             bb == Cardinality(Watchers(r)')
  <2>4. a \in Nat /\ b \in Nat /\ aa \in Nat /\ bb \in Nat /\ aa <= a /\ bb <= b
    BY <2>3, RunnersCount, CountWorkers
  <2>5. Spending(r)' = aa + bb + Loose(r)' /\ Spending(r) = a + b + Loose(r)
    BY DEF Spending
  <2> HIDE DEF a, b, aa, bb
  <2>6. QED
    BY <2>2, <2>4, <2>5
<1>6. QED
  BY <1>4, <1>5

\* A block turns one pending operation into one effect.
LEMMA ChainCounts ==
    ASSUME TypeInv, ChainStep, NEW r \in Requests
    PROVE  /\ executed'[r] + undone'[r] + Spending(r)' <= executed[r] + undone[r] + Spending(r)
           /\ UNCHANGED <<pc, held, verdict, runs, events>>
<1> USE DEF TypeInv, TypeOK, ChainTypeOK
<1>1. UNCHANGED <<pc, held, verdict, runs, events>>
  BY DEF ChainStep, workerVars
<1>2. Runners(r)' = Runners(r)
  BY <1>1 DEF Runners, WorkerIds
<1>3. /\ executed[r] \in Nat /\ undone[r] \in Nat /\ Loose(r) \in Nat
      /\ Cardinality(Runners(r)) \in Nat /\ Cardinality(Watchers(r)) \in Nat
      /\ Cardinality(Watchers(r)') \in Nat /\ Loose(r)' \in Nat
  BY RunnersCount, CountWorkers DEF Loose
<1>4. ASSUME NEW q \in Requests, NEW success \in BOOLEAN, Include(q, success)
      PROVE  /\ executed'[r] \in Nat /\ undone'[r] \in Nat
             /\ executed'[r] + undone'[r] =
                   executed[r] + undone[r] + (IF q = r THEN 1 ELSE 0)
  <2>1. CASE success
    BY <1>3, <1>4, <2>1 DEF Include
  <2>2. CASE ~success
    BY <1>3, <1>4, <2>2 DEF Include
  <2>3. QED
    BY <2>1, <2>2
<1>5. ASSUME NEW w \in WorkerIds, NEW success \in BOOLEAN, IncludeWatched(w, success)
      PROVE  executed'[r] + undone'[r] + Spending(r)' <= executed[r] + undone[r] + Spending(r)
  <2>1. PICK q \in Requests : watched[w] = Pending(q)
    BY <1>5 DEF IncludeWatched, NoOp, Pending
  <2>2. Include(q, success) /\ Loose(r)' = Loose(r)
    BY <1>5, <2>1 DEF IncludeWatched, Pending, Loose
  <2>3. Watchers(r)' \subseteq Watchers(r) \ {w}
    <3>1. watched'[w] # Pending(r) /\ \A v \in WorkerIds \ {w} : watched'[v] = watched[v]
      BY <1>5, <2>1 DEF IncludeWatched, Pending
    <3>2. QED
      BY <3>1 DEF Watchers, WorkerIds
  <2>4. CASE q = r
    <3>1. w \in Watchers(r)
      BY <2>1, <2>4 DEF Watchers
    <3>2. Cardinality(Watchers(r)') + 1 <= Cardinality(Watchers(r))
      BY <2>3, <3>1, RunnersCount, CountWorkers
    <3>3. QED
      BY <1>2, <1>3, <1>4, <2>2, <2>4, <3>2 DEF Spending
  <2>5. CASE q # r
    <3>1. Cardinality(Watchers(r)') <= Cardinality(Watchers(r))
      BY <2>3, RunnersCount, CountWorkers
    <3>2. QED
      BY <1>2, <1>3, <1>4, <2>2, <2>5, <3>1 DEF Spending
  <2>6. QED
    BY <2>4, <2>5
<1>6. ASSUME NEW q \in Requests, NEW success \in BOOLEAN, IncludeOrphan(q, success)
      PROVE  executed'[r] + undone'[r] + Spending(r)' <= executed[r] + undone[r] + Spending(r)
  <2>1. Include(q, success) /\ Watchers(r)' = Watchers(r)
    BY <1>6 DEF IncludeOrphan, Watchers, WorkerIds
  <2>2. Loose(r)' + (IF q = r THEN 1 ELSE 0) = Loose(r)
    BY <1>6 DEF IncludeOrphan, Loose
  <2>3. QED
    BY <1>2, <1>3, <1>4, <2>1, <2>2 DEF Spending
<1>7. ASSUME NEW q \in Requests, ExpireOrphan(q)
      PROVE  executed'[r] + undone'[r] + Spending(r)' <= executed[r] + undone[r] + Spending(r)
  <2>1. UNCHANGED <<executed, undone>> /\ Watchers(r)' = Watchers(r)
    BY <1>7 DEF ExpireOrphan, Watchers, WorkerIds
  <2>2. Loose(r)' <= Loose(r)
    BY <1>7 DEF ExpireOrphan, Loose
  <2>3. QED
    BY <1>2, <1>3, <2>1, <2>2 DEF Spending
<1>8. QED
  BY <1>1, <1>5, <1>6, <1>7 DEF ChainStep
\* No step lets a run take effect twice: what is spent and what may still be
\* spent grow together with the runs.
LEMMA SpendingStep ==
    ASSUME TypeInv, [Next]_vars, NEW r \in Requests
    PROVE  executed'[r] + undone'[r] + Spending(r)' + runs[r] <=
              executed[r] + undone[r] + Spending(r) + runs'[r]
<1>1. /\ executed[r] \in Nat /\ undone[r] \in Nat /\ runs[r] \in Nat
      /\ executed'[r] \in Nat /\ undone'[r] \in Nat /\ runs'[r] \in Nat
      /\ Cardinality(Runners(r)) \in Nat /\ Cardinality(Runners(r)') \in Nat
      /\ Cardinality(Watchers(r)) \in Nat /\ Cardinality(Watchers(r)') \in Nat
      /\ Loose(r) \in Nat /\ Loose(r)' \in Nat
  <2>1. runs[r] \in Nat /\ runs'[r] \in Nat
    BY TypeInvStep DEF TypeInv, TypeOK, WorkerTypeOK
  <2>2. /\ Cardinality(Runners(r)) \in Nat /\ Cardinality(Runners(r)') \in Nat
        /\ Cardinality(Watchers(r)) \in Nat /\ Cardinality(Watchers(r)') \in Nat
    BY RunnersCount, CountWorkers
  <2>3. Loose(r) \in Nat /\ Loose(r)' \in Nat
    BY DEF Loose
  <2>4. /\ executed[r] \in Nat /\ undone[r] \in Nat
        /\ executed'[r] \in Nat /\ undone'[r] \in Nat
    BY EffectsGrow
  <2>5. QED
    BY <2>1, <2>2, <2>3, <2>4
<1>2. /\ Spending(r) \in Nat /\ Spending(r)' \in Nat
      /\ Spending(r) = Cardinality(Runners(r)) + Cardinality(Watchers(r)) + Loose(r)
      /\ Spending(r)' = Cardinality(Runners(r)') + Cardinality(Watchers(r)') + Loose(r)'
  BY <1>1 DEF Spending
<1>3. ASSUME Spending(r)' <= Spending(r), UNCHANGED <<executed, undone, runs>>
      PROVE  executed'[r] + undone'[r] + Spending(r)' + runs[r] <=
                executed[r] + undone[r] + Spending(r) + runs'[r]
  BY <1>1, <1>2, <1>3
<1>4. ASSUME Runners(r)' \subseteq Runners(r), UNCHANGED chainVars
      PROVE  Spending(r)' <= Spending(r)
  <2>1. Cardinality(Runners(r)') <= Cardinality(Runners(r))
    BY <1>4, RunnersCount, CountWorkers
  <2>2. Watchers(r)' = Watchers(r) /\ Loose(r)' = Loose(r)
    BY <1>4 DEF chainVars, Watchers, Loose, WorkerIds
  <2>3. QED
    BY <1>1, <1>2, <2>1, <2>2
<1>5. ASSUME Runners(r)' \subseteq Runners(r), NEW gone \in SUBSET WorkerIds, Abandon(gone)
      PROVE  Spending(r)' <= Spending(r)
  <2>1. Cardinality(Runners(r)') <= Cardinality(Runners(r))
    BY <1>5, RunnersCount, CountWorkers
  <2>2. Cardinality(Watchers(r)') + Loose(r)' <= Cardinality(Watchers(r)) + Loose(r)
    BY <1>5, AbandonCounts
  <2>3. QED
    BY <1>1, <1>2, <2>1, <2>2
<1>6. CASE ChainStep
  <2>1. /\ executed'[r] + undone'[r] + Spending(r)' <= executed[r] + undone[r] + Spending(r)
        /\ UNCHANGED runs
    BY <1>6, ChainCounts
  <2>2. QED
    BY <1>1, <1>2, <2>1
<1>7. ASSUME NEW w \in WorkerIds, Broadcast(w)
      PROVE  executed'[r] + undone'[r] + Spending(r)' + runs[r] <=
                executed[r] + undone[r] + Spending(r) + runs'[r]
  <2>1. /\ held[w] \in Job /\ UNCHANGED <<held, chainVars>> /\ pc'[w] = "execute"
        /\ \A v \in WorkerIds \ {w} : pc'[v] = pc[v]
        /\ runs'[r] = IF held[w].req = r THEN runs[r] + 1 ELSE runs[r]
    BY <1>7 DEF Broadcast, HandOK, Goto, TypeInv, TypeOK, WorkerTypeOK
  <2>2. UNCHANGED <<executed, undone>> /\ Watchers(r)' = Watchers(r) /\ Loose(r)' = Loose(r)
    BY <2>1 DEF chainVars, Watchers, Loose, WorkerIds
  <2>3. CASE held[w].req = r
    <3>1. Runners(r)' \subseteq Runners(r) \cup {w}
      BY <2>1 DEF Runners, WorkerIds
    <3>2. Cardinality(Runners(r)') <= Cardinality(Runners(r)) + 1
      BY <3>1, RunnersCount, CountWorkers
    <3>3. runs'[r] = runs[r] + 1
      BY <2>1, <2>3
    <3>4. QED
      BY <1>1, <1>2, <2>2, <3>2, <3>3
  <2>4. CASE held[w].req # r
    <3>1. Runners(r)' \subseteq Runners(r) /\ runs'[r] = runs[r]
      BY <2>1, <2>4 DEF Runners, WorkerIds, JobsOf
    <3>2. Cardinality(Runners(r)') <= Cardinality(Runners(r))
      BY <3>1, RunnersCount, CountWorkers
    <3>3. QED
      BY <1>1, <1>2, <2>2, <3>1, <3>2
  <2>5. QED
    BY <2>3, <2>4
<1>8. ASSUME NEW w \in WorkerIds, WorkerStep(w), ~Broadcast(w)
      PROVE  executed'[r] + undone'[r] + Spending(r)' + runs[r] <=
                executed[r] + undone[r] + Spending(r) + runs'[r]
  <2>1. UNCHANGED <<executed, undone, runs>>
    BY <1>8 DEF WorkerStep, Dequeue, PoisonStatus, MoveToDlqRemove, MoveToDlqPush,
         ExecuteFails, ExecuteFailsAsRevert, SubmitUserOp, Submit, ReceiptConfirmed,
         ReceiptReverted, ReceiptTimeout, ExecutionPanics, ConfirmStatus, ConfirmRow,
         RevertStatus, FireWebhook, Ack, ReEnqueueAck, ReEnqueuePush, ExhaustPush,
         ExhaustStatus, SupervisorRecovers, chainVars, Abandon
  <2>2. CASE SubmitUserOp(w)
    BY <1>3, <2>1, <2>2, SubmitCounts
  <2>3. CASE ~SubmitUserOp(w)
    <3>1. Runners(r)' \subseteq Runners(r)
      <4>1. pc'[w] = "execute" => pc[w] = "execute" /\ held'[w] = held[w]
        <5>1. CASE Dequeue(w)
          BY <5>1, DequeueHand DEF Dequeue
        <5>2. CASE ~Dequeue(w)
          BY <1>8, <5>2 DEF WorkerStep, PoisonStatus, MoveToDlqRemove, MoveToDlqPush,
           ExecuteFails, ExecuteFailsAsRevert, SubmitUserOp, ReceiptConfirmed,
           ReceiptReverted, ReceiptTimeout, ExecutionPanics, ConfirmStatus, ConfirmRow,
           RevertStatus, FireWebhook, Ack, ReEnqueueAck, ReEnqueuePush, ExhaustPush,
           ExhaustStatus, SupervisorRecovers, Goto, Finish, TypeInv, TypeOK, WorkerTypeOK
        <5>3. QED
          BY <5>1, <5>2
      <4>2. \A v \in WorkerIds \ {w} : pc'[v] = pc[v] /\ held'[v] = held[v]
        BY <1>8, WorkerFrame
      <4>3. QED
        BY <4>1, <4>2 DEF Runners, WorkerIds
    <3>2. UNCHANGED chainVars \/ Abandon({w})
      BY <1>8, <2>3 DEF WorkerStep, Dequeue, PoisonStatus, MoveToDlqRemove, MoveToDlqPush,
           ExecuteFails, ExecuteFailsAsRevert, ReceiptConfirmed, ReceiptReverted,
           ReceiptTimeout, ExecutionPanics, ConfirmStatus, ConfirmRow, RevertStatus,
           FireWebhook, Ack, ReEnqueueAck, ReEnqueuePush, ExhaustPush, ExhaustStatus,
           SupervisorRecovers
    <3>3. QED
      BY <1>3, <1>4, <1>5, <2>1, <3>1, <3>2
  <2>4. QED
    BY <2>2, <2>3
<1>9. CASE Crash
  <2>1. Runners(r)' = {} /\ Abandon(WorkerIds) /\ UNCHANGED <<runs, executed, undone>>
    BY <1>9 DEF Crash, Runners, Abandon, WorkerIds
  <2>2. QED
    BY <1>3, <1>5, <2>1
<1>10. CASE \/ UNCHANGED vars \/ Boot \/ BootRecovers \/ BootNext
            \/ \E w \in WorkerIds : WorkerPanics(w)
            \/ \E q \in Requests : HandlerStep(q) \/ HandlerDropped(q)
  <2>1. UNCHANGED <<runs, chainVars>>
    BY <1>10 DEF vars, Boot, BootRecovers, BootNext, WorkerPanics, LoopPanics,
         workerVars, HandlerStep, HandlerDropped, InsertRequest, Simulate, RecordFailure,
         RecordEstimate, Enqueue, MarkQueued
  <2>2. \A v \in WorkerIds : pc'[v] = "execute" => pc[v] = "execute" /\ held'[v] = held[v]
    BY <1>10 DEF vars, Boot, BootRecovers, BootNext, WorkerPanics, LoopPanics,
         workerVars, HandlerStep, HandlerDropped, InsertRequest, Simulate, RecordFailure,
         RecordEstimate, Enqueue, MarkQueued, TypeInv, TypeOK, WorkerTypeOK
  <2>3. Runners(r)' \subseteq Runners(r)
    BY <2>2 DEF Runners, WorkerIds
  <2>4. UNCHANGED <<executed, undone>>
    BY <2>1 DEF chainVars
  <2>5. QED
    BY <1>3, <1>4, <2>1, <2>3, <2>4
<1>11. QED
  BY <1>6, <1>7, <1>8, <1>9, <1>10 DEF Next
-----------------------------------------------------------------------------
\* Only the worker that waits for a receipt watches an operation.
WatchInv == \A w \in WorkerIds : pc[w] # "await_receipt" => watched[w] = NoOp

LEMMA WatchInvStep == TypeInv /\ LimitInv /\ WatchInv /\ [Next]_vars => WatchInv'
<1> SUFFICES ASSUME TypeInv, LimitInv, WatchInv, [Next]_vars
             PROVE  WatchInv'
  OBVIOUS
<1> USE DEF TypeInv, TypeOK, WorkerTypeOK, ChainTypeOK
<1>1. ASSUME NEW w \in WorkerIds, WorkerStep(w), ~SubmitUserOp(w)
      PROVE  WatchInv'
  <2>1. /\ Abandon({w}) /\ pc'[w] # "await_receipt"
        \/ /\ UNCHANGED chainVars
           /\ pc'[w] # "await_receipt" => pc[w] # "await_receipt"
    BY <1>1 DEF WorkerStep, Dequeue, PoisonStatus, MoveToDlqRemove, MoveToDlqPush, Broadcast,
         ExecuteFails, ExecuteFailsAsRevert, ReceiptConfirmed, ReceiptReverted,
         ReceiptTimeout, ExecutionPanics, ConfirmStatus, ConfirmRow, RevertStatus,
         FireWebhook, Ack, ReEnqueueAck, ReEnqueuePush, ExhaustPush, ExhaustStatus,
         SupervisorRecovers, Goto, RunPc
  <2>2. \A v \in WorkerIds \ {w} : pc'[v] = pc[v]
    BY <1>1, WorkerFrame
  <2>3. QED
    BY <2>1, <2>2 DEF WatchInv, Abandon, chainVars, WorkerIds
<1>2. ASSUME NEW w \in WorkerIds, SubmitUserOp(w)
      PROVE  WatchInv'
  <2>1. \A v \in WorkerIds \ {w} : pc'[v] = pc[v]
    BY <1>2 DEF SubmitUserOp, Goto
  <2>2. watched[w] = NoOp
    BY <1>2 DEF SubmitUserOp, WatchInv
  <2>3. \/ pc'[w] = "await_receipt" /\ Submit(held[w].req, {w})
        \/ Submit(held[w].req, {})
    BY <1>2 DEF SubmitUserOp, Goto
  <2>4. \A v \in WorkerIds : watched[v] = NoOp =>
           watched'[v] = NoOp \/ (v = w /\ pc'[w] = "await_receipt")
    BY <2>3 DEF Submit, Pending, NoOp
  <2>5. QED
    BY <2>1, <2>2, <2>4 DEF WatchInv, WorkerIds
<1>3. CASE ChainStep
  <2>1. UNCHANGED pc
    BY <1>3 DEF ChainStep, workerVars
  <2>2. \A v \in WorkerIds : watched[v] = NoOp => watched'[v] = NoOp
    BY <1>3 DEF ChainStep, IncludeWatched, IncludeOrphan, ExpireOrphan, NoOp
  <2>3. QED
    BY <2>1, <2>2 DEF WatchInv, WorkerIds
<1>4. CASE Crash
  BY <1>4 DEF Crash, Abandon, WatchInv, WorkerIds
<1>5. ASSUME NEW w \in WorkerIds, WorkerPanics(w)
      PROVE  WatchInv'
  BY <1>5 DEF WorkerPanics, LoopPanics, chainVars, WatchInv, WorkerIds, RunPc
<1>6. CASE BootNext
  BY <1>6 DEF BootNext, LimitInv, chainVars, WatchInv, WorkerIds
<1>7. CASE \/ UNCHANGED vars \/ Boot \/ BootRecovers
           \/ \E q \in Requests : HandlerStep(q) \/ HandlerDropped(q)
  <2>1. UNCHANGED <<pc, watched>>
    BY <1>7 DEF vars, Boot, BootRecovers, chainVars,
         workerVars, HandlerStep, HandlerDropped, InsertRequest, Simulate, RecordFailure,
         RecordEstimate, Enqueue, MarkQueued
  <2>2. QED
    BY <2>1 DEF WatchInv, WorkerIds
<1>8. QED
  BY <1>1, <1>2, <1>3, <1>4, <1>5, <1>6, <1>7 DEF Next

\* Who learns of a success: the worker whose operation a block includes.
LEMMA KnowersStep ==
    ASSUME TypeInv, LimitInv, OutcomeInv, WatchInv, [Next]_vars, NEW r \in Requests
    PROVE  \/ Knowers(r)' \subseteq Knowers(r)
           \/ \E w \in WorkerIds : /\ IncludeWatched(w, TRUE) /\ ChainStep
                                   /\ watched[w].req = r
                                   /\ Knowers(r)' \subseteq Knowers(r) \cup {w}
<1> USE DEF TypeInv, TypeOK, WorkerTypeOK, ChainTypeOK
<1>1. ASSUME NEW w \in WorkerIds, WorkerStep(w), Knows(w, r)'
      PROVE  Knows(w, r)
  <2>1. CASE ReceiptConfirmed(w)
    <3>1. /\ held'[w] = held[w] /\ (held'[w] \in JobsOf(r) \/ watched'[w] # NoOp)
          /\ pc[w] = "await_receipt" /\ watched[w].state = "succeeded" /\ watched'[w] = NoOp
      BY <1>1, <2>1 DEF ReceiptConfirmed, Goto, Abandon, Knows, NoOp
    <3>2. watched[w] # NoOp /\ watched[w].req = held[w].req
      BY <3>1 DEF OutcomeInv, KnownOutcome
    <3>3. watched[w] \in [req : Requests, state : OpState] /\ watched[w].req = r
      BY <3>1, <3>2 DEF JobsOf
    <3>4. watched[w] = [req |-> r, state |-> "succeeded"]
      BY <3>1, <3>3
    <3>5. QED
      BY <3>4 DEF Knows
  <2>2. CASE ConfirmStatus(w) \/ ConfirmRow(w)
    <3>1. held'[w] = held[w] /\ pc[w] \in {"confirm_status", "confirm_row"}
          /\ UNCHANGED watched
      BY <2>2 DEF ConfirmStatus, ConfirmRow, Goto, chainVars
    <3>2. QED
      BY <1>1, <3>1 DEF Knows
  <2>3. CASE ~(ReceiptConfirmed(w) \/ ConfirmStatus(w) \/ ConfirmRow(w))
    <3>1. watched'[w] = [req |-> r, state |-> "succeeded"]
            => watched[w] = [req |-> r, state |-> "succeeded"]
      <4>1. CASE SubmitUserOp(w)
        <5>1. PICK submitters : Submit(held[w].req, submitters)
          BY <4>1 DEF SubmitUserOp
        <5>2. QED
          BY <5>1 DEF Submit, Pending
      <4>2. CASE Abandon({w})
        BY <4>2 DEF Abandon, NoOp
      <4>3. SubmitUserOp(w) \/ Abandon({w}) \/ UNCHANGED watched
        BY <1>1 DEF WorkerStep, Dequeue, PoisonStatus, MoveToDlqRemove, MoveToDlqPush,
           Broadcast, ExecuteFails, ExecuteFailsAsRevert, ReceiptConfirmed, ReceiptReverted,
           ReceiptTimeout, ExecutionPanics, ConfirmStatus, ConfirmRow, RevertStatus,
           FireWebhook, Ack, ReEnqueueAck, ReEnqueuePush, ExhaustPush, ExhaustStatus,
           SupervisorRecovers, chainVars
      <4>4. QED
        BY <4>1, <4>2, <4>3
    <3>2. ~(\/ pc'[w] \in {"confirm_status", "confirm_row"}
            \/ pc'[w] = "notify" /\ verdict'[w] = "confirmed")
      <4>1. CASE Dequeue(w)
        BY <4>1, DequeueHand DEF Dequeue
      <4>2. CASE ~Dequeue(w)
        BY <1>1, <2>3, <4>2 DEF WorkerStep, PoisonStatus, MoveToDlqRemove, MoveToDlqPush,
           Broadcast, ExecuteFails, ExecuteFailsAsRevert, SubmitUserOp, ReceiptReverted,
           ReceiptTimeout, ExecutionPanics, RevertStatus,
           FireWebhook, Ack, ReEnqueueAck, ReEnqueuePush, ExhaustPush, ExhaustStatus,
           SupervisorRecovers, Goto, Finish
      <4>3. QED
        BY <4>1, <4>2
    <3>3. QED
      BY <1>1, <3>1, <3>2 DEF Knows
  <2>4. QED
    BY <2>1, <2>2, <2>3
<1>2. ASSUME NEW w \in WorkerIds, WorkerStep(w), NEW v \in WorkerIds, v # w, Knows(v, r)'
      PROVE  Knows(v, r)
  <2>1. pc'[v] = pc[v] /\ held'[v] = held[v] /\ verdict'[v] = verdict[v]
    BY <1>2, WorkerFrame
  <2>2. watched'[v] = [req |-> r, state |-> "succeeded"]
            => watched[v] = [req |-> r, state |-> "succeeded"]
    <3>1. CASE SubmitUserOp(w)
      <4>1. PICK submitters : Submit(held[w].req, submitters)
        BY <3>1 DEF SubmitUserOp
      <4>2. watched'[v] = watched[v] \/ watched'[v] = Pending(held[w].req)
            \/ watched'[v] = [Pending(held[w].req) EXCEPT !.state = "replaced"]
        BY <4>1 DEF Submit
      <4>3. QED
        BY <4>2 DEF Pending
    <3>2. CASE Abandon({w})
      BY <1>2, <3>2 DEF Abandon
    <3>3. SubmitUserOp(w) \/ Abandon({w}) \/ UNCHANGED watched
      BY <1>2 DEF WorkerStep, Dequeue, PoisonStatus, MoveToDlqRemove, MoveToDlqPush,
           Broadcast, ExecuteFails, ExecuteFailsAsRevert, ReceiptConfirmed, ReceiptReverted,
           ReceiptTimeout, ExecutionPanics, ConfirmStatus, ConfirmRow, RevertStatus,
           FireWebhook, Ack, ReEnqueueAck, ReEnqueuePush, ExhaustPush, ExhaustStatus,
           SupervisorRecovers, chainVars
    <3>4. QED
      BY <3>1, <3>2, <3>3
  <2>3. QED
    BY <1>2, <2>1, <2>2 DEF Knows
<1>3. ASSUME NEW w \in WorkerIds, WorkerStep(w)
      PROVE  Knowers(r)' \subseteq Knowers(r)
  BY <1>1, <1>2, <1>3 DEF Knowers, WorkerIds
<1>4. CASE ChainStep
  <2>1. UNCHANGED <<pc, held, verdict>>
    BY <1>4 DEF ChainStep, workerVars
  <2>2. ASSUME NEW w \in WorkerIds, NEW success \in BOOLEAN, IncludeWatched(w, success)
        PROVE  \/ Knowers(r)' \subseteq Knowers(r)
               \/ \E v \in WorkerIds : /\ IncludeWatched(v, TRUE) /\ ChainStep
                                       /\ watched[v].req = r
                                       /\ Knowers(r)' \subseteq Knowers(r) \cup {v}
    <3>1. \A v \in WorkerIds \ {w} : watched'[v] = watched[v]
      BY <2>2 DEF IncludeWatched
    <3>2. watched[w] \in [req : Requests, state : OpState] /\ watched'[w] =
             [watched[w] EXCEPT !.state = IF success THEN "succeeded" ELSE "reverted"]
      BY <2>2 DEF IncludeWatched, NoOp
    <3>3. CASE success /\ watched[w].req = r
      <4>1. success = TRUE
        BY <3>3
      <4>2. IncludeWatched(w, TRUE)
        BY <2>2, <4>1
      <4>3. Knowers(r)' \subseteq Knowers(r) \cup {w}
        BY <2>1, <3>1 DEF Knowers, Knows, WorkerIds
      <4>4. QED
        BY <1>4, <3>3, <4>2, <4>3
    <3>4. CASE ~success \/ watched[w].req # r
      <4>1. /\ watched'[w].req = watched[w].req
            /\ watched'[w].state = IF success THEN "succeeded" ELSE "reverted"
        BY <3>2
      <4>2. watched'[w] # [req |-> r, state |-> "succeeded"]
        BY <3>4, <4>1
      <4>3. QED
        BY <2>1, <3>1, <4>2 DEF Knowers, Knows, WorkerIds
    <3>5. QED
      BY <3>3, <3>4
  <2>3. ASSUME UNCHANGED watched
        PROVE  Knowers(r)' \subseteq Knowers(r)
    BY <2>1, <2>3 DEF Knowers, Knows, WorkerIds
  <2>4. QED
    BY <1>4, <2>2, <2>3 DEF ChainStep, IncludeOrphan, ExpireOrphan
<1>5. CASE Crash
  BY <1>5, Constants DEF Crash, Abandon, Knowers, Knows, WorkerIds, NoOp, JobsOf, Payload
<1>6. ASSUME NEW w \in WorkerIds, WorkerPanics(w)
      PROVE  Knowers(r)' \subseteq Knowers(r)
  <2>1. /\ UNCHANGED watched /\ pc'[w] = "recovering"
        /\ \A v \in WorkerIds \ {w} : pc'[v] = pc[v] /\ held'[v] = held[v] /\ verdict'[v] = verdict[v]
    BY <1>6, WorkerFrame DEF WorkerPanics, LoopPanics, chainVars
  <2>2. QED
    BY <2>1 DEF Knowers, Knows, WorkerIds
<1>7. CASE BootNext
  <2>1. UNCHANGED watched /\ \A v \in WorkerIds : pc'[v] \in {"stopped", "idle"}
    BY <1>7 DEF BootNext, LimitInv, chainVars
  <2>2. QED
    BY <2>1 DEF Knowers, Knows, WorkerIds
<1>8. CASE \/ UNCHANGED vars \/ Boot \/ BootRecovers
           \/ \E q \in Requests : HandlerStep(q) \/ HandlerDropped(q)
  <2>1. UNCHANGED <<pc, watched, held, verdict>>
    BY <1>8 DEF vars, Boot, BootRecovers, chainVars,
         workerVars, HandlerStep, HandlerDropped, InsertRequest, Simulate, RecordFailure,
         RecordEstimate, Enqueue, MarkQueued
  <2>2. QED
    BY <2>1 DEF Knowers, Knows, WorkerIds
<1>9. QED
  BY <1>3, <1>4, <1>5, <1>6, <1>7, <1>8 DEF Next
-----------------------------------------------------------------------------
LEMMA ToldFinite ==
    ASSUME TypeInv, NEW r \in Requests
    PROVE  IsFiniteSet(Told(r)) /\ Cardinality(Told(r)) \in Nat
<1>1. events[r] \in Seq(Terminal)
  BY DEF TypeInv, TypeOK, WorkerTypeOK
<1>2. Len(events[r]) \in Nat /\ DOMAIN events[r] = 1..Len(events[r])
  BY <1>1, LenProperties
<1>3. IsFiniteSet(DOMAIN events[r])
  BY <1>2, FS_Interval
<1>4. Told(r) \in SUBSET DOMAIN events[r]
  BY DEF Told
<1>5. QED
  BY <1>3, <1>4, FS_Subset, FS_CardinalityType

\* A webhook adds one telling at most, of the request it is about.
LEMMA ToldStep ==
    ASSUME TypeInv, NEW w \in WorkerIds, FireWebhook(w), NEW r \in Requests
    PROVE  /\ Cardinality(Told(r)') \in Nat
           /\ Cardinality(Told(r)') <= Cardinality(Told(r)) + 1
           /\ held[w].req # r \/ verdict[w] # "confirmed" =>
                 Cardinality(Told(r)') = Cardinality(Told(r))
<1>1. events'[r] = IF held[w].req = r THEN Append(events[r], verdict[w]) ELSE events[r]
  BY EventsOf
<1>2. events[r] \in Seq(Terminal) /\ verdict[w] \in Terminal
  BY EventsOf DEF TypeInv, TypeOK, WorkerTypeOK
<1>3. IsFiniteSet(Told(r)) /\ Cardinality(Told(r)) \in Nat
  BY ToldFinite
<1>4. CASE held[w].req # r
  <2>1. Told(r)' = Told(r)
    BY <1>1, <1>4 DEF Told
  <2>2. QED
    BY <1>3, <2>1
<1>5. CASE held[w].req = r
  <2> DEFINE n == Len(events[r]) + 1
             new == Append(events[r], verdict[w])
  <2>1. /\ events'[r] = new /\ n \in Nat /\ n - 1 \in Nat
        /\ DOMAIN events[r] = 1..n - 1 /\ DOMAIN new = 1..n
        /\ \A i \in 1..n - 1 : new[i] = events[r][i]
        /\ new[n] = verdict[w]
    BY <1>1, <1>2, <1>5, AppendProperties, LenProperties
  <2> HIDE DEF n, new
  <2>2. Told(r)' = {i \in 1..n : new[i] = "confirmed"}
    BY <2>1 DEF Told
  <2>3. Told(r) = {i \in 1..n - 1 : events[r][i] = "confirmed"}
    BY <2>1 DEF Told
  <2>4. 1..n = (1..n - 1) \cup {n}
    BY <2>1
  <2>5. CASE verdict[w] = "confirmed"
    <3>1. Told(r)' = Told(r) \cup {n}
      BY <2>1, <2>2, <2>3, <2>4, <2>5
    <3>2. Cardinality(Told(r) \cup {n}) =
             IF n \in Told(r) THEN Cardinality(Told(r)) ELSE Cardinality(Told(r)) + 1
      BY <1>3, FS_AddElement
    <3>3. QED
      BY <1>3, <1>5, <2>5, <3>1, <3>2
  <2>6. CASE verdict[w] # "confirmed"
    <3>1. Told(r)' = Told(r)
      BY <2>1, <2>2, <2>3, <2>4, <2>6
    <3>2. QED
      BY <1>3, <3>1
  <2>7. QED
    BY <2>5, <2>6
<1>6. QED
  BY <1>4, <1>5

\* What is told or about to be told has happened.
ToldInv == \A r \in Requests : Cardinality(Told(r)) + Cardinality(Knowers(r)) <= executed[r]

LEMMA ToldInvStep ==
    TypeInv /\ LimitInv /\ OutcomeInv /\ WatchInv /\ ToldInv /\ [Next]_vars => ToldInv'
<1> SUFFICES ASSUME TypeInv, LimitInv, OutcomeInv, WatchInv, ToldInv, [Next]_vars,
                    NEW r \in Requests
             PROVE  Cardinality(Told(r)') + Cardinality(Knowers(r)') <= executed'[r]
  BY DEF ToldInv
<1> DEFINE t == Cardinality(Told(r))
           k == Cardinality(Knowers(r))
           tt == Cardinality(Told(r)')
           kk == Cardinality(Knowers(r)')
           e == executed[r]
           ee == executed'[r]
<1>1. t \in Nat /\ k \in Nat /\ kk \in Nat /\ e \in Nat /\ ee \in Nat /\ t + k <= e /\ e <= ee
  BY ToldFinite, RunnersCount, CountWorkers, EffectsGrow DEF ToldInv
<1>2. \/ Knowers(r)' \subseteq Knowers(r)
      \/ \E w \in WorkerIds : /\ IncludeWatched(w, TRUE) /\ ChainStep
                              /\ watched[w].req = r
                              /\ Knowers(r)' \subseteq Knowers(r) \cup {w}
  BY KnowersStep
<1>3. Knowers(r)' \subseteq Knowers(r) => kk <= k
  BY RunnersCount, CountWorkers
<1>4. CASE UNCHANGED events
  <2>1. tt = t
    BY <1>4 DEF Told
  <2>2. CASE Knowers(r)' \subseteq Knowers(r)
    <3>1. kk <= k
      BY <1>3, <2>2
    <3> HIDE DEF t, k, tt, kk, e, ee
    <3>2. tt + kk <= ee
      BY <1>1, <2>1, <3>1
    <3>3. QED
      BY <3>2 DEF tt, kk, ee
  <2>3. ASSUME NEW w \in WorkerIds, IncludeWatched(w, TRUE), watched[w].req = r,
               Knowers(r)' \subseteq Knowers(r) \cup {w}
        PROVE  tt + kk <= ee
    <3>1. ee = e + 1
      BY <2>3 DEF IncludeWatched, Include, TypeInv, TypeOK, ChainTypeOK
    <3>2. kk <= k + 1
      BY <2>3, RunnersCount, CountWorkers
    <3> HIDE DEF t, k, tt, kk, e, ee
    <3>3. QED
      BY <1>1, <2>1, <3>1, <3>2
  <2>4. QED
    BY <1>2, <2>2, <2>3
<1>5. ASSUME NEW w \in WorkerIds, FireWebhook(w), ~UNCHANGED events
      PROVE  tt + kk <= ee
  <2>1. Knowers(r)' \subseteq Knowers(r)
    BY <1>2, <1>5 DEF ChainStep, workerVars
  <2>2. CASE held[w].req = r /\ verdict[w] = "confirmed"
    <3>1. held[w] \in JobsOf(r) /\ pc[w] = "notify"
      BY <1>5, <2>2, EventsOf DEF JobsOf, FireWebhook
    <3>2. w \in Knowers(r)
      BY <2>2, <3>1 DEF Knowers, Knows
    <3>3. watched'[w] = NoOp /\ pc'[w] \in {"dlq_rem", "idle", "ack"}
      BY <1>5 DEF FireWebhook, Goto, Finish, WatchInv, chainVars, TypeInv, TypeOK, WorkerTypeOK
    <3>4. w \notin Knowers(r)'
      BY <3>3 DEF Knowers, Knows, NoOp
    <3>5. kk + 1 <= k
      BY <2>1, <3>2, <3>4, RunnersCount, CountWorkers
    <3>6. tt <= t + 1 /\ tt \in Nat
      BY <1>5, ToldStep
    <3> HIDE DEF t, k, tt, kk, e, ee
    <3>7. QED
      BY <1>1, <3>5, <3>6
  <2>3. CASE held[w].req # r \/ verdict[w] # "confirmed"
    <3>1. tt = t /\ kk <= k
      BY <1>3, <1>5, <2>1, <2>3, ToldStep
    <3> HIDE DEF t, k, tt, kk, e, ee
    <3>2. QED
      BY <1>1, <3>1
  <2>4. QED
    BY <2>2, <2>3
<1>6. QED
  BY <1>4, <1>5, Writers

SpendingInv == \A r \in Requests : executed[r] + undone[r] + Spending(r) <= runs[r]

LEMMA SpendingInvStep == TypeInv /\ SpendingInv /\ [Next]_vars => SpendingInv'
<1> SUFFICES ASSUME TypeInv, SpendingInv, [Next]_vars, NEW r \in Requests
             PROVE  executed'[r] + undone'[r] + Spending(r)' <= runs'[r]
  BY DEF SpendingInv
<1> DEFINE e == executed[r] + undone[r]
           ee == executed'[r] + undone'[r]
<1>1. /\ runs[r] \in Nat /\ runs'[r] \in Nat /\ e \in Nat /\ ee \in Nat
  <2>1. runs[r] \in Nat /\ runs'[r] \in Nat
    BY TypeInvStep DEF TypeInv, TypeOK, WorkerTypeOK
  <2>2. /\ executed[r] \in Nat /\ undone[r] \in Nat
        /\ executed'[r] \in Nat /\ undone'[r] \in Nat
    BY EffectsGrow
  <2>3. QED
    BY <2>1, <2>2
<1>2. Spending(r) \in Nat /\ Spending(r)' \in Nat
  <2>1. /\ Cardinality(Runners(r)) \in Nat /\ Cardinality(Runners(r)') \in Nat
        /\ Cardinality(Watchers(r)) \in Nat /\ Cardinality(Watchers(r)') \in Nat
        /\ Loose(r) \in {0, 1} /\ Loose(r)' \in {0, 1}
    BY RunnersCount, CountWorkers
  <2>2. QED
    BY <2>1 DEF Spending
<1>3. e + Spending(r) <= runs[r]
  BY DEF SpendingInv
<1>4. ee + Spending(r)' + runs[r] <= e + Spending(r) + runs'[r]
  BY SpendingStep
<1> HIDE DEF e, ee
<1>5. ee + Spending(r)' <= runs'[r]
  BY <1>1, <1>2, <1>3, <1>4
<1>6. QED
  BY <1>5 DEF ee

LEMMA SpendingInvInit == Init => WatchInv /\ ToldInv /\ SpendingInv
<1> SUFFICES ASSUME Init
             PROVE  WatchInv /\ ToldInv /\ SpendingInv
  OBVIOUS
<1>1. WatchInv
  BY DEF Init, WatchInv
<1>2. ASSUME NEW r \in Requests
      PROVE  /\ Runners(r) = {} /\ Watchers(r) = {} /\ Knowers(r) = {} /\ Told(r) = {}
             /\ Loose(r) = 0 /\ executed[r] = 0 /\ undone[r] = 0 /\ runs[r] = 0
  <2>1. Runners(r) = {} /\ Watchers(r) = {} /\ Loose(r) = 0
    BY DEF Init, Runners, Watchers, Loose, NoOp, Pending
  <2>2. Knowers(r) = {}
    BY DEF Init, Knowers, Knows, NoOp
  <2>3. Told(r) = {}
    <3>1. events[r] = <<>>
      BY DEF Init
    <3>2. QED
      BY <3>1 DEF Told
  <2>4. executed[r] = 0 /\ undone[r] = 0 /\ runs[r] = 0
    BY DEF Init
  <2>5. QED
    BY <2>1, <2>2, <2>3, <2>4
<1>3. Cardinality({}) = 0
  BY FS_EmptySet
<1>4. ASSUME NEW r \in Requests
      PROVE  /\ Cardinality(Told(r)) + Cardinality(Knowers(r)) <= executed[r]
             /\ executed[r] + undone[r] + Spending(r) <= runs[r]
  <2>1. /\ Cardinality(Told(r)) = 0 /\ Cardinality(Knowers(r)) = 0
        /\ Cardinality(Runners(r)) = 0 /\ Cardinality(Watchers(r)) = 0
    BY <1>2, <1>3
  <2>2. Spending(r) = 0
    BY <1>2, <2>1 DEF Spending
  <2>3. QED
    BY <1>2, <2>1, <2>2
<1>5. QED
  BY <1>1, <1>4 DEF ToldInv, SpendingInv

\* Whatever fails and however many workers run, a request takes effect on the
\* chain at most once for each run, and is called confirmed at most once for
\* each success: an operation that outlives its run is replaced by the next
\* one's (worker/mod.rs:133-208, erc4337/mod.rs:778-849).
THEOREM EffectsBoundedCorrect == Spec => []EffectsBounded
<1> DEFINE Inv == TypeInv /\ LimitInv /\ OutcomeInv /\ WatchInv /\ ToldInv /\ SpendingInv
<1>1. Init => Inv
  BY TypeInvInit, LimitInvInit, OutcomeInvInit, SpendingInvInit
<1>2. Inv /\ [Next]_vars => Inv'
  BY TypeInvStep, LimitInvStep, OutcomeInvStep, WatchInvStep, ToldInvStep, SpendingInvStep
<1>3. Inv => EffectsBounded
  <2> SUFFICES ASSUME Inv, NEW r \in Requests
               PROVE  /\ executed[r] + undone[r] <= runs[r]
                      /\ Cardinality(Told(r)) <= executed[r]
    BY DEF EffectsBounded, Told
  <2>1. /\ Cardinality(Runners(r)) \in Nat /\ Cardinality(Watchers(r)) \in Nat
        /\ Cardinality(Knowers(r)) \in Nat /\ Loose(r) \in {0, 1}
    BY RunnersCount, CountWorkers
  <2>2. /\ executed[r] \in Nat /\ undone[r] \in Nat /\ runs[r] \in Nat
        /\ Cardinality(Told(r)) \in Nat
    BY ToldFinite DEF TypeInv, TypeOK, WorkerTypeOK, ChainTypeOK
  <2>3. /\ executed[r] + undone[r] + Spending(r) <= runs[r]
        /\ Cardinality(Told(r)) + Cardinality(Knowers(r)) <= executed[r]
    BY DEF SpendingInv, ToldInv
  <2>4. Spending(r) \in Nat
    BY <2>1 DEF Spending
  <2>5. QED
    BY <2>1, <2>2, <2>3, <2>4
<1> HIDE DEF Inv
<1>4. QED
  BY <1>1, <1>2, <1>3, PTL DEF Spec
-----------------------------------------------------------------------------
\* What a request may have cost while its job rests in a list, ...
RestCost(r, job) ==
    /\ runs[r] <= job.attempt + Disturbances
    /\ Len(events[r]) <= Disturbances
    /\ txRows[r] <= Disturbances

\* ... while worker w has the job in hand, ...
HeldCost(r, w) ==
    /\ runs[r] <= held[w].attempt + 1 + Disturbances
    /\ pc[w] \in {"poison_status", "broadcast"} => runs[r] <= held[w].attempt + Disturbances
    /\ pc[w] \notin AnnouncedPc => Len(events[r]) <= Disturbances
    /\ pc[w] \notin {"notify", "ack"} \/ (pc[w] = "notify" /\ verdict[w] # "confirmed") =>
          txRows[r] <= Disturbances
    /\ pc[w] = "notify" /\ verdict[w] = "confirmed" => Cardinality(Told(r)) + 1 <= txRows[r]

\* ... and at any time.
TotalCost(r) ==
    /\ runs[r] <= MaxAttempts + Disturbances
    /\ Len(events[r]) <= 1 + Disturbances
    /\ txRows[r] <= 1 + Disturbances
    /\ Cardinality(Told(r)) <= txRows[r]

\* No worker has a job of r in hand.
Free(r) == \A w \in WorkerIds : held[w] \notin JobsOf(r)

\* The job is in a list that workers take from or recovery reads.
Listed(job) == Occurs({job}, queue) \/ \E w \in WorkerIds : Occurs({job}, processing[w])

CostInv ==
    Clean => \A r \in Requests :
       /\ TotalCost(r)
       /\ Free(r) => \A job \in JobsOf(r) : Listed(job) => RestCost(r, job)
       /\ \A w \in WorkerIds : held[w] \in JobsOf(r) => HeldCost(r, w)

\* The quantities of the costs are numbers, and a step adds one disturbance
\* at most.
LEMMA CostTypes ==
    ASSUME TypeInv, NEW r \in Requests
    PROVE  /\ Disturbances \in Nat /\ runs[r] \in Nat /\ Len(events[r]) \in Nat
           /\ txRows[r] \in Nat /\ Cardinality(Told(r)) \in Nat
           /\ \A w \in WorkerIds : held[w] \in Job => held[w].attempt \in Nat
<1>1. Disturbances \in Nat
  BY Constants DEF TypeInv, TypeOK, Disturbances
<1>2. events[r] \in Seq(Terminal)
  BY DEF TypeInv, TypeOK, WorkerTypeOK
<1>3. QED
  BY <1>1, <1>2, LenProperties, ToldFinite DEF TypeInv, TypeOK, WorkerTypeOK, StoreTypeOK, Job

LEMMA DisturbancesStep ==
    ASSUME TypeInv, [Next]_vars
    PROVE  \/ Disturbances' = Disturbances
           \/ /\ Disturbances' = Disturbances + 1
              /\ Crash \/ \E w \in WorkerIds : WorkerPanics(w)
<1>1. crashes \in Nat /\ panics \in Nat
  BY Constants DEF TypeInv, TypeOK
<1>2. CASE Crash
  BY <1>1, <1>2 DEF Crash, Disturbances
<1>3. CASE \E w \in WorkerIds : WorkerPanics(w)
  BY <1>1, <1>3 DEF WorkerPanics, Disturbances
<1>4. ASSUME ~Crash, ~\E w \in WorkerIds : WorkerPanics(w)
      PROVE  UNCHANGED <<crashes, panics>>
  BY <1>4 DEF Next, vars, processVars, ChainStep, Boot, BootRecovers, BootNext
<1>5. QED
  BY <1>2, <1>3, <1>4 DEF Disturbances

\* Where the jobs of a request are while a worker has one in hand.
LEMMA HolderPlace ==
    ASSUME TypeInv, LimitInv, CopyInv, Clean, NEW r \in Requests,
           NEW w \in WorkerIds, held[w] \in JobsOf(r)
    PROVE  /\ \A v \in WorkerIds : held[v] \in JobsOf(r) => v = w
           /\ \A job \in JobsOf(r) : Listed(job) =>
                 job = held[w] /\ pc[w] \notin HandPc /\ ~Buries(w)
           /\ ~Has(r, queue) /\ \A v \in WorkerIds \ {w} : ~Has(r, processing[v])
<1>1. PICK kind \in {"queue", "list", "hand", "dead"}, x \in WorkerIds : OnlyAt(r, kind, x)
  BY DEF CopyInv, OnePlace
<1>2. ASSUME NEW v \in WorkerIds, held[v] \in JobsOf(r)
      PROVE  /\ v = x /\ kind # "queue"
             /\ pc[v] \in HandPc \/ Buries(v) => kind # "list"
             /\ pc[v] \notin HandPc /\ ~Buries(v) =>
                   kind = "list" /\ Occurs({held[v]}, processing[v])
  <2>1. held[v] \in Job /\ held[v] # NoJob
    BY <1>2, Constants DEF JobsOf, Payload
  <2>2. pc[v] \notin AwayPc
    BY <2>1 DEF LimitInv, LimitOK
  <2>3. CASE pc[v] \in HandPc \/ Buries(v)
    BY <1>1, <1>2, <2>3 DEF OnlyAt
  <2>4. CASE pc[v] \notin HandPc /\ ~Buries(v)
    <3>1. Occurs({held[v]}, processing[v])
      BY <2>1, <2>2, <2>4 DEF CopyInv, KeepsOriginal, Keeps
    <3>2. Has(r, processing[v])
      BY <1>2, <3>1, MemberHas
    <3>3. QED
      BY <1>1, <2>4, <3>1, <3>2 DEF OnlyAt
  <2>5. QED
    BY <2>3, <2>4
<1>3. w = x /\ \A v \in WorkerIds : held[v] \in JobsOf(r) => v = w
  BY <1>2
<1>4. ~Has(r, queue) /\ \A v \in WorkerIds \ {w} : ~Has(r, processing[v])
  BY <1>1, <1>2, <1>3 DEF OnlyAt
<1>5. ASSUME NEW job \in JobsOf(r), Listed(job)
      PROVE  job = held[w] /\ pc[w] \notin HandPc /\ ~Buries(w)
  <2>1. Occurs({job}, processing[w])
    BY <1>4, <1>5, MemberHas DEF Listed
  <2>2. Has(r, processing[w])
    BY <2>1, MemberHas
  <2>3. kind = "list"
    BY <1>1, <2>2 DEF OnlyAt
  <2>4. pc[w] \notin HandPc /\ ~Buries(w) /\ Occurs({held[w]}, processing[w])
    BY <1>2, <2>3
  <2>5. Once(JobsOf(r), processing[w])
    BY DEF CopyInv, OncePerList
  <2>6. QED
    BY <2>1, <2>4, <2>5 DEF Occurs, Once
<1>6. QED
  BY <1>3, <1>4, <1>5
\* What a request has cost, but for the disturbances.
SameCost(r) == runs'[r] = runs[r] /\ events'[r] = events[r] /\ txRows'[r] = txRows[r]

\* Only a worker that has a job of r makes r cost more.
LEMMA OthersCost ==
    ASSUME TypeInv, [Next]_vars, NEW r \in Requests,
           \A w \in WorkerIds : WorkerStep(w) => held[w] \notin JobsOf(r)
    PROVE  SameCost(r)
<1>1. ASSUME NEW w \in WorkerIds, WorkerStep(w)
      PROVE  SameCost(r)
  BY <1>1, OwnRequestOnly DEF SameCost
<1>2. ASSUME NEW q \in Requests, InsertRequest(q)
      PROVE  UNCHANGED txRows
  BY <1>2 DEF InsertRequest, InsertExecutionRequest
<1>3. QED
  BY <1>1, <1>2, Writers DEF SameCost, WorkerStep

\* The three steps of a worker that make its request cost more.
LEMMA OwnCost ==
    ASSUME TypeInv, Clean, Clean', NEW w \in WorkerIds, WorkerStep(w), NEW r \in Requests,
           held[w] \in JobsOf(r)
    PROVE  \/ SameCost(r) /\ ~Broadcast(w) /\ ~ConfirmRow(w) /\ ~FireWebhook(w)
           \/ /\ Broadcast(w)
              /\ runs'[r] = runs[r] + 1 /\ events'[r] = events[r] /\ txRows'[r] = txRows[r]
           \/ /\ ConfirmRow(w)
              /\ runs'[r] = runs[r] /\ events'[r] = events[r] /\ txRows'[r] = txRows[r] + 1
           \/ /\ FireWebhook(w)
              /\ runs'[r] = runs[r] /\ txRows'[r] = txRows[r]
              /\ Len(events'[r]) = Len(events[r]) + 1
<1> USE DEF TypeInv, TypeOK, WorkerTypeOK, StoreTypeOK
<1>1. held[w].req = r
  BY DEF JobsOf
<1>2. CASE Broadcast(w)
  BY <1>1, <1>2 DEF Broadcast, UpdateExecutionStatus
<1>3. CASE ConfirmRow(w)
  <2>1. PICK reply \in Replies : Answer(reply) /\ InsertTransaction(held[w].req, reply)
    BY <1>3 DEF ConfirmRow
  <2>2. reply = "ok"
    BY <2>1, CleanReply
  <2>3. QED
    BY <1>1, <1>3, <2>1, <2>2 DEF ConfirmRow, InsertTransaction, Applied
<1>4. CASE FireWebhook(w)
  <2>1. events'[r] = Append(events[r], verdict[w]) /\ events[r] \in Seq(Terminal)
        /\ verdict[w] \in Terminal
    BY <1>1, <1>4, EventsOf
  <2>2. Len(events'[r]) = Len(events[r]) + 1
    BY <2>1, AppendProperties
  <2>3. QED
    BY <1>4, <2>2 DEF FireWebhook, storeVars
<1>5. CASE ~Broadcast(w) /\ ~ConfirmRow(w) /\ ~FireWebhook(w)
  <2>1. UNCHANGED <<runs, events, txRows>>
    BY <1>5 DEF WorkerStep, Dequeue, PoisonStatus, MoveToDlqRemove, MoveToDlqPush, ExecuteFails,
                ExecuteFailsAsRevert, SubmitUserOp, ReceiptConfirmed, ReceiptReverted,
                ReceiptTimeout, ExecutionPanics, ConfirmStatus, RevertStatus, Ack, ReEnqueueAck,
                ReEnqueuePush, ExhaustPush, ExhaustStatus, SupervisorRecovers, storeVars,
                UpdateExecutionStatus
  <2>2. QED
    BY <1>5, <2>1 DEF SameCost
<1>6. QED
  BY <1>2, <1>3, <1>4, <1>5

\* The awaits a worker moves between with a job in hand.
LEMMA HeldMoves ==
    ASSUME TypeInv, LimitInv, NEW w \in WorkerIds, WorkerStep(w), held[w] \in Job, held'[w] = held[w]
    PROVE  /\ pc'[w] \notin {"poison_status", "broadcast"}
           /\ pc'[w] \notin AnnouncedPc => pc[w] \notin AnnouncedPc
           /\ pc[w] = "notify" <=> FireWebhook(w)
           /\ pc[w] # "ack"
           /\ pc'[w] = "notify" /\ verdict'[w] = "confirmed" => ConfirmRow(w)
           /\ FireWebhook(w) => pc'[w] \in {"ack", "dlq_rem"}
           /\ ConfirmRow(w) => pc'[w] = "notify" /\ verdict'[w] = "confirmed"
<1> USE DEF TypeInv, TypeOK, WorkerTypeOK, AnnouncedPc, DlqPc
<1>0. held[w] # NoJob /\ HandOK(w)
  BY Constants DEF Payload
<1>1. CASE FireWebhook(w)
  <2>1. pc'[w] \in {"ack", "dlq_rem"} /\ pc[w] = "notify"
    <3>1. ASSUME Finish(w)
          PROVE  FALSE
      BY <1>0, <3>1 DEF Finish
    <3>2. Goto(w, "ack") \/ Goto(w, "dlq_rem")
      BY <1>1, <3>1 DEF FireWebhook
    <3>3. QED
      BY <1>1, <3>2 DEF Goto, FireWebhook
  <2>2. QED
    BY <1>1, <2>1 DEF ConfirmRow
<1>2. CASE Dequeue(w) \/ SupervisorRecovers(w)
  BY <1>0, <1>2 DEF Dequeue, SupervisorRecovers, LimitInv, LimitOK, AwayPc
<1>3. CASE ConfirmRow(w)
  BY <1>3 DEF ConfirmRow, FireWebhook
<1>4. CASE PoisonStatus(w) \/ RevertStatus(w) \/ ExhaustStatus(w)
  BY <1>4 DEF PoisonStatus, RevertStatus, ExhaustStatus, FireWebhook, ConfirmRow
<1>5. CASE MoveToDlqPush(w) \/ Ack(w) \/ ReEnqueuePush(w)
  BY <1>0, <1>5 DEF MoveToDlqPush, Ack, ReEnqueuePush, Finish
<1>6. CASE MoveToDlqRemove(w)
  <2>1. ~Finish(w)
    BY <1>0 DEF Finish
  <2>2. pc[w] = "dlq_rem" /\ Goto(w, "dlq_push")
    BY <1>6, <2>1 DEF MoveToDlqRemove
  <2>3. pc'[w] = "dlq_push"
    BY <2>2 DEF Goto
  <2>4. QED
    BY <2>2, <2>3 DEF FireWebhook, ConfirmRow
<1>7. CASE \/ ConfirmStatus(w) \/ ReEnqueueAck(w) \/ ExhaustPush(w) \/ Broadcast(w)
           \/ ExecuteFails(w) \/ ExecuteFailsAsRevert(w) \/ SubmitUserOp(w)
           \/ ReceiptConfirmed(w) \/ ReceiptReverted(w) \/ ReceiptTimeout(w)
           \/ ExecutionPanics(w)
  <2>1. /\ pc[w] \in RunPc \cup {"confirm_status", "requeue_ack", "exhaust_push", "broadcast"}
        /\ \E next \in RunPc \cup RequeuePc \cup {"confirm_status", "confirm_row", "revert_status"} :
              Goto(w, next)
    BY <1>7 DEF ConfirmStatus, ReEnqueueAck, ExhaustPush, Broadcast, ExecuteFails,
           ExecuteFailsAsRevert, SubmitUserOp, ReceiptConfirmed, ReceiptReverted,
           ReceiptTimeout, ExecutionPanics, RunPc, RequeuePc
  <2>2. pc'[w] \in RunPc \cup RequeuePc \cup {"confirm_status", "confirm_row", "revert_status"}
    BY <2>1 DEF Goto
  <2>3. QED
    BY <2>1, <2>2 DEF FireWebhook, ConfirmRow, RunPc, RequeuePc
<1>8. QED
  BY <1>1, <1>2, <1>3, <1>4, <1>5, <1>6, <1>7 DEF WorkerStep
CostsAreNumbers ==
    \A r \in Requests : /\ runs[r] \in Nat /\ Len(events[r]) \in Nat
                        /\ txRows[r] \in Nat /\ Cardinality(Told(r)) \in Nat

LEMMA CostNumbers == TypeInv => CostsAreNumbers
  BY CostTypes DEF CostsAreNumbers

\* With no more disturbances than before, the costs of a request stay within
\* the bounds of where its job goes: in a worker's hand, ...
LEMMA HeldCostStep ==
    ASSUME TypeInv, LimitInv, Clean, Clean', Disturbances' = Disturbances,
           NEW w \in WorkerIds, WorkerStep(w), NEW r \in Requests,
           held[w] \in JobsOf(r), HeldCost(r, w), TotalCost(r), (TypeInv)'
    PROVE  /\ TotalCost(r)'
           /\ held'[w] = held[w] => HeldCost(r, w)'
<1> DEFINE n == runs[r]         nn == runs'[r]
           e == Len(events[r])  ee == Len(events'[r])
           x == txRows[r]       xx == txRows'[r]
           t == Cardinality(Told(r))   tt == Cardinality(Told(r)')
           a == held[w].attempt
           d == Disturbances
<1>1. held[w] \in Job /\ held[w].req = r /\ a \in Nat /\ MaxAttempts \in Nat
      /\ d \in Nat /\ n \in Nat /\ e \in Nat /\ x \in Nat /\ t \in Nat
  BY CostTypes, Constants DEF JobsOf
<1>2. nn \in Nat /\ ee \in Nat /\ xx \in Nat /\ tt \in Nat
  <2>1. (TypeInv => CostsAreNumbers)'
    BY CostNumbers, PTL
  <2>2. QED
    BY <2>1 DEF CostsAreNumbers
<1>3. /\ n <= a + 1 + d
      /\ pc[w] \in {"poison_status", "broadcast"} => n <= a + d
      /\ pc[w] \notin AnnouncedPc => e <= d
      /\ pc[w] \notin {"notify", "ack"} \/ (pc[w] = "notify" /\ verdict[w] # "confirmed") => x <= d
      /\ pc[w] = "notify" /\ verdict[w] = "confirmed" => t + 1 <= x
      /\ n <= MaxAttempts + d /\ e <= 1 + d /\ x <= 1 + d /\ t <= x
  BY DEF HeldCost, TotalCost
<1>4. events'[r] = events[r] => tt = t
  BY DEF Told
<1>5. ASSUME /\ nn <= MaxAttempts + d /\ ee <= 1 + d /\ xx <= 1 + d /\ tt <= xx
      PROVE  TotalCost(r)'
  BY <1>5 DEF TotalCost
<1>6. ASSUME held'[w] = held[w],
             nn <= a + 1 + d,
             pc'[w] \notin AnnouncedPc => ee <= d,
             pc'[w] \notin {"notify", "ack"} \/ (pc'[w] = "notify" /\ verdict'[w] # "confirmed") =>
                 xx <= d,
             pc'[w] = "notify" /\ verdict'[w] = "confirmed" => tt + 1 <= xx
      PROVE  HeldCost(r, w)'
  <2>1. pc'[w] \notin {"poison_status", "broadcast"}
    BY <1>1, <1>6, HeldMoves
  <2>2. QED
    BY <1>6, <2>1 DEF HeldCost
<1> HIDE DEF n, nn, e, ee, x, xx, t, tt, a, d
<1>7. CASE SameCost(r) /\ ~Broadcast(w) /\ ~ConfirmRow(w) /\ ~FireWebhook(w)
  <2>1. nn = n /\ ee = e /\ xx = x /\ tt = t
    BY <1>4, <1>7 DEF SameCost, n, nn, e, ee, x, xx
  <2>2. ASSUME held'[w] = held[w]
        PROVE  HeldCost(r, w)'
    <3>1. /\ pc'[w] \notin AnnouncedPc => pc[w] \notin AnnouncedPc
          /\ pc[w] # "notify" /\ pc[w] # "ack"
          /\ ~(pc'[w] = "notify" /\ verdict'[w] = "confirmed")
      BY <1>1, <1>7, <2>2, HeldMoves
    <3>2. QED
      BY <1>3, <1>6, <2>1, <2>2, <3>1
  <2>3. TotalCost(r)'
    BY <1>3, <1>5, <2>1
  <2>4. QED
    BY <2>2, <2>3
<1>8. CASE Broadcast(w)
  <2>1. nn = n + 1 /\ ee = e /\ xx = x /\ tt = t
    BY <1>4, <1>8, OwnCost DEF n, nn, e, ee, x, xx, Broadcast, ConfirmRow, FireWebhook, SameCost
  <2>2. pc[w] = "broadcast" /\ pc'[w] = "execute" /\ held'[w] = held[w]
    BY <1>8 DEF Broadcast, Goto, TypeInv, TypeOK, WorkerTypeOK
  <2>3. held[w].attempt < MaxAttempts
    BY <2>2 DEF LimitInv, LimitOK, AwayPc, PoisonPc
  <2>4. a < MaxAttempts
    BY <2>3 DEF a
  <2>5. n <= a + d /\ e <= d /\ x <= d
    BY <1>3, <2>2 DEF AnnouncedPc, DlqPc
  <2>6. nn <= a + 1 + d /\ nn <= MaxAttempts + d /\ ee <= 1 + d /\ xx <= 1 + d /\ tt <= xx
    BY <1>1, <1>3, <2>1, <2>4, <2>5
  <2>7. HeldCost(r, w)'
    BY <1>6, <2>1, <2>2, <2>5, <2>6
  <2>8. QED
    BY <1>5, <2>6, <2>7
<1>9. CASE ConfirmRow(w)
  <2>1. nn = n /\ ee = e /\ xx = x + 1 /\ tt = t
    BY <1>4, <1>9, OwnCost DEF n, nn, e, ee, x, xx, Broadcast, ConfirmRow, FireWebhook, SameCost
  <2>2. pc[w] = "confirm_row" /\ pc'[w] = "notify" /\ verdict'[w] = "confirmed" /\ held'[w] = held[w]
    BY <1>9 DEF ConfirmRow, TypeInv, TypeOK, WorkerTypeOK
  <2>3. e <= d /\ x <= d
    BY <1>3, <2>2 DEF AnnouncedPc, DlqPc
  <2>4. /\ nn <= a + 1 + d /\ nn <= MaxAttempts + d /\ ee <= d /\ ee <= 1 + d
        /\ xx <= 1 + d /\ tt <= xx /\ tt + 1 <= xx
    BY <1>1, <1>3, <2>1, <2>3
  <2>5. HeldCost(r, w)'
    BY <1>6, <2>2, <2>4
  <2>6. QED
    BY <1>5, <2>4, <2>5
<1>10. CASE FireWebhook(w)
  <2>1. nn = n /\ ee = e + 1 /\ xx = x
    BY <1>10, OwnCost DEF n, nn, e, ee, x, xx, Broadcast, ConfirmRow, FireWebhook, SameCost
  <2>2. pc[w] = "notify"
    BY <1>10 DEF FireWebhook
  <2>3. e <= d
    BY <1>3, <2>2 DEF AnnouncedPc, DlqPc
  <2>4. tt <= t + 1 /\ (verdict[w] # "confirmed" => tt = t)
    BY <1>10, ToldStep DEF t, tt
  <2>5. tt <= xx
    <3>1. CASE verdict[w] = "confirmed"
      BY <1>1, <1>2, <1>3, <2>1, <2>2, <2>4, <3>1
    <3>2. CASE verdict[w] # "confirmed"
      BY <1>3, <2>1, <2>4, <3>2
    <3>3. QED
      BY <3>1, <3>2
  <2>6. nn <= a + 1 + d /\ nn <= MaxAttempts + d /\ ee <= 1 + d /\ xx <= 1 + d
    BY <1>1, <1>3, <2>1, <2>3
  <2>7. ASSUME held'[w] = held[w]
        PROVE  HeldCost(r, w)'
    <3>1. pc'[w] \in {"ack", "dlq_rem"}
      BY <1>1, <1>10, <2>7, HeldMoves
    <3>2. pc'[w] = "dlq_rem" => verdict[w] # "confirmed"
      <4>1. ASSUME held[w].attempt < MaxAttempts
            PROVE  pc'[w] = "ack" \/ held'[w] = NoJob
        <5>1. Finish(w) \/ Goto(w, "ack")
          <6>1. held[w].attempt < MaxAttempts /\ ~(held[w].attempt >= MaxAttempts)
            BY <1>1, <4>1 DEF a
          <6>2. QED
            BY <1>10, <6>1 DEF FireWebhook
        <5>2. QED
          BY <5>1 DEF Finish, Goto, TypeInv, TypeOK, WorkerTypeOK
      <4>2. held[w] # NoJob
        BY <1>1, Constants DEF Payload
      <4>3. verdict[w] = "confirmed" => held[w].attempt < MaxAttempts
        BY <2>2 DEF LimitInv, LimitOK
      <4>4. QED
        BY <2>7, <4>1, <4>2, <4>3
    <3>3. pc'[w] \in AnnouncedPc /\ pc'[w] # "notify"
      BY <3>1 DEF AnnouncedPc, DlqPc
    <3>4. pc'[w] # "ack" => xx <= d
      BY <1>3, <2>1, <2>2, <3>1, <3>2
    <3>5. QED
      BY <1>6, <2>6, <2>7, <3>3, <3>4
  <2>8. QED
    BY <1>5, <2>5, <2>6, <2>7
<1>11. QED
  BY <1>7, <1>8, <1>9, <1>10, OwnCost
\* ... or in a list: nothing but the first push lists a job of a request that
\* no worker has in hand, ...
LEMMA ListedStep ==
    ASSUME TypeInv, LimitInv, [Next]_vars, NEW r \in Requests, Free(r),
           NEW job \in JobsOf(r), ~Listed(job), Listed(job)'
    PROVE  Enqueue(r) /\ job = FirstJob(r)
<1>1. ASSUME ~(Enqueue(r) /\ job = FirstJob(r))
      PROVE  FALSE
  <2> DEFINE T == {job}
  <2>1. NoJob \notin T /\ Nowhere(T)
    BY Constants DEF JobsOf, Payload, Nowhere, Free, Listed
  <2>2. ASSUME NEW q \in Requests, Enqueue(q)
        PROVE  Reserialized(FirstJob(q)) \notin T
    <3>1. FirstJob(q) \in Job /\ FirstJob(q).req = q /\ FirstJob(q) # Corrupt
      BY Constants DEF FirstJob, Job
    <3>2. Reserialized(FirstJob(q)) = FirstJob(q)
      BY <3>1 DEF Reserialized, FirstJob
    <3>3. CASE q = r
      BY <1>1, <2>2, <3>2, <3>3
    <3>4. CASE q # r
      BY <3>1, <3>2, <3>4 DEF JobsOf
    <3>5. QED
      BY <3>3, <3>4
  <2>3. ASSUME NEW w \in WorkerIds, ReEnqueuePush(w)
        PROVE  Reserialized(Bumped(held[w])) \notin T
    <3>1. held[w] \in Job /\ held[w] \notin JobsOf(r)
      BY <2>3 DEF ReEnqueuePush, TypeInv, HandOK, Free
    <3>2. QED
      BY <3>1, SameRequest
  <2>4. Nowhere(T)'
    BY <2>1, <2>2, <2>3, NowhereStep
  <2>5. QED
    BY <2>4 DEF Nowhere, Listed
<1>2. QED
  BY <1>1

LEMMA AfterWebhook ==
    ASSUME NEW w \in WorkerIds, FireWebhook(w), held[w].attempt \in Nat, MaxAttempts \in Nat
    PROVE  /\ held[w].attempt >= MaxAttempts => Goto(w, "dlq_rem")
           /\ held[w].attempt < MaxAttempts =>
                 (verdict[w] = "failed" /\ Finish(w)) \/ Goto(w, "ack") \/ Goto(w, "dlq_rem")
  BY DEF FireWebhook

\* ... and a worker that is done with a job leaves none of the request in a
\* list but the one it pushed back.
LEMMA LeavesHand ==
    ASSUME CleanState, NEW w \in WorkerIds, WorkerStep(w), NEW r \in Requests,
           held[w] \in JobsOf(r), held'[w] # held[w]
    PROVE  /\ held'[w] = NoJob
           /\ \A job \in JobsOf(r) : Listed(job)' =>
                 ReEnqueuePush(w) /\ job = Reserialized(Bumped(held[w]))
<1> USE DEF CleanState, TypeInv, TypeOK, WorkerTypeOK
<1>1. held[w] \in Job /\ held[w] # NoJob /\ held[w] # Corrupt /\ pc[w] \notin AwayPc
  BY Constants DEF JobsOf, Payload, LimitInv, LimitOK
<1>2. /\ \A job \in JobsOf(r) : Listed(job) => pc[w] \notin HandPc /\ ~Buries(w)
      /\ ~Has(r, queue) /\ \A v \in WorkerIds \ {w} : ~Has(r, processing[v])
  BY HolderPlace
<1>3. CASE Ack(w)
  <2>1. Keeps(w) /\ held'[w] = NoJob
    BY <1>1, <1>3 DEF Ack, Finish, Keeps, Buries, HandPc
  <2>2. PICK reply \in Replies : Answer(reply) /\ RemoveFromProcessing(w, held[w], reply)
    BY <1>3 DEF Ack
  <2>3. Reserialized(held[w]) \in JobsOf(r) /\ Occurs({Reserialized(held[w])}, processing[w])
    BY <1>1, <2>1, KeptText
  <2>4. Applied(reply) /\ Once(JobsOf(r), processing[w])
    BY <2>2, CleanReply DEF Applied, CopyInv, OncePerList
  <2>5. /\ ~Occurs(JobsOf(r), processing'[w]) /\ UNCHANGED queue
        /\ \A v \in WorkerIds \ {w} : processing'[v] = processing[v]
    BY <2>2, <2>3, <2>4, RemovePlaces
  <2>6. ASSUME NEW job \in JobsOf(r), Listed(job)'
        PROVE  FALSE
    BY <1>2, <2>5, <2>6, MemberHas DEF Listed, Has
  <2>7. QED
    BY <2>1, <2>6
<1>4. CASE MoveToDlqPush(w) \/ FireWebhook(w)
  <2>1. UNCHANGED <<queue, processing>>
    BY <1>4 DEF MoveToDlqPush, FireWebhook, PushToDlq, queueVars
  <2>2. held'[w] = NoJob /\ (pc[w] \in HandPc \/ Buries(w))
    <3>1. CASE MoveToDlqPush(w)
      BY <3>1 DEF MoveToDlqPush, Finish, HandPc
    <3>2. CASE FireWebhook(w)
      <4>1. ~Goto(w, "dlq_rem") /\ ~Goto(w, "ack")
        BY DEF Goto
      <4>2. held[w].attempt < MaxAttempts /\ ~(held[w].attempt >= MaxAttempts)
        <5>1. held[w].attempt \in Nat /\ MaxAttempts \in Nat
          BY <1>1, Constants DEF Job
        <5>2. held[w].attempt >= MaxAttempts => Goto(w, "dlq_rem")
          BY <3>2, <5>1, AfterWebhook
        <5>3. QED
          BY <4>1, <5>1, <5>2
      <4>3. Finish(w) /\ verdict[w] = "failed" /\ pc[w] = "notify"
        <5>1. \/ verdict[w] = "failed" /\ Finish(w)
              \/ Goto(w, "ack") \/ Goto(w, "dlq_rem")
          BY <1>1, <3>2, <4>2, AfterWebhook, Constants DEF Job
        <5>2. QED
          BY <3>2, <4>1, <5>1 DEF FireWebhook
      <4>4. QED
        BY <4>2, <4>3 DEF Finish, Buries
    <3>3. QED
      BY <1>4, <3>1, <3>2
  <2>3. QED
    BY <1>2, <2>1, <2>2 DEF Listed
<1>5. CASE ReEnqueuePush(w)
  <2>1. held'[w] = NoJob /\ pc[w] \in HandPc
    BY <1>5 DEF ReEnqueuePush, Finish, HandPc
  <2>2. PICK reply \in Replies : EnqueueJob(Bumped(held[w]), reply)
    BY <1>5 DEF ReEnqueuePush
  <2>3. Bumped(held[w]) \in Payload
    BY <1>1, BumpedType DEF Payload
  <2>4. ASSUME NEW job \in JobsOf(r), Listed(job)'
        PROVE  job = Reserialized(Bumped(held[w]))
    <3>1. ~Listed(job)
      BY <1>2, <2>1
    <3>2. /\ UNCHANGED processing
          /\ Occurs({job}, queue') =>
                Reserialized(Bumped(held[w])) \in {job} \/ Occurs({job}, queue)
      BY <2>2, <2>3, EnqueuePlaces
    <3>3. QED
      BY <2>4, <3>1, <3>2 DEF Listed
  <2>5. QED
    BY <1>5, <2>1, <2>4
<1>6. CASE MoveToDlqRemove(w)
  <2>1. Goto(w, "dlq_push")
    <3>1. PICK reply \in Replies :
             /\ Answer(reply)
             /\ IF reply = "ok" \/ held[w] = Corrupt THEN Goto(w, "dlq_push") ELSE Finish(w)
      BY <1>6 DEF MoveToDlqRemove
    <3>2. reply = "ok"
      BY <3>1, CleanReply
    <3>3. QED
      BY <3>1, <3>2
  <2>2. QED
    BY <2>1 DEF Goto
<1>7. CASE Dequeue(w) \/ SupervisorRecovers(w)
  BY <1>1, <1>7 DEF Dequeue, SupervisorRecovers, AwayPc
<1>8. CASE ~(\/ Ack(w) \/ MoveToDlqPush(w) \/ FireWebhook(w) \/ ReEnqueuePush(w)
             \/ MoveToDlqRemove(w) \/ Dequeue(w) \/ SupervisorRecovers(w))
  <2>1. held'[w] = held[w]
    BY <1>8 DEF WorkerStep, PoisonStatus, Broadcast, ExecuteFails,
           ExecuteFailsAsRevert, SubmitUserOp, ReceiptConfirmed, ReceiptReverted,
           ReceiptTimeout, ExecutionPanics, ConfirmStatus, ConfirmRow, RevertStatus, ReEnqueueAck,
           ExhaustPush, ExhaustStatus, Goto
  <2>2. QED
    BY <2>1
<1>9. QED
  BY <1>3, <1>4, <1>5, <1>6, <1>7, <1>8

\* A worker that has a job and does not step keeps it where it is, unless the
\* step is a disturbance.
LEMMA HolderStays ==
    ASSUME TypeInv, LimitInv, [Next]_vars, ~Crash, ~\E v \in WorkerIds : WorkerPanics(v),
           NEW w \in WorkerIds, ~WorkerStep(w)
    PROVE  \/ pc'[w] = pc[w] /\ held'[w] = held[w] /\ verdict'[w] = verdict[w]
           \/ held[w] = NoJob /\ held'[w] = NoJob
<1>1. ASSUME NEW v \in WorkerIds, WorkerStep(v)
      PROVE  pc'[w] = pc[w] /\ held'[w] = held[w] /\ verdict'[w] = verdict[w]
  BY <1>1, WorkerFrame
<1>2. CASE BootNext
  <2>1. held[w] = NoJob /\ UNCHANGED held
    BY <1>2 DEF BootNext, LimitInv, LimitOK, AwayPc
  <2>2. QED
    BY <2>1
<1>3. CASE \/ UNCHANGED vars \/ ChainStep \/ Boot \/ BootRecovers
           \/ \E q \in Requests : HandlerStep(q) \/ HandlerDropped(q)
  <2>1. UNCHANGED <<pc, held, verdict>>
    BY <1>3 DEF vars, ChainStep, Boot, BootRecovers, HandlerStep, HandlerDropped, InsertRequest,
           Simulate, RecordFailure, RecordEstimate, Enqueue, MarkQueued, workerVars
  <2>2. QED
    BY <2>1
<1>4. QED
  BY <1>1, <1>2, <1>3 DEF Next
LEMMA CostInvInit == Init => CostInv
<1> SUFFICES ASSUME Init, Clean, NEW r \in Requests
             PROVE  /\ TotalCost(r)
                    /\ \A job \in JobsOf(r) : RestCost(r, job)
                    /\ \A w \in WorkerIds : held[w] \notin JobsOf(r)
  BY DEF CostInv
<1>1. Told(r) = {} /\ runs[r] = 0 /\ Len(events[r]) = 0 /\ txRows[r] = 0 /\ Disturbances = 0
  BY DEF Init, Told, Disturbances
<1>2. Cardinality(Told(r)) = 0
  BY <1>1, FS_EmptySet
<1>3. TotalCost(r)
  BY <1>1, <1>2, Constants DEF TotalCost
<1>4. \A job \in JobsOf(r) : RestCost(r, job)
  BY <1>1 DEF RestCost, JobsOf, Job
<1>5. QED
  BY <1>3, <1>4, Constants DEF Init, JobsOf, Payload

\* A disturbance pays for what the worker it interrupts did to its job.
LEMMA DisturbedCost ==
    ASSUME TypeInv, LimitInv, CopyInv, CostInv, Clean, NEW r \in Requests,
           Crash \/ \E u \in WorkerIds : WorkerPanics(u),
           Disturbances' = Disturbances + 1
    PROVE  /\ TotalCost(r)'
           /\ Free(r)' => \A job \in JobsOf(r) : Listed(job)' => RestCost(r, job)'
           /\ \A w \in WorkerIds : held'[w] \in JobsOf(r) => HeldCost(r, w)'
<1> DEFINE d == Disturbances
           dd == Disturbances'
           t == Cardinality(Told(r))
<1>1. /\ SameCost(r) /\ UNCHANGED <<queue, processing>> /\ Told(r)' = Told(r)
      /\ \A w \in WorkerIds : \/ held'[w] = NoJob
                              \/ UNCHANGED <<held[w], pc[w], verdict[w]>>
  BY DEF Crash, WorkerPanics, LoopPanics, SameCost, Told, storeVars, queueVars,
         TypeInv, TypeOK, WorkerTypeOK
<1>2. /\ d \in Nat /\ runs[r] \in Nat /\ Len(events[r]) \in Nat /\ txRows[r] \in Nat
      /\ t \in Nat /\ \A w \in WorkerIds : held[w] \in Job => held[w].attempt \in Nat
  BY CostTypes
<1>3. dd = d + 1 /\ MaxAttempts \in Nat /\ \A job \in JobsOf(r) : job \in Job /\ job.attempt \in Nat
  BY Constants DEF JobsOf, Job
<1>4. TotalCost(r) /\ (Free(r) => \A job \in JobsOf(r) : Listed(job) => RestCost(r, job))
      /\ \A w \in WorkerIds : held[w] \in JobsOf(r) => HeldCost(r, w)
  BY DEF CostInv
<1>5. TotalCost(r)'
  <2>1. /\ runs'[r] <= MaxAttempts + dd /\ Len(events'[r]) <= 1 + dd /\ txRows'[r] <= 1 + dd
        /\ Cardinality(Told(r)') <= txRows'[r]
    BY <1>1, <1>2, <1>3, <1>4 DEF TotalCost, SameCost
  <2>2. QED
    BY <2>1 DEF TotalCost
<1>6. ASSUME NEW w \in WorkerIds, held'[w] \in JobsOf(r)
      PROVE  HeldCost(r, w)'
  <2>1. UNCHANGED <<held[w], pc[w], verdict[w]>>
    BY <1>1, <1>3, <1>6, Constants DEF Payload
  <2>2. HeldCost(r, w) /\ held[w].attempt \in Nat
    BY <1>3, <1>4, <1>6, <2>1
  <2>3. /\ runs'[r] <= held'[w].attempt + 1 + dd
        /\ pc'[w] \in {"poison_status", "broadcast"} => runs'[r] <= held'[w].attempt + dd
        /\ pc'[w] \notin AnnouncedPc => Len(events'[r]) <= dd
        /\ pc'[w] \notin {"notify", "ack"} \/ (pc'[w] = "notify" /\ verdict'[w] # "confirmed") =>
              txRows'[r] <= dd
        /\ pc'[w] = "notify" /\ verdict'[w] = "confirmed" => Cardinality(Told(r)') + 1 <= txRows'[r]
    BY <1>1, <1>2, <1>3, <2>1, <2>2 DEF HeldCost, SameCost
  <2>4. QED
    BY <2>3 DEF HeldCost
<1>7. ASSUME NEW job \in JobsOf(r), Listed(job)'
      PROVE  RestCost(r, job)'
  <2>1. Listed(job) /\ job.attempt \in Nat
    BY <1>1, <1>3, <1>7 DEF Listed
  <2>2. runs[r] <= job.attempt + d + 1 /\ Len(events[r]) <= d + 1 /\ txRows[r] <= d + 1
    <3>1. CASE Free(r)
      BY <1>2, <1>4, <2>1, <3>1 DEF RestCost
    <3>2. ASSUME NEW w \in WorkerIds, held[w] \in JobsOf(r)
          PROVE  runs[r] <= job.attempt + d + 1 /\ Len(events[r]) <= d + 1 /\ txRows[r] <= d + 1
      <4>1. job = held[w]
        BY <2>1, <3>2, HolderPlace
      <4>2. runs[r] <= held[w].attempt + 1 + d
        BY <1>4, <3>2 DEF HeldCost
      <4>3. QED
        BY <1>2, <1>4, <2>1, <4>1, <4>2 DEF TotalCost
    <3>3. QED
      BY <3>1, <3>2 DEF Free
  <2>3. runs'[r] <= job.attempt + dd /\ Len(events'[r]) <= dd /\ txRows'[r] <= dd
    BY <1>1, <1>2, <1>3, <2>1, <2>2 DEF SameCost
  <2>4. QED
    BY <2>3 DEF RestCost
<1>8. QED
  BY <1>5, <1>6, <1>7
\* The step of a worker that has a job of r in hand.
LEMMA HolderCost ==
    ASSUME CleanState, CostInv, (TypeInv)', Disturbances' = Disturbances, NEW r \in Requests,
           NEW w \in WorkerIds, WorkerStep(w), held[w] \in JobsOf(r)
    PROVE  /\ TotalCost(r)'
           /\ Free(r)' => \A job \in JobsOf(r) : Listed(job)' => RestCost(r, job)'
           /\ \A v \in WorkerIds : held'[v] \in JobsOf(r) => HeldCost(r, v)'
<1> USE DEF CleanState
<1>1. HeldCost(r, w) /\ TotalCost(r) /\ held[w] \in Job
  BY DEF CostInv, JobsOf
<1>2. TotalCost(r)' /\ (held'[w] = held[w] => HeldCost(r, w)')
  BY <1>1, HeldCostStep
<1>3. ASSUME NEW v \in WorkerIds, held'[v] \in JobsOf(r)
      PROVE  v = w /\ held'[w] = held[w]
  <2>1. v = w
    BY <1>3, WorkerFrame, HolderPlace
  <2>2. held'[w] # NoJob
    BY <1>3, <2>1, Constants DEF JobsOf, Payload
  <2>3. QED
    BY <2>1, <2>2, LeavesHand
<1>4. ASSUME Free(r)', NEW job \in JobsOf(r), Listed(job)'
      PROVE  RestCost(r, job)'
  <2>1. held'[w] # held[w]
    BY <1>4 DEF Free
  <2>2. ReEnqueuePush(w) /\ job = Reserialized(Bumped(held[w]))
    BY <1>4, <2>1, LeavesHand
  <2>3. pc[w] = "requeue_push" /\ SameCost(r)
    BY <2>2, OwnCost DEF ReEnqueuePush, Broadcast, ConfirmRow, FireWebhook
  <2>4. job.attempt = held[w].attempt + 1
    <3>1. Bumped(held[w]) \in Job /\ Bumped(held[w]).attempt = held[w].attempt + 1
      BY <1>1, BumpedType
    <3>2. Bumped(held[w]) # Corrupt
      BY <3>1, Constants
    <3>3. QED
      BY <2>2, <3>1, <3>2 DEF Reserialized, Job
  <2>5. /\ runs[r] <= held[w].attempt + 1 + Disturbances
        /\ Len(events[r]) <= Disturbances /\ txRows[r] <= Disturbances
    BY <1>1, <2>3 DEF HeldCost, AnnouncedPc, DlqPc
  <2>6. QED
    BY <2>3, <2>4, <2>5 DEF RestCost, SameCost
<1>5. QED
  BY <1>2, <1>3, <1>4

\* Any other step but a disturbance.
LEMMA OthersStepCost ==
    ASSUME CleanState, CostInv, [Next]_vars, Disturbances' = Disturbances, NEW r \in Requests,
           ~Crash, ~\E v \in WorkerIds : WorkerPanics(v),
           \A w \in WorkerIds : WorkerStep(w) => held[w] \notin JobsOf(r)
    PROVE  /\ TotalCost(r)'
           /\ Free(r)' => \A job \in JobsOf(r) : Listed(job)' => RestCost(r, job)'
           /\ \A v \in WorkerIds : held'[v] \in JobsOf(r) => HeldCost(r, v)'
<1> USE DEF CleanState
<1>1. SameCost(r) /\ Told(r)' = Told(r)
  BY OthersCost DEF SameCost, Told
<1>2. /\ TotalCost(r)
      /\ Free(r) => \A job \in JobsOf(r) : Listed(job) => RestCost(r, job)
      /\ \A w \in WorkerIds : held[w] \in JobsOf(r) => HeldCost(r, w)
  BY DEF CostInv
<1>3. ASSUME NEW w \in WorkerIds, held[w] \in JobsOf(r)
      PROVE  pc'[w] = pc[w] /\ held'[w] = held[w] /\ verdict'[w] = verdict[w]
  <2>1. held[w] # NoJob /\ ~WorkerStep(w)
    BY <1>3, Constants DEF JobsOf, Payload
  <2>2. QED
    BY <2>1, HolderStays
<1>4. TotalCost(r)'
  BY <1>1, <1>2 DEF TotalCost, SameCost
<1>5. ASSUME Free(r)', NEW job \in JobsOf(r), Listed(job)'
      PROVE  RestCost(r, job)'
  <2>1. Free(r)
    BY <1>3, <1>5 DEF Free
  <2>2. CASE Listed(job)
    BY <1>1, <1>2, <2>1, <2>2 DEF RestCost, SameCost
  <2>3. CASE ~Listed(job)
    <3>1. Enqueue(r) /\ job = FirstJob(r)
      BY <1>5, <2>1, <2>3, ListedStep
    <3>2. runs[r] = 0 /\ events[r] = <<>> /\ txRows[r] = 0
      BY <3>1 DEF Enqueue, FreshInv, PreCall, Untouched
    <3>3. /\ runs'[r] = 0 /\ Len(events'[r]) = 0 /\ txRows'[r] = 0
          /\ job.attempt = 0 /\ Disturbances' \in Nat
      BY <1>1, <3>1, <3>2, CostTypes DEF SameCost, FirstJob
    <3>4. QED
      BY <3>3 DEF RestCost
  <2>4. QED
    BY <2>2, <2>3
<1>6. ASSUME NEW v \in WorkerIds, held'[v] \in JobsOf(r)
      PROVE  HeldCost(r, v)'
  <2>1. CASE held[v] \in JobsOf(r)
    BY <1>1, <1>2, <1>3, <2>1 DEF HeldCost, SameCost
  <2>2. CASE held[v] \notin JobsOf(r)
    <3>1. held'[v] # held[v] /\ held'[v] # NoJob
      BY <1>6, <2>2, Constants DEF JobsOf, Payload
    <3>2. WorkerStep(v)
      BY <3>1, HolderStays
    <3>3. Dequeue(v)
      BY <3>1, <3>2 DEF WorkerStep, PoisonStatus, MoveToDlqRemove, MoveToDlqPush, Broadcast,
             ExecuteFails, ExecuteFailsAsRevert, SubmitUserOp, ReceiptConfirmed, ReceiptReverted,
             ReceiptTimeout, ExecutionPanics, ConfirmStatus, ConfirmRow, RevertStatus,
             FireWebhook, Ack, ReEnqueueAck, ReEnqueuePush, ExhaustPush, ExhaustStatus,
             SupervisorRecovers, Goto, Finish, TypeInv, TypeOK, WorkerTypeOK
    <3>4. held'[v] = Last(queue) /\ pc'[v] \in {"dlq_rem", "poison_status", "broadcast"}
      BY <3>1, <3>3, DequeueHand
    <3>5. held'[v] # Corrupt
      BY <1>6, CorruptIsNobodys
    <3>6. pc'[v] \in {"poison_status", "broadcast"}
      BY <3>1, <3>3, <3>4, <3>5, DequeueHand
    <3>7. Listed(held'[v]) /\ Has(r, queue)
      <4>1. DequeueJob(v)
        BY <3>3 DEF Dequeue
      <4>2. Occurs({held'[v]}, queue) /\ Occurs(JobsOf(r), queue)
        BY <1>6, <3>4, <4>1, DequeuePlaces DEF TypeInv, TypeOK
      <4>3. QED
        BY <4>2 DEF Listed, Has
    <3>8. Free(r)
      BY <3>7, HolderPlace DEF Free
    <3>9. RestCost(r, held'[v]) /\ held'[v].attempt \in Nat
      BY <1>2, <1>6, <3>7, <3>8 DEF JobsOf, Job
    <3>10. /\ runs[r] <= held'[v].attempt + Disturbances
           /\ Len(events[r]) <= Disturbances /\ txRows[r] <= Disturbances
      BY <3>9 DEF RestCost
    <3>11. runs[r] <= held'[v].attempt + 1 + Disturbances
      BY <3>9, <3>10, CostTypes
    <3>12. QED
      BY <1>1, <3>6, <3>10, <3>11 DEF HeldCost, SameCost
  <2>3. QED
    BY <2>1, <2>2
<1>7. QED
  BY <1>4, <1>5, <1>6

LEMMA CostInvStep == PlacesInv /\ CostInv /\ [Next]_vars => CostInv'
<1> SUFFICES ASSUME PlacesInv, CostInv, [Next]_vars, Clean', NEW r \in Requests
             PROVE  /\ TotalCost(r)'
                    /\ Free(r)' => \A job \in JobsOf(r) : Listed(job)' => RestCost(r, job)'
                    /\ \A v \in WorkerIds : held'[v] \in JobsOf(r) => HeldCost(r, v)'
  BY DEF CostInv, WorkerIds, JobsOf, Job
<1>1. CleanState
  <2>1. faults \in Nat
    BY Constants DEF PlacesInv, TypeInv, TypeOK, FaultsTypeOK
  <2>2. Clean
    BY <2>1, FaultsGrow DEF Clean, PlacesInv
  <2>3. QED
    BY <2>2 DEF CleanState, PlacesInv
<1>2. (TypeInv)' /\ TypeInv /\ LimitInv /\ CopyInv /\ Clean
  BY <1>1, TypeInvStep DEF CleanState
<1>3. CASE Crash \/ \E w \in WorkerIds : WorkerPanics(w)
  <2>1. Disturbances' = Disturbances + 1
    <3>1. crashes \in Nat /\ panics \in Nat
      BY <1>2, Constants DEF TypeInv, TypeOK
    <3>2. QED
      BY <1>3, <3>1 DEF Crash, WorkerPanics, Disturbances
  <2>2. QED
    BY <1>2, <1>3, <2>1, DisturbedCost
<1>4. CASE ~(Crash \/ \E w \in WorkerIds : WorkerPanics(w))
  <2>1. Disturbances' = Disturbances
    BY <1>2, <1>4, DisturbancesStep
  <2>2. CASE \E w \in WorkerIds : WorkerStep(w) /\ held[w] \in JobsOf(r)
    BY <1>1, <1>2, <2>1, <2>2, HolderCost
  <2>3. CASE ~\E w \in WorkerIds : WorkerStep(w) /\ held[w] \in JobsOf(r)
    BY <1>1, <1>4, <2>1, <2>3, OthersStepCost
  <2>4. QED
    BY <2>2, <2>3
<1>5. QED
  BY <1>3, <1>4

\* Without a failing command, a crash or a panic costs a request one more
\* execution, one more webhook and one more row in transactions at most, and
\* no success is told without a row, for any number of workers, any limit on
\* the attempts and any backlog: recovery counts no attempt, and nothing else
\* repeats a run (worker/mod.rs:158-208, 798-801, queue/mod.rs:162-191).
THEOREM DisturbancesCostOneRunCorrect == Spec => []DisturbancesCostOneRun
<1>1. PlacesInv /\ CostInv => DisturbancesCostOneRun
  BY DEF CostInv, TotalCost, Clean, Told, DisturbancesCostOneRun
<1>2. Init => PlacesInv /\ CostInv
  BY TypeInvInit, LimitInvInit, FreshInvInit, CopyInvInit, CostInvInit DEF PlacesInv
<1>3. PlacesInv /\ CostInv /\ [Next]_vars => (PlacesInv /\ CostInv)'
  BY TypeInvStep, LimitInvStep, FreshInvStep, CopyInvStep, CostInvStep DEF PlacesInv
<1>4. QED
  BY <1>1, <1>2, <1>3, PTL DEF Spec
-----------------------------------------------------------------------------
\* The awaits after which the worker writes the status of its request once
\* more.
Doing(w) == pc[w] \notin AwayPc \cup {"confirm_row", "notify"} \cup AnnouncedPc

\* As long as nothing is disturbed, a request has one job that waits or that
\* one worker has taken.
SoleJob(r) ==
    /\ Once(JobsOf(r), queue)
    /\ Has(r, queue) => Free(r)
    /\ \A v, w \in WorkerIds : held[v] \in JobsOf(r) /\ held[w] \in JobsOf(r) => v = w

\* A terminal status is written last.
Settled(r) ==
    /\ status[r] \in Terminal =>
          /\ ~Has(r, queue)
          /\ \A w \in WorkerIds : held[w] \in JobsOf(r) => ~Doing(w)
    /\ call[r] \in PreCall \ {"rejected"} => status[r] \notin Terminal

\* Nothing is recovered.
NoRecovery ==
    /\ phase # "serving" => \A w \in WorkerIds : processing[w] = <<>>
    /\ \A w \in WorkerIds : pc[w] # "recovering"

UndisturbedInv == Undisturbed => NoRecovery /\ \A r \in Requests : SoleJob(r) /\ Settled(r)

\* The hypotheses of the lemmas below.
CalmStep ==
    /\ TypeInv /\ LimitInv /\ FreshInv /\ [Next]_vars
    /\ Undisturbed /\ faults' = 0 /\ ~Crash /\ ~\E w \in WorkerIds : WorkerPanics(w)
    /\ NoRecovery /\ \A r \in Requests : SoleJob(r) /\ Settled(r)

LEMMA CalmSteps ==
    ASSUME TypeInv, LimitInv, FreshInv, UndisturbedInv, [Next]_vars, (Undisturbed)', (TypeInv)'
    PROVE  CalmStep
<1> DEFINE d == Disturbances
           dd == Disturbances'
           f == faults
           ff == faults'
<1>1. f \in Nat /\ d \in Nat /\ (dd = d \/ dd = d + 1) /\ (ff = f \/ ff = f + 1) /\ ff + dd = 0
  <2>1. f \in Nat /\ d \in Nat
    BY Constants DEF TypeInv, TypeOK, FaultsTypeOK, Disturbances
  <2>2. (dd = d \/ dd = d + 1) /\ (ff = f \/ ff = f + 1)
    BY FaultsGrow, DisturbancesStep
  <2>3. ff + dd = 0
    BY DEF Undisturbed
  <2>4. QED
    BY <2>1, <2>2, <2>3
<1> HIDE DEF d, dd, f, ff
<1>2. ff = 0 /\ dd = 0 /\ f = 0 /\ d = 0
  BY <1>1
<1>3. faults' = 0 /\ Disturbances' = 0 /\ faults = 0 /\ Disturbances = 0
  BY <1>2 DEF d, dd, f, ff
<1>4. Disturbances' = Disturbances
  BY <1>3
<1>5. ASSUME Crash \/ \E w \in WorkerIds : WorkerPanics(w)
      PROVE  FALSE
  <2>1. crashes \in Nat /\ panics \in Nat
    BY Constants DEF TypeInv, TypeOK
  <2>2. Disturbances' = Disturbances + 1
    BY <1>5, <2>1 DEF Crash, WorkerPanics, Disturbances
  <2>3. QED
    BY <1>3, <2>2
<1>6. Undisturbed
  BY <1>3 DEF Undisturbed
<1>7. QED
  BY <1>3, <1>5, <1>6 DEF CalmStep, UndisturbedInv

\* What happens to the queue and to the hands.
LEMMA CalmLists ==
    ASSUME CalmStep, NEW r \in Requests
    PROVE  /\ Once(JobsOf(r), queue')
           /\ \/ /\ Has(r, queue') => Has(r, queue)
                 /\ \A w \in WorkerIds : held'[w] \in JobsOf(r) => held'[w] = held[w]
              \/ Enqueue(r) /\ UNCHANGED held
              \/ \E w \in WorkerIds :
                    /\ ReEnqueuePush(w) /\ held[w] \in JobsOf(r) /\ held'[w] = NoJob
                    /\ \A v \in WorkerIds \ {w} : held'[v] = held[v]
              \/ \E w \in WorkerIds :
                    /\ Dequeue(w) /\ Has(r, queue) /\ ~Has(r, queue')
                    /\ \A v \in WorkerIds \ {w} : held'[v] = held[v]
<1> USE DEF CalmStep, TypeInv, TypeOK
<1> DEFINE T == JobsOf(r)
           Moves == /\ Once(JobsOf(r), queue')
                    /\ \/ /\ Has(r, queue') => Has(r, queue)
                          /\ \A w \in WorkerIds : held'[w] \in JobsOf(r) => held'[w] = held[w]
                       \/ Enqueue(r) /\ UNCHANGED held
                       \/ \E w \in WorkerIds :
                             /\ ReEnqueuePush(w) /\ held[w] \in JobsOf(r) /\ held'[w] = NoJob
                             /\ \A v \in WorkerIds \ {w} : held'[v] = held[v]
                       \/ \E w \in WorkerIds :
                             /\ Dequeue(w) /\ Has(r, queue) /\ ~Has(r, queue')
                             /\ \A v \in WorkerIds \ {w} : held'[v] = held[v]
<1>1. Once(T, queue) /\ (Has(r, queue) => Free(r)) /\ NoJob \notin T
  BY Constants DEF SoleJob, JobsOf, Payload
<1>2. CASE Quiet
  BY <1>1, <1>2 DEF Quiet, SameHand, queueVars, Has
<1>3. ASSUME NEW q \in Requests, Enqueue(q)
      PROVE  Moves
  <2>1. FirstJob(q) \in Job /\ FirstJob(q).req = q
    BY DEF FirstJob, Job
  <2>2. PICK reply : EnqueueJob(FirstJob(q), reply)
    BY <1>3 DEF Enqueue, FirstJob
  <2>3. ~Has(q, queue)
    BY <1>3 DEF Enqueue, FreshInv, PreCall, Untouched, Absent
  <2>4. Reserialized(FirstJob(q)) \in T <=> q = r
    BY <2>1, SameRequest DEF JobsOf
  <2>5. /\ Occurs(T, queue') <=> \/ Applied(reply) /\ Reserialized(FirstJob(q)) \in T
                                 \/ Occurs(T, queue)
        /\ Once(T, queue) /\ ~(Reserialized(FirstJob(q)) \in T /\ Occurs(T, queue)) =>
              Once(T, queue')
    BY <2>1, <2>2, EnqueuePlaces DEF Payload
  <2>6. UNCHANGED held
    BY <1>3 DEF Enqueue, workerVars
  <2>7. QED
    BY <1>1, <1>3, <2>3, <2>4, <2>5, <2>6 DEF Has
<1>4. ASSUME NEW w \in WorkerIds, WorkerStep(w), ListStep(w)
      PROVE  Moves
  <2>1. \A v \in WorkerIds \ {w} : held'[v] = held[v]
    BY <1>4, WorkerFrame
  <2>2. CASE Dequeue(w)
    <3>1. DequeueJob(w)
      BY <2>2 DEF Dequeue
    <3>2. /\ Occurs(T, queue) <=> Last(queue) \in T \/ Occurs(T, queue')
          /\ Once(T, queue) => Once(T, queue') /\ ~(Last(queue) \in T /\ Occurs(T, queue'))
      BY <3>1, DequeuePlaces
    <3>3. UNCHANGED held \/ held'[w] = Last(queue)
      BY <2>2, DequeueHand
    <3>4. CASE Last(queue) \in T
      BY <1>1, <2>1, <2>2, <3>2, <3>3, <3>4 DEF Has
    <3>5. CASE Last(queue) \notin T
      BY <1>1, <2>1, <3>2, <3>3, <3>5 DEF Has
    <3>6. QED
      BY <3>4, <3>5
  <2>3. CASE MoveToDlqRemove(w) \/ MoveToDlqPush(w) \/ Ack(w) \/ ReEnqueueAck(w) \/ ExhaustPush(w)
    <3>1. UNCHANGED queue
      BY <2>3 DEF MoveToDlqRemove, MoveToDlqPush, Ack, ReEnqueueAck, ExhaustPush,
                  RemoveFromProcessing, PushToDlq
    <3>2. held'[w] \in {held[w], NoJob}
      BY <2>3 DEF MoveToDlqRemove, MoveToDlqPush, Ack, ReEnqueueAck, ExhaustPush, Goto, Finish,
                  WorkerTypeOK
    <3>3. QED
      BY <1>1, <2>1, <3>1, <3>2 DEF Has
  <2>4. CASE ReEnqueuePush(w)
    <3>1. held'[w] = NoJob /\ held[w] \in Job
      BY <2>4 DEF ReEnqueuePush, Finish, WorkerTypeOK, HandOK
    <3>2. PICK reply : EnqueueJob(Bumped(held[w]), reply)
      BY <2>4 DEF ReEnqueuePush
    <3>3. Bumped(held[w]) \in Payload /\ (Reserialized(Bumped(held[w])) \in T <=> held[w] \in T)
      BY <3>1, BumpedType, SameRequest DEF Payload
    <3>4. /\ Occurs(T, queue') <=> \/ Applied(reply) /\ Reserialized(Bumped(held[w])) \in T
                                   \/ Occurs(T, queue)
          /\ Once(T, queue) /\ ~(Reserialized(Bumped(held[w])) \in T /\ Occurs(T, queue)) =>
                Once(T, queue')
      BY <3>2, <3>3, EnqueuePlaces
    <3>5. held[w] \in T => ~Has(r, queue)
      BY <1>1 DEF Free
    <3>6. QED
      BY <1>1, <2>1, <2>4, <3>1, <3>3, <3>4, <3>5 DEF Has
  <2>5. CASE pc[w] = "recovering"
    BY <2>5 DEF NoRecovery
  <2>6. QED
    BY <1>4, <2>2, <2>3, <2>4, <2>5 DEF ListStep
<1>5. ~BootRecovers
  <2>1. ASSUME BootRecovers
        PROVE  FALSE
    <3>1. PICK w \in WorkerIds : w = bootWid
      OBVIOUS
    <3>2. phase # "serving" /\ processing[w] # <<>>
      BY <2>1, <3>1 DEF BootRecovers, RecoverOne
    <3>3. QED
      BY <3>2 DEF NoRecovery
  <2>2. QED
    BY <2>1
<1>6. QED
  BY <1>2, <1>3, <1>4, <1>5, StepKinds
\* Each request keeps its one job, ...
LEMMA CalmSoleJob ==
    ASSUME CalmStep, NEW r \in Requests
    PROVE  SoleJob(r)'
<1>1. SoleJob(r) /\ NoJob \notin JobsOf(r) /\ TypeInv /\ FreshInv
  BY Constants DEF CalmStep, JobsOf, Payload
<1>2. Once(JobsOf(r), queue')
  BY CalmLists
<1>3. CASE /\ Has(r, queue') => Has(r, queue)
           /\ \A w \in WorkerIds : held'[w] \in JobsOf(r) => held'[w] = held[w]
  BY <1>1, <1>2, <1>3 DEF SoleJob, Free, Has
<1>4. CASE Enqueue(r) /\ UNCHANGED held
  <2>1. Free(r)
    BY <1>1, <1>4 DEF Enqueue, FreshInv, PreCall, Untouched, Absent, Free
  <2>2. QED
    BY <1>2, <1>4, <2>1 DEF SoleJob, Free, Has
<1>5. ASSUME NEW w \in WorkerIds,
             held[w] \in JobsOf(r), held'[w] = NoJob,
             \A v \in WorkerIds \ {w} : held'[v] = held[v]
      PROVE  SoleJob(r)'
  <2>1. \A v \in WorkerIds : held'[v] \notin JobsOf(r)
    BY <1>1, <1>5 DEF SoleJob
  <2>2. QED
    BY <1>2, <2>1 DEF SoleJob, Free, Has
<1>6. ASSUME NEW w \in WorkerIds, Has(r, queue), ~Has(r, queue'),
             \A v \in WorkerIds \ {w} : held'[v] = held[v]
      PROVE  SoleJob(r)'
  <2>1. \A v \in WorkerIds : held'[v] \in JobsOf(r) => v = w
    BY <1>1, <1>6 DEF SoleJob, Free
  <2>2. QED
    BY <1>2, <1>6, <2>1 DEF SoleJob, Has
<1>7. QED
  BY <1>3, <1>4, <1>5, <1>6, CalmLists

\* ... a worker that is past its last UPDATE does not come back to one, ...
LEMMA CalmDoing ==
    ASSUME CalmStep, NEW r \in Requests, NEW w \in WorkerIds,
           held[w] \in JobsOf(r), held'[w] = held[w], (Doing(w))'
    PROVE  Doing(w)
<1>1. held[w] \in Job /\ held[w] # NoJob /\ TypeInv /\ LimitInv
  BY Constants DEF JobsOf, Payload, CalmStep
<1>2. CASE WorkerStep(w)
  <2>1. pc[w] \notin AwayPc
    BY <1>1 DEF LimitInv, LimitOK
  <2>2. pc[w] = "confirm_row" => ConfirmRow(w)
    BY <1>2 DEF WorkerStep, Dequeue, PoisonStatus, MoveToDlqRemove, MoveToDlqPush, Broadcast,
           ExecuteFails, ExecuteFailsAsRevert, SubmitUserOp, ReceiptConfirmed, ReceiptReverted,
           ReceiptTimeout, ExecutionPanics, ConfirmStatus, RevertStatus, RunPc,
           FireWebhook, Ack, ReEnqueueAck, ReEnqueuePush, ExhaustPush, ExhaustStatus,
           SupervisorRecovers
  <2>3. QED
    BY <1>1, <1>2, <2>1, <2>2, HeldMoves DEF Doing, AnnouncedPc, DlqPc
<1>3. CASE ~WorkerStep(w)
  BY <1>1, <1>3, HolderStays DEF Doing, CalmStep
<1>4. QED
  BY <1>2, <1>3

\* ... and what writes the status is either the handler before the push or a
\* worker that has not finished.
LEMMA CalmWriters ==
    ASSUME CalmStep, NEW r \in Requests, status'[r] # status[r]
    PROVE  \/ call[r] = "mark_queued" /\ status'[r] = "queued"
           \/ /\ call[r] \in PreCall \ {"rejected"} /\ Absent(r)
              /\ UNCHANGED <<queue, held>>
              /\ status'[r] \in Terminal => RecordFailure(r)
           \/ \E w \in WorkerIds :
                 /\ held[w] \in JobsOf(r) /\ Doing(w)
                 /\ UNCHANGED <<queue, held>>
                 /\ status'[r] \in Terminal => ~Doing(w)'
<1> USE DEF CalmStep
<1>1. ASSUME NEW w \in WorkerIds,
             \/ PoisonStatus(w) \/ Broadcast(w) \/ ConfirmStatus(w)
             \/ RevertStatus(w) \/ ExhaustStatus(w)
      PROVE  /\ held[w] \in JobsOf(r) /\ Doing(w)
             /\ UNCHANGED <<queue, held>>
             /\ status'[r] \in Terminal => ~Doing(w)'
  <2>1. held[w] \in JobsOf(r)
    BY <1>1, StatusOf
  <2>2. UNCHANGED <<queue, held>>
    BY <1>1 DEF PoisonStatus, Broadcast, ConfirmStatus, RevertStatus, ExhaustStatus, Goto, queueVars
  <2>3. /\ pc[w] \in {"poison_status", "broadcast", "confirm_status", "revert_status", "exhaust_status"}
        /\ Broadcast(w) \/ pc'[w] \in {"notify", "confirm_row"}
    BY <1>1 DEF PoisonStatus, Broadcast, ConfirmStatus, RevertStatus, ExhaustStatus, Goto, TypeInv,
           TypeOK, WorkerTypeOK
  <2>4. Broadcast(w) => status'[r] \notin Terminal
    <3>1. ASSUME Broadcast(w)
          PROVE  status'[r] = "broadcasting"
      BY <2>1, <3>1 DEF Broadcast, UpdateExecutionStatus, JobsOf, TypeInv, TypeOK, StoreTypeOK
    <3>2. QED
      BY <3>1 DEF Terminal
  <2>5. QED
    BY <2>1, <2>2, <2>3, <2>4 DEF Doing, AwayPc, AnnouncedPc, DlqPc
<1>2. ASSUME NEW q \in Requests, InsertRequest(q) \/ RecordEstimate(q) \/ RecordFailure(q)
      PROVE  /\ q = r /\ call[r] \in PreCall \ {"rejected"}
             /\ UNCHANGED <<queue, held>>
             /\ status'[r] \in Terminal => RecordFailure(r)
  <2>1. q = r
    BY <1>2 DEF InsertRequest, RecordEstimate, RecordFailure, InsertExecutionRequest,
           UpdateExecutionStatus, TypeInv, TypeOK, StoreTypeOK
  <2>2. call[r] \in PreCall \ {"rejected"} /\ UNCHANGED <<queue, held>>
    BY <1>2, <2>1 DEF InsertRequest, RecordEstimate, RecordFailure, PreCall, queueVars, workerVars
  <2>3. RecordFailure(r) \/ status'[r] = "pending"
    BY <1>2, <2>1 DEF InsertRequest, RecordEstimate, RecordFailure, InsertExecutionRequest,
           UpdateExecutionStatus, TypeInv, TypeOK, StoreTypeOK
  <2>4. QED
    BY <2>1, <2>2, <2>3 DEF Terminal
<1>3. ASSUME NEW q \in Requests, MarkQueued(q)
      PROVE  call[r] = "mark_queued" /\ status'[r] = "queued"
  BY <1>3 DEF MarkQueued, UpdateExecutionStatus, TypeInv, TypeOK, StoreTypeOK
<1>4. call[r] \in PreCall => Absent(r)
  BY DEF FreshInv, Untouched
<1>5. QED
  BY <1>1, <1>2, <1>3, <1>4, Writers

LEMMA CalmSettled ==
    ASSUME CalmStep, NEW r \in Requests
    PROVE  Settled(r)'
<1>1. SoleJob(r) /\ Settled(r) /\ NoJob \notin JobsOf(r) /\ TypeInv /\ FreshInv
  BY Constants DEF CalmStep, JobsOf, Payload
<1>2. ASSUME status'[r] = status[r], status[r] \in Terminal
      PROVE  ~Has(r, queue') /\ \A w \in WorkerIds : held'[w] \in JobsOf(r) => ~Doing(w)'
  <2>1. ~Has(r, queue) /\ \A w \in WorkerIds : held[w] \in JobsOf(r) => ~Doing(w)
    BY <1>1, <1>2 DEF Settled
  <2>2. ~Enqueue(r)
    BY <1>1, <1>2 DEF Settled, Enqueue, PreCall
  <2>3. ASSUME NEW w \in WorkerIds, ReEnqueuePush(w), held[w] \in JobsOf(r)
        PROVE  FALSE
    BY <2>1, <2>3 DEF ReEnqueuePush, Doing, AwayPc, AnnouncedPc, DlqPc
  <2>4. ~Has(r, queue') /\ \A w \in WorkerIds : held'[w] \in JobsOf(r) => held'[w] = held[w]
    BY <2>1, <2>2, <2>3, CalmLists
  <2>5. QED
    BY <2>1, <2>4, CalmDoing
<1>3. ASSUME status'[r] # status[r], status'[r] \in Terminal
      PROVE  ~Has(r, queue') /\ \A w \in WorkerIds : held'[w] \in JobsOf(r) => ~Doing(w)'
  <2>1. CASE Absent(r) /\ UNCHANGED <<queue, held>>
    BY <2>1 DEF Absent, Has
  <2>2. ASSUME NEW w \in WorkerIds, held[w] \in JobsOf(r), UNCHANGED <<queue, held>>, ~Doing(w)'
        PROVE  ~Has(r, queue') /\ \A v \in WorkerIds : held'[v] \in JobsOf(r) => ~Doing(v)'
    BY <1>1, <2>2 DEF SoleJob, Free, Has
  <2>3. QED
    BY <1>3, <2>1, <2>2, CalmWriters DEF Terminal
<1>4. ASSUME call'[r] \in PreCall \ {"rejected"}
      PROVE  status'[r] \notin Terminal
  <2>1. call[r] \in PreCall \ {"rejected"}
    <3>1. CASE call'[r] = call[r]
      BY <1>4, <3>1
    <3>2. CASE call'[r] # call[r]
      <4>1. \E q \in Requests : HandlerStep(q) \/ HandlerDropped(q)
        BY <3>2 DEF CalmStep, Next, vars, WorkerPanics, ChainStep, Boot, BootRecovers, BootNext
      <4>2. PICK q \in Requests : HandlerStep(q) \/ HandlerDropped(q)
        BY <4>1
      <4>3. q = r
        BY <1>1, <3>2, <4>2 DEF HandlerStep, HandlerDropped, InsertRequest, Simulate, RecordFailure,
               RecordEstimate, Enqueue, MarkQueued, Proceed, TypeInv, TypeOK
      <4>4. QED
        BY <1>1, <1>4, <4>2, <4>3 DEF HandlerStep, HandlerDropped, InsertRequest, Simulate,
               RecordFailure, RecordEstimate, Enqueue, MarkQueued, Proceed, TypeInv, TypeOK, PreCall
    <3>3. QED
      BY <3>1, <3>2
  <2>2. status[r] \notin Terminal
    BY <1>1, <2>1 DEF Settled
  <2>3. ASSUME status'[r] # status[r], status'[r] \in Terminal
        PROVE  FALSE
    <3>1. RecordFailure(r)
      <4>1. \A w \in WorkerIds : held[w] \notin JobsOf(r)
        BY <1>1, <2>1 DEF FreshInv, Untouched, Absent
      <4>2. QED
        BY <2>1, <2>3, <4>1, CalmWriters DEF PreCall
    <3>2. call'[r] \in {"rejected", "error"}
      BY <3>1 DEF RecordFailure, Proceed, CalmStep, TypeInv, TypeOK
    <3>3. QED
      BY <1>4, <3>2 DEF PreCall
  <2>4. QED
    BY <2>2, <2>3
<1>5. QED
  BY <1>2, <1>3, <1>4 DEF Settled, Has
LEMMA CalmNoRecovery ==
    ASSUME CalmStep
    PROVE  (NoRecovery)'
<1> USE DEF CalmStep, TypeInv, TypeOK
<1>1. ASSUME NEW w \in WorkerIds
      PROVE  pc'[w] # "recovering"
  <2>1. ASSUME NEW v \in WorkerIds, WorkerStep(v)
        PROVE  pc'[w] # "recovering"
    <3>1. CASE v # w
      BY <2>1, <3>1, WorkerFrame DEF NoRecovery
    <3>2. CASE v = w
      <4>1. ~SupervisorRecovers(w)
        BY DEF NoRecovery, SupervisorRecovers
      <4>2. CASE Dequeue(w)
        BY <4>2, DequeueHand DEF NoRecovery, WorkerTypeOK, Payload
      <4>3. CASE FireWebhook(w)
        <5>1. Finish(w) \/ Goto(w, "ack") \/ Goto(w, "dlq_rem")
          BY <4>3 DEF FireWebhook
        <5>2. QED
          BY <5>1 DEF Finish, Goto, WorkerTypeOK
      <4>4. QED
        BY <2>1, <3>2, <4>1, <4>2, <4>3 DEF WorkerStep, PoisonStatus, MoveToDlqRemove, MoveToDlqPush, Broadcast,
           ExecuteFails, ExecuteFailsAsRevert, SubmitUserOp, ReceiptConfirmed, ReceiptReverted,
           ReceiptTimeout, ExecutionPanics, ConfirmStatus, ConfirmRow, RevertStatus,
           Ack, ReEnqueueAck, ReEnqueuePush, ExhaustPush, ExhaustStatus,
           Goto, Finish, WorkerTypeOK
    <3>3. QED
      BY <3>1, <3>2
  <2>2. ASSUME ~\E v \in WorkerIds : WorkerStep(v)
        PROVE  UNCHANGED pc \/ pc'[w] = "idle"
    BY <2>2 DEF Next, vars, ChainStep, Boot, BootRecovers, BootNext, HandlerStep, HandlerDropped,
           InsertRequest, Simulate, RecordFailure, RecordEstimate, Enqueue, MarkQueued, workerVars
  <2>3. QED
    BY <2>1, <2>2 DEF NoRecovery
<1>2. ASSUME phase' # "serving", NEW w \in WorkerIds
      PROVE  processing'[w] = <<>>
  <2>1. phase # "serving"
    BY <1>2 DEF Next, vars, processVars, ChainStep, Boot, BootRecovers, BootNext
  <2>2. /\ \A v \in WorkerIds : processing[v] = <<>> /\ pc[v] = "stopped"
    BY <2>1 DEF NoRecovery, LimitInv
  <2>3. ASSUME NEW v \in WorkerIds, WorkerStep(v)
        PROVE  FALSE
    BY <2>2, <2>3 DEF WorkerStep, Dequeue, PoisonStatus, MoveToDlqRemove, MoveToDlqPush, Broadcast,
           ExecuteFails, ExecuteFailsAsRevert, SubmitUserOp, ReceiptConfirmed, ReceiptReverted,
           ReceiptTimeout, ExecutionPanics, ConfirmStatus, ConfirmRow, RevertStatus, RunPc,
           FireWebhook, Ack, ReEnqueueAck, ReEnqueuePush, ExhaustPush, ExhaustStatus,
           SupervisorRecovers
  <2>4. ~BootRecovers
    <3>1. PICK v \in WorkerIds : v = bootWid
      OBVIOUS
    <3>2. QED
      BY <2>2, <3>1 DEF BootRecovers, RecoverOne
  <2>5. UNCHANGED processing
    BY <2>1, <2>3, <2>4 DEF Next, vars, ChainStep, Boot, BootNext, queueVars
  <2>6. QED
    BY <2>2, <2>5
<1>3. QED
  BY <1>1, <1>2 DEF NoRecovery, WorkerIds

LEMMA UndisturbedInvInit == Init => UndisturbedInv
<1> SUFFICES ASSUME Init
             PROVE  NoRecovery /\ \A r \in Requests : SoleJob(r) /\ Settled(r)
  BY DEF UndisturbedInv
<1>1. NoRecovery
  BY DEF Init, NoRecovery
<1>2. ASSUME NEW r \in Requests
      PROVE  SoleJob(r) /\ Settled(r)
  <2>1. \A w \in WorkerIds : held[w] \notin JobsOf(r)
    BY Constants DEF Init, JobsOf, Payload
  <2>2. status[r] \notin Terminal
    BY DEF Init, Terminal
  <2>3. Once(JobsOf(r), queue)
    <3>1. \A i, j \in BacklogOf(r) : i = j
      BY PipelineAssumption
    <3>2. BacklogOf(r) = {i \in DOMAIN Backlog : Backlog[i] \in JobsOf(r)}
      BY PipelineAssumption, PositionsAreJobs DEF BacklogOf
    <3>3. QED
      BY <3>1, <3>2 DEF Init, Once
  <2>4. QED
    BY <2>1, <2>2, <2>3 DEF SoleJob, Settled, Free
<1>3. QED
  BY <1>1, <1>2

LEMMA UndisturbedInvStep ==
    TypeInv /\ LimitInv /\ FreshInv /\ UndisturbedInv /\ [Next]_vars => UndisturbedInv'
<1> SUFFICES ASSUME TypeInv, LimitInv, FreshInv, UndisturbedInv, [Next]_vars, (Undisturbed)'
             PROVE  (NoRecovery)' /\ \A r \in Requests : SoleJob(r)' /\ Settled(r)'
  BY DEF UndisturbedInv
<1>1. CalmStep
  BY CalmSteps, TypeInvStep
<1>2. QED
  BY <1>1, CalmNoRecovery, CalmSoleJob, CalmSettled

\* A terminal status is overwritten by the handler's late UPDATE to Queued or
\* after a crash, a panic or a failed command, and by nothing else, for any
\* number of requests and workers, any limit on the attempts and any backlog
\* (services/mod.rs:519-522, worker/mod.rs:115-126).
THEOREM TerminalStatusLeftCorrect == Spec => TerminalStatusLeft
<1> DEFINE Inv == TypeInv /\ LimitInv /\ FreshInv /\ UndisturbedInv
           Left(r) == status[r] \in Terminal /\ status'[r] # status[r] =>
                         \/ call[r] = "mark_queued" /\ status'[r] = "queued"
                         \/ faults + Disturbances > 0
<1>1. Init => Inv
  BY TypeInvInit, LimitInvInit, FreshInvInit, UndisturbedInvInit
<1>2. Inv /\ [Next]_vars => Inv'
  BY TypeInvStep, LimitInvStep, FreshInvStep, UndisturbedInvStep
<1>3. Inv /\ [Next]_vars => [\A r \in Requests : Left(r)]_vars
  <2> SUFFICES ASSUME Inv, [Next]_vars, NEW r \in Requests,
                      status[r] \in Terminal, status'[r] # status[r]
               PROVE  \/ call[r] = "mark_queued" /\ status'[r] = "queued"
                      \/ faults + Disturbances > 0
    OBVIOUS
  <2>1. faults \in Nat /\ Disturbances \in Nat
    BY Constants, CostTypes DEF TypeInv, TypeOK, FaultsTypeOK
  <2>2. CASE ~Undisturbed
    BY <2>1, <2>2 DEF Undisturbed
  <2>3. CASE Undisturbed
    <3>1. Settled(r)
      BY <2>3 DEF UndisturbedInv
    <3>2. ~\E w \in WorkerIds : held[w] \in JobsOf(r) /\ Doing(w)
      BY <3>1 DEF Settled
    <3>3. call[r] \notin PreCall \ {"rejected"}
      BY <3>1 DEF Settled
    <3>4. ASSUME NEW w \in WorkerIds,
                 \/ PoisonStatus(w) \/ Broadcast(w) \/ ConfirmStatus(w)
                 \/ RevertStatus(w) \/ ExhaustStatus(w)
          PROVE  FALSE
      <4>1. held[w] \in JobsOf(r)
        BY <3>4, StatusOf
      <4>2. Doing(w)
        BY <3>4 DEF Doing, AwayPc, AnnouncedPc, DlqPc, PoisonStatus, Broadcast, ConfirmStatus,
               RevertStatus, ExhaustStatus
      <4>3. QED
        BY <3>2, <4>1, <4>2
    <3>5. ASSUME NEW q \in Requests, InsertRequest(q) \/ RecordEstimate(q) \/ RecordFailure(q)
          PROVE  FALSE
      <4>1. q = r
        BY <3>5 DEF InsertRequest, RecordEstimate, RecordFailure, InsertExecutionRequest,
               UpdateExecutionStatus, TypeInv, TypeOK, StoreTypeOK
      <4>2. QED
        BY <3>3, <3>5, <4>1 DEF InsertRequest, RecordEstimate, RecordFailure, PreCall
    <3>6. PICK q \in Requests : MarkQueued(q)
      BY <3>4, <3>5, Writers
    <3>7. QED
      BY <3>6 DEF MarkQueued, UpdateExecutionStatus, TypeInv, TypeOK, StoreTypeOK
  <2>4. QED
    BY <2>2, <2>3
<1> HIDE DEF Inv
<1>4. QED
  BY <1>1, <1>2, <1>3, PTL DEF Spec, TerminalStatusLeft, Left
=============================================================================
