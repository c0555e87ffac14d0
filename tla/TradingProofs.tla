---------------------------- MODULE TradingProofs ----------------------------
(***************************************************************************)
(* The theorems about TradingProtocols, and before them Balancer's         *)
(* batches: how many calls add liquidity depends on the tokens that are    *)
(* added (three before the router's call for each, two after it), so what  *)
(* such a batch does is proved by position in the lists it is made of.     *)
(***************************************************************************)
EXTENDS TradingLemmas

\* p has the elements of the N lists of b, and no other.
IsFlat(b, N, S, p) ==
    /\ p \in Seq(S)
    /\ \A j \in 1..Len(p) : \E i \in 1..N : \E m \in 1..Len(b[i]) : p[j] = b[i][m]
    /\ \A i \in 1..N : \A m \in 1..Len(b[i]) : \E j \in 1..Len(p) : p[j] = b[i][m]

\* The lists of b one after the other have the elements of all of them.
LEMMA Flattened ==
    ASSUME NEW S, NEW N \in Nat, N # 0, NEW b \in [1..N -> Seq(S)]
    PROVE  IsFlat(b, N, S, Balancer!FlattenSeq(b))
<1> DEFINE step == [n \in 1..N |-> [s \in Seq(S) |-> IF n = 1 THEN b[n] ELSE s \o b[n]]]
           Rec(f) == f = [i \in 1..Len(b) |-> IF i = 1 THEN b[i] ELSE f[i - 1] \o b[i]]
<1>1. \A n \in 1..N : b[n] \in Seq(S)
  OBVIOUS
<1>l. Len(b) = N
  OBVIOUS
<1>2. PICK g : BalancerRuns!Iterates(g, Seq(S), <<>>, N, step)
  <2>1. PICK U, base, st : U = Seq(S) /\ base = <<>> /\ st = step
    OBVIOUS
  <2>2. base \in U
    BY <2>1
  <2>3. st \in [1..N -> [U -> U]]
    <3>1. ASSUME NEW n \in 1..N, NEW s \in Seq(S)
          PROVE  (IF n = 1 THEN b[n] ELSE s \o b[n]) \in Seq(S)
      <4>1. PICK x : x = b[n] /\ x \in Seq(S)
        BY <1>1
      <4>2. s \o x \in Seq(S)
        BY <4>1
      <4>3. QED
        BY <4>1, <4>2
    <3>2. QED
      BY <2>1, <3>1
  <2>4. \E g : BalancerRuns!Iterates(g, U, base, N, st)
    BY <2>2, <2>3, BalancerRuns!IterationExists
  <2> HIDE DEF step
  <2>5. QED
    BY <2>1, <2>4
<1>3. \E f : Rec(f)
  <2>1. PICK f : f = [i \in 1..N |-> g[i]]
    OBVIOUS
  <2>2. ASSUME NEW i \in 1..N
        PROVE  f[i] = IF i = 1 THEN b[i] ELSE f[i - 1] \o b[i]
    <3>1. g[i] = step[i][g[i - 1]] /\ g[i - 1] \in Seq(S)
      <4>1. i - 1 \in 0..N
        OBVIOUS
      <4> HIDE DEF step
      <4>2. QED
        BY <1>2, <4>1 DEF BalancerRuns!Iterates
    <3>2. step[i][g[i - 1]] = IF i = 1 THEN b[i] ELSE g[i - 1] \o b[i]
      BY <3>1
    <3>3. i # 1 => i - 1 \in 1..N
      OBVIOUS
    <3>4. f[i] = g[i] /\ (i # 1 => f[i - 1] = g[i - 1])
      BY <2>1, <3>3
    <3> HIDE DEF step
    <3>5. QED
      BY <3>1, <3>2, <3>4
  <2>3. f = [i \in 1..N |-> f[i]]
    BY <2>1
  <2>4. f = [i \in 1..N |-> IF i = 1 THEN b[i] ELSE f[i - 1] \o b[i]]
    BY <2>2, <2>3
  <2>5. QED
    BY <1>l, <2>4
<1>4. PICK f : Rec(f) /\ Balancer!FlattenSeq(b) = f[Len(b)]
  <2> HIDE DEF step
  <2>1. Len(b) # 0
    BY <1>l
  <2>2. QED
    BY <1>3, <2>1 DEF Balancer!FlattenSeq
<1>5. \A i \in 1..N : f[i] = IF i = 1 THEN b[i] ELSE f[i - 1] \o b[i]
  BY <1>4, <1>l
<1> HIDE DEF Rec, step
<1> DEFINE Done(n) == /\ f[n] \in Seq(S)
                      /\ \A j \in 1..Len(f[n]) : \E i \in 1..n : \E m \in 1..Len(b[i]) : f[n][j] = b[i][m]
                      /\ \A i \in 1..n : \A m \in 1..Len(b[i]) : \E j \in 1..Len(f[n]) : f[n][j] = b[i][m]
           T == {n \in 0..N : n # 0 => Done(n)}
<1>6. 0 \in T
  OBVIOUS
<1>7. ASSUME NEW n \in 1..N, n - 1 \in T
      PROVE  n \in T
  <2>1. CASE n = 1
    <3>1. f[n] = b[n] /\ 1..n = {n} /\ n \in 0..N
      BY <1>5, <2>1
    <3>2. PICK t : t = b[n]
      OBVIOUS
    <3>3. t \in Seq(S) /\ f[n] = t
      BY <1>1, <3>1, <3>2
    <3>4. \A j \in 1..Len(t) : \E i \in 1..n : \E m \in 1..Len(b[i]) : t[j] = b[i][m]
      BY <3>1, <3>2
    <3>5. \A i \in 1..n : \A m \in 1..Len(b[i]) : \E j \in 1..Len(t) : t[j] = b[i][m]
      BY <3>1, <3>2
    <3>6. Done(n)
      BY <3>3, <3>4, <3>5
    <3>7. QED
      BY <3>1, <3>6
  <2>2. CASE n # 1
    <3>1. PICK s, t, u : s = f[n - 1] /\ t = b[n] /\ u = f[n]
      OBVIOUS
    <3>2. n - 1 # 0 /\ n - 1 \in 0..N /\ 1..n = 1..n - 1 \cup {n} /\ n \in 0..N
      BY <2>2
    <3>3. Done(n - 1)
      BY <1>7, <3>2
    <3>4. /\ u = s \o t /\ s \in Seq(S) /\ t \in Seq(S)
          /\ \A j \in 1..Len(s) : \E i \in 1..n - 1 : \E m \in 1..Len(b[i]) : s[j] = b[i][m]
          /\ \A i \in 1..n - 1 : \A m \in 1..Len(b[i]) : \E j \in 1..Len(s) : s[j] = b[i][m]
      BY <1>1, <1>5, <2>2, <3>1, <3>3
    <3>5. /\ u \in Seq(S) /\ Len(s) \in Nat /\ Len(t) \in Nat /\ Len(u) = Len(s) + Len(t)
          /\ \A i \in 1..Len(s) : u[i] = s[i]
          /\ \A i \in 1..Len(t) : u[Len(s) + i] = t[i]
      BY <3>4, Joined
    <3>6. ASSUME NEW j \in 1..Len(u)
          PROVE  \E i \in 1..n : \E m \in 1..Len(b[i]) : u[j] = b[i][m]
      <4>1. CASE j <= Len(s)
        <5>1. j \in 1..Len(s)
          BY <3>5, <4>1
        <5>2. PICK i \in 1..n - 1 : \E m \in 1..Len(b[i]) : s[j] = b[i][m]
          BY <3>4, <5>1
        <5>3. QED
          BY <3>2, <3>5, <5>1, <5>2
      <4>2. CASE ~(j <= Len(s))
        <5>1. j - Len(s) \in 1..Len(t) /\ Len(s) + (j - Len(s)) = j
          BY <3>5, <4>2
        <5>2. u[j] = b[n][j - Len(s)]
          BY <3>1, <3>5, <5>1
        <5>3. QED
          BY <3>1, <3>2, <5>1, <5>2
      <4>3. QED
        BY <4>1, <4>2
    <3>7. ASSUME NEW i \in 1..n, NEW m \in 1..Len(b[i])
          PROVE  \E j \in 1..Len(u) : u[j] = b[i][m]
      <4>1. CASE i = n
        <5>1. m \in 1..Len(t) /\ u[Len(s) + m] = t[m] /\ Len(s) + m \in 1..Len(u)
          BY <3>1, <3>5, <4>1
        <5>2. QED
          BY <3>1, <4>1, <5>1
      <4>2. CASE i # n
        <5>1. i \in 1..n - 1
          BY <3>2, <4>2
        <5>2. PICK j \in 1..Len(s) : s[j] = b[i][m]
          BY <3>4, <5>1
        <5>3. j \in 1..Len(u)
          BY <3>5
        <5>4. QED
          BY <3>5, <5>2, <5>3
      <4>3. QED
        BY <4>1, <4>2
    <3>8. Done(n)
      BY <3>1, <3>5, <3>6, <3>7
    <3>9. QED
      <4> HIDE DEF Done
      <4>1. n \in 0..N /\ Done(n)
        BY <3>2, <3>8
      <4>2. QED
        BY <4>1
  <2>3. QED
    BY <2>1, <2>2
<1>8. Done(N)
  <2> HIDE DEF T, Done
  <2>1. 0..N \subseteq T
    BY <1>6, <1>7, BalancerRuns!Upwards
  <2>2. N \in 0..N /\ N # 0
    OBVIOUS
  <2>3. N \in T
    BY <2>1, <2>2
  <2>4. QED
    BY <2>2, <2>3 DEF T
<1>9. Balancer!FlattenSeq(b) = f[N]
  BY <1>4, <1>l
<1>10. QED
  BY <1>8, <1>9 DEF IsFlat

\* The calls before and after the one that adds.
BalancerOpens(k, tk, amounts, deadline) ==
    \E i \in 1..Len(tk) : amounts[i] # 0 /\
       k \in {Balancer!Approve(tk[i], 0), Balancer!Approve(tk[i], amounts[i]),
              Balancer!Permit(tk[i], amounts[i], deadline)}
BalancerShuts(k, tk, amounts, deadline) ==
    \E i \in 1..Len(tk) : amounts[i] # 0 /\
       k \in {Balancer!Permit(tk[i], 0, deadline), Balancer!Approve(tk[i], 0)}

\* The blocks of the calls before and after it, one for each token.
BalancerBlocks(x, y, S, tk, amounts, deadline) ==
    /\ x \in [1..Len(tk) -> Seq(S)] /\ y \in [1..Len(tk) -> Seq(S)]
    /\ \A i \in 1..Len(tk) :
         /\ x[i] = IF amounts[i] = 0 THEN <<>>
                   ELSE <<Balancer!Approve(tk[i], 0), Balancer!Approve(tk[i], amounts[i]),
                          Balancer!Permit(tk[i], amounts[i], deadline)>>
         /\ y[i] = IF amounts[i] = 0 THEN <<>>
                   ELSE <<Balancer!Permit(tk[i], 0, deadline), Balancer!Approve(tk[i], 0)>>

\* What is known of them one after the other.
BalancerSides(p, q, S, tk, amounts, deadline) ==
    /\ p \in Seq(S) /\ q \in Seq(S)
    /\ \A j \in 1..Len(p) : BalancerOpens(p[j], tk, amounts, deadline)
    /\ \A j \in 1..Len(q) : BalancerShuts(q[j], tk, amounts, deadline)
    /\ \A i \in 1..Len(tk) : amounts[i] # 0 =>
         /\ \E j \in 1..Len(p) : p[j] = Balancer!Permit(tk[i], amounts[i], deadline)
         /\ \E j \in 1..Len(q) : q[j] = Balancer!Permit(tk[i], 0, deadline)
         /\ \E j \in 1..Len(q) : q[j] = Balancer!Approve(tk[i], 0)

LEMMA BalancerAddParts ==
    ASSUME NEW tk, NEW T, tk \in Seq(T), Len(tk) # 0, NEW amounts \in [1..Len(tk) -> Nat], NEW deadline,
           NEW opening, NEW closing, NEW S,
           \A i \in 1..Len(tk) : /\ Balancer!Approve(tk[i], 0) \in S /\ Balancer!Approve(tk[i], amounts[i]) \in S
                                 /\ Balancer!Permit(tk[i], amounts[i], deadline) \in S
                                 /\ Balancer!Permit(tk[i], 0, deadline) \in S,
           BalancerBlocks(opening, closing, S, tk, amounts, deadline)
    PROVE  BalancerSides(Balancer!FlattenSeq(opening), Balancer!FlattenSeq(closing), S, tk, amounts, deadline)
<1>b. /\ opening \in [1..Len(tk) -> Seq(S)] /\ closing \in [1..Len(tk) -> Seq(S)]
      /\ \A i \in 1..Len(tk) :
           /\ opening[i] = IF amounts[i] = 0 THEN <<>>
                           ELSE <<Balancer!Approve(tk[i], 0), Balancer!Approve(tk[i], amounts[i]),
                                  Balancer!Permit(tk[i], amounts[i], deadline)>>
           /\ closing[i] = IF amounts[i] = 0 THEN <<>>
                           ELSE <<Balancer!Permit(tk[i], 0, deadline), Balancer!Approve(tk[i], 0)>>
  BY DEF BalancerBlocks
<1>1. PICK N \in Nat : N = Len(tk) /\ N # 0 /\ DOMAIN tk = 1..N
  OBVIOUS
<1>2. ASSUME NEW i \in 1..N
      PROVE  /\ opening[i] \in Seq(S) /\ closing[i] \in Seq(S)
             /\ \A m \in 1..Len(opening[i]) : BalancerOpens(opening[i][m], tk, amounts, deadline)
             /\ \A m \in 1..Len(closing[i]) : BalancerShuts(closing[i][m], tk, amounts, deadline)
             /\ amounts[i] # 0 =>
                  /\ \E m \in 1..Len(opening[i]) : opening[i][m] = Balancer!Permit(tk[i], amounts[i], deadline)
                  /\ \E m \in 1..Len(closing[i]) : closing[i][m] = Balancer!Permit(tk[i], 0, deadline)
                  /\ \E m \in 1..Len(closing[i]) : closing[i][m] = Balancer!Approve(tk[i], 0)
  <2>1. PICK a, b, d, e, x, y : /\ a = Balancer!Approve(tk[i], 0) /\ b = Balancer!Approve(tk[i], amounts[i])
                                /\ d = Balancer!Permit(tk[i], amounts[i], deadline)
                                /\ e = Balancer!Permit(tk[i], 0, deadline)
                                /\ x = opening[i] /\ y = closing[i]
    OBVIOUS
  <2>2. a \in S /\ b \in S /\ d \in S /\ e \in S
    BY <1>1, <2>1
  <2>3. /\ x = IF amounts[i] = 0 THEN <<>> ELSE <<a, b, d>>
        /\ y = IF amounts[i] = 0 THEN <<>> ELSE <<e, a>>
    BY <1>b, <1>1, <2>1
  <2>4. CASE amounts[i] = 0
    <3>1. x \in Seq(S) /\ y \in Seq(S) /\ Len(x) = 0 /\ Len(y) = 0
      BY <2>3, <2>4
    <3>2. /\ \A m \in 1..Len(x) : BalancerOpens(x[m], tk, amounts, deadline)
          /\ \A m \in 1..Len(y) : BalancerShuts(y[m], tk, amounts, deadline)
      BY <3>1
    <3>3. QED
      BY <2>1, <2>4, <3>1, <3>2
  <2>5. CASE amounts[i] # 0
    <3>1. /\ x \in Seq(S) /\ Len(x) = 3 /\ x[1] = a /\ x[2] = b /\ x[3] = d
          /\ y \in Seq(S) /\ Len(y) = 2 /\ y[1] = e /\ y[2] = a
      BY <2>2, <2>3, <2>5
    <3>2. /\ \A m \in 1..3 : m \in {1, 2, 3}
          /\ \A m \in 1..2 : m \in {1, 2}
      OBVIOUS
    <3>3. /\ \A k \in {a, b, d} : BalancerOpens(k, tk, amounts, deadline)
          /\ \A k \in {e, a} : BalancerShuts(k, tk, amounts, deadline)
      BY <1>1, <2>1, <2>5 DEF BalancerOpens, BalancerShuts
    <3>4. /\ \A m \in 1..Len(x) : BalancerOpens(x[m], tk, amounts, deadline)
          /\ \A m \in 1..Len(y) : BalancerShuts(y[m], tk, amounts, deadline)
      BY <3>1, <3>2, <3>3
    <3>5. /\ \E m \in 1..Len(x) : x[m] = d
          /\ \E m \in 1..Len(y) : y[m] = e
          /\ \E m \in 1..Len(y) : y[m] = a
      BY <3>1
    <3>6. QED
      BY <2>1, <3>1, <3>4, <3>5
  <2>6. QED
    BY <2>4, <2>5
<1>3. opening \in [1..N -> Seq(S)] /\ closing \in [1..N -> Seq(S)]
  BY <1>b, <1>1
<1>4. PICK p, q, x, y : /\ p = Balancer!FlattenSeq(opening) /\ q = Balancer!FlattenSeq(closing)
                        /\ x = opening /\ y = closing
  OBVIOUS
<1>5. /\ p \in Seq(S)
      /\ \A j \in 1..Len(p) : \E i \in 1..N : \E m \in 1..Len(x[i]) : p[j] = x[i][m]
      /\ \A i \in 1..N : \A m \in 1..Len(x[i]) : \E j \in 1..Len(p) : p[j] = x[i][m]
  <2>1. IsFlat(opening, N, S, Balancer!FlattenSeq(opening))
    BY <1>1, <1>3, Flattened
  <2>2. QED
    BY <1>4, <2>1 DEF IsFlat
<1>6. /\ q \in Seq(S)
      /\ \A j \in 1..Len(q) : \E i \in 1..N : \E m \in 1..Len(y[i]) : q[j] = y[i][m]
      /\ \A i \in 1..N : \A m \in 1..Len(y[i]) : \E j \in 1..Len(q) : q[j] = y[i][m]
  <2>1. IsFlat(closing, N, S, Balancer!FlattenSeq(closing))
    BY <1>1, <1>3, Flattened
  <2>2. QED
    BY <1>4, <2>1 DEF IsFlat
<1>7. ASSUME NEW i \in 1..N
      PROVE  /\ \A m \in 1..Len(x[i]) : BalancerOpens(x[i][m], tk, amounts, deadline)
             /\ \A m \in 1..Len(y[i]) : BalancerShuts(y[i][m], tk, amounts, deadline)
             /\ amounts[i] # 0 =>
                  /\ \E m \in 1..Len(x[i]) : x[i][m] = Balancer!Permit(tk[i], amounts[i], deadline)
                  /\ \E m \in 1..Len(y[i]) : y[i][m] = Balancer!Permit(tk[i], 0, deadline)
                  /\ \E m \in 1..Len(y[i]) : y[i][m] = Balancer!Approve(tk[i], 0)
  BY <1>2, <1>4
<1>8. \A j \in 1..Len(p) : BalancerOpens(p[j], tk, amounts, deadline)
  BY <1>5, <1>7
<1>9. \A j \in 1..Len(q) : BalancerShuts(q[j], tk, amounts, deadline)
  BY <1>6, <1>7
<1>10. ASSUME NEW i \in 1..N, amounts[i] # 0
       PROVE  /\ \E j \in 1..Len(p) : p[j] = Balancer!Permit(tk[i], amounts[i], deadline)
              /\ \E j \in 1..Len(q) : q[j] = Balancer!Permit(tk[i], 0, deadline)
              /\ \E j \in 1..Len(q) : q[j] = Balancer!Approve(tk[i], 0)
  <2>1. PICK m \in 1..Len(x[i]) : x[i][m] = Balancer!Permit(tk[i], amounts[i], deadline)
    BY <1>7, <1>10
  <2>2. PICK n \in 1..Len(y[i]) : y[i][n] = Balancer!Permit(tk[i], 0, deadline)
    BY <1>7, <1>10
  <2>3. PICK o \in 1..Len(y[i]) : y[i][o] = Balancer!Approve(tk[i], 0)
    BY <1>7, <1>10
  <2>4. \E j \in 1..Len(p) : p[j] = x[i][m]
    BY <1>5
  <2>5. (\E j \in 1..Len(q) : q[j] = y[i][n]) /\ (\E j \in 1..Len(q) : q[j] = y[i][o])
    BY <1>6
  <2>6. QED
    BY <2>1, <2>2, <2>3, <2>4, <2>5
<1>11. QED
  BY <1>1, <1>4, <1>5, <1>6, <1>8, <1>9, <1>10 DEF BalancerSides

LEMMA BalancerGrants ==
    ASSUME NEW tokens, NEW c \in Balancer!States(tokens), NEW t, NEW n \in Int, NEW until \in Int
    PROVE  /\ Balancer!Call(c, Balancer!Approve(t, n)) \subseteq Balancer!States(tokens)
           /\ Balancer!Call(c, Balancer!Permit(t, n, until)) \subseteq Balancer!States(tokens)
<1>1. ASSUME NEW d \in Balancer!Call(c, Balancer!Approve(t, n))
      PROVE  d \in Balancer!States(tokens)
  BY <1>1, BalancerApprove DEF BalancerApproves, BalancerBecomes
<1>2. ASSUME NEW d \in Balancer!Call(c, Balancer!Permit(t, n, until))
      PROVE  d \in Balancer!States(tokens)
  BY <1>2, BalancerPermit DEF BalancerPermits, BalancerBecomes
<1>3. QED
  BY <1>1, <1>2

\* A batch whose calls keep the states of the chain.
BalancerStaysIn(calls, tokens) ==
    /\ Len(calls) \in Nat
    /\ \A i \in 1..Len(calls), c \in Balancer!States(tokens) :
         Balancer!Call(c, calls[i]) \subseteq Balancer!States(tokens)

LEMMA BalancerPaths ==
    ASSUME NEW tokens, NEW calls, BalancerStaysIn(calls, tokens), NEW c \in Balancer!States(tokens),
           NEW d \in BalancerRuns!Run(c, calls)
    PROVE  \E g : BalancerRuns!Path(g, c, calls, Balancer!States(tokens)) /\ g[Len(calls)] = d
<1>1. PICK S : S = Balancer!States(tokens)
  OBVIOUS
<1>2. Len(calls) \in Nat /\ \A i \in 1..Len(calls), e \in S : Balancer!Call(e, calls[i]) \subseteq S
  BY <1>1 DEF BalancerStaysIn
<1>3. \E g : BalancerRuns!Path(g, c, calls, S) /\ g[Len(calls)] = d
  BY <1>1, <1>2, BalancerRuns!RunPath
<1>4. QED
  BY <1>1, <1>3

\* The six calls of a swap.
LEMMA BalancerSwapCalls ==
    ASSUME NEW r, NEW p, NEW limit, NEW deadline
    PROVE  LET calls == Balancer!CompileSwap(r, p, limit, deadline)
               max == Balancer!MaxInput(r, limit)
           IN /\ Len(calls) = 6 /\ DOMAIN calls = 1..6
              /\ calls[1] = Balancer!Approve(r.token_in, 0) /\ calls[2] = Balancer!Approve(r.token_in, max)
              /\ calls[3] = Balancer!Permit(r.token_in, max, deadline)
              /\ calls[4] = Balancer!SwapSingleToken(r, p, limit, deadline)
              /\ calls[5] = Balancer!Permit(r.token_in, 0, deadline)
              /\ calls[6] = Balancer!Approve(r.token_in, 0)
BY DEF Balancer!CompileSwap, Balancer!PermitBatch

\* The call k of the router is the one r asked for, and it took effect.
BalancerRouted(tokens, c, d, r, k, limit, deadline) ==
    /\ BalancerExecutes(tokens, c, d, k)
    /\ k.kind = r.kind /\ k.amount = r.amount.whole /\ k.limit = limit /\ k.deadline = deadline
    /\ k.token_in = r.token_in /\ k.token_out = r.token_out

LEMMA BalancerAsked ==
    ASSUME NEW r \in BalancerRequests, Balancer!Valid(r), r.op = "swap"
    PROVE  /\ r.token_in \in Balancer!Tokens /\ r.token_out \in Balancer!Tokens /\ r.token_in # r.token_out
           /\ r.kind \in {"exact_in", "exact_out"}
<1>1. {r.token_in, r.token_out} \subseteq Balancer!Tokens /\ r.kind \in {"exact_in", "exact_out"}
  BY BalancerAssumption DEF Balancer!IsRequest
<1>2. Balancer!ValidSwap(r)
  BY DEF Balancer!Valid, Balancer!Swapping
<1>3. QED
  BY <1>1, <1>2 DEF Balancer!ValidSwap

LEMMA BalancerSwapCall ==
    ASSUME NEW r \in BalancerRequests, Balancer!Valid(r), r.op = "swap", NEW p, NEW limit, NEW deadline,
           BalancerTerms(r, p, limit, deadline),
           NEW k, k = Balancer!SwapSingleToken(r, p, limit, deadline),
           NEW tokens, NEW c \in Balancer!States(tokens), NEW d \in Balancer!Call(c, k)
    PROVE  BalancerRouted(tokens, c, d, r, k, limit, deadline)
<1>1. /\ k.fn = "swap" /\ k.pool = p /\ k.token_in = r.token_in /\ k.token_out = r.token_out
      /\ k.kind = r.kind /\ k.amount = Balancer!Amount(r) /\ k.limit = limit /\ k.deadline = deadline
      /\ k = [fn |-> k.fn, pool |-> k.pool, token_in |-> k.token_in, token_out |-> k.token_out,
              kind |-> k.kind, amount |-> k.amount, limit |-> k.limit, deadline |-> k.deadline]
  BY DEF Balancer!SwapSingleToken
<1>2. /\ r.token_in \in Balancer!Tokens /\ r.token_out \in Balancer!Tokens /\ r.token_in # r.token_out
      /\ r.kind \in {"exact_in", "exact_out"}
  BY BalancerAsked
<1>3. p \in Balancer!PoolNames /\ k.amount \in Int /\ k.limit \in Int /\ k.deadline \in Int
      /\ k.amount = r.amount.whole
  BY <1>1 DEF BalancerTerms
<1>4. BalancerExecutes(tokens, c, d, k)
  BY <1>1, <1>2, <1>3, BalancerExecute
<1>5. QED
  BY <1>1, <1>3, <1>4 DEF BalancerRouted

LEMMA BalancerSwapKept ==
    ASSUME NEW r \in BalancerRequests, Balancer!Valid(r), NEW tokens,
           NEW calls, BalancerCompiledSwap(calls, r)
    PROVE  BalancerStaysIn(calls, tokens)
<1>1. PICK p, limit, deadline :
        BalancerTerms(r, p, limit, deadline) /\ calls = Balancer!CompileSwap(r, p, limit, deadline)
  BY DEF BalancerCompiledSwap
<1>2. PICK k, max, t : /\ k = Balancer!SwapSingleToken(r, p, limit, deadline)
                       /\ max = Balancer!MaxInput(r, limit) /\ t = r.token_in
  OBVIOUS
<1>3. max \in Int /\ deadline \in Int /\ 0 \in Int
  BY <1>1, <1>2 DEF Balancer!MaxInput, BalancerTerms
<1>4. /\ Len(calls) = 6
      /\ calls[1] = Balancer!Approve(t, 0) /\ calls[2] = Balancer!Approve(t, max)
      /\ calls[3] = Balancer!Permit(t, max, deadline) /\ calls[4] = k
      /\ calls[5] = Balancer!Permit(t, 0, deadline) /\ calls[6] = Balancer!Approve(t, 0)
  BY <1>1, <1>2, BalancerSwapCalls
<1>5. ASSUME NEW c \in Balancer!States(tokens), NEW d \in Balancer!Call(c, k)
      PROVE  d \in Balancer!States(tokens)
  <2>1. BalancerRouted(tokens, c, d, r, k, limit, deadline)
    BY <1>1, <1>2, <1>5, BalancerSwapCall DEF BalancerCompiledSwap
  <2>2. QED
    BY <2>1 DEF BalancerRouted, BalancerExecutes
<1>6. ASSUME NEW i \in 1..6, NEW c \in Balancer!States(tokens)
      PROVE  Balancer!Call(c, calls[i]) \subseteq Balancer!States(tokens)
  <2>1. i \in {1, 2, 3, 4, 5, 6}
    OBVIOUS
  <2>2. \/ calls[i] = k
        \/ \E n \in Int : calls[i] \in {Balancer!Approve(t, n), Balancer!Permit(t, n, deadline)}
    BY <1>3, <1>4, <2>1
  <2>3. QED
    BY <1>3, <1>5, <2>2, BalancerGrants
<1>7. QED
  BY <1>4, <1>6 DEF BalancerStaysIn

\* The wallet's side of a swap that took effect, and what is left of its batch.
BalancerSwapped(c, d, r, limit, deadline) ==
    /\ c.now <= deadline
    /\ \E in, out \in Int :
         /\ d.balance[r.token_in] = c.balance[r.token_in] - in
         /\ d.balance[r.token_out] = c.balance[r.token_out] + out
         /\ IF r.kind = "exact_in" THEN in = r.amount.whole /\ out >= limit
            ELSE out = r.amount.whole /\ in <= limit
    /\ d.allowance[r.token_in] = 0 /\ d.permit[r.token_in].amount = 0

LEMMA BalancerSwapDoes ==
    ASSUME NEW r \in BalancerRequests, Balancer!Valid(r), r.op = "swap", NEW p, NEW limit, NEW deadline,
           BalancerTerms(r, p, limit, deadline), NEW calls,
           calls = Balancer!CompileSwap(r, p, limit, deadline),
           NEW tokens, NEW c \in Balancer!States(tokens), NEW d \in BalancerRuns!Run(c, calls)
    PROVE  BalancerSwapped(c, d, r, limit, deadline)
<1>1. PICK k, max, t, S : /\ k = Balancer!SwapSingleToken(r, p, limit, deadline)
                          /\ max = Balancer!MaxInput(r, limit) /\ t = r.token_in
                          /\ S = Balancer!States(tokens)
  OBVIOUS
<1>2. max \in Int /\ deadline \in Int /\ 0 \in Int /\ t \in BalancerCoins /\ t \in Balancer!Tokens
  BY <1>1, BalancerAsked DEF Balancer!MaxInput, BalancerTerms, BalancerCoins
<1>3. /\ Len(calls) = 6
      /\ calls[1] = Balancer!Approve(t, 0) /\ calls[2] = Balancer!Approve(t, max)
      /\ calls[3] = Balancer!Permit(t, max, deadline) /\ calls[4] = k
      /\ calls[5] = Balancer!Permit(t, 0, deadline) /\ calls[6] = Balancer!Approve(t, 0)
  BY <1>1, BalancerSwapCalls
<1>4. BalancerStaysIn(calls, tokens)
  <2>1. BalancerCompiledSwap(calls, r)
    BY DEF BalancerCompiledSwap
  <2>2. QED
    BY <2>1, BalancerSwapKept
<1>5. PICK g : BalancerRuns!Path(g, c, calls, S) /\ g[6] = d
  <2>1. \E g : BalancerRuns!Path(g, c, calls, Balancer!States(tokens)) /\ g[Len(calls)] = d
    BY <1>4, BalancerPaths
  <2>2. QED
    BY <1>1, <1>3, <2>1
<1>6. g \in [0..6 -> S] /\ g[0] = c /\ \A n \in 1..6 : g[n] \in Balancer!Call(g[n - 1], calls[n])
  BY <1>3, <1>5 DEF BalancerRuns!Path
<1>7. PICK s1, s2, s3, s4, s5 :
        /\ s1 \in S /\ s2 \in S /\ s3 \in S /\ s4 \in S /\ s5 \in S
        /\ s1 \in Balancer!Call(c, calls[1]) /\ s2 \in Balancer!Call(s1, calls[2])
        /\ s3 \in Balancer!Call(s2, calls[3]) /\ s4 \in Balancer!Call(s3, calls[4])
        /\ s5 \in Balancer!Call(s4, calls[5]) /\ d \in Balancer!Call(s5, calls[6])
  BY <1>5, <1>6
<1>8. BalancerApproves(tokens, c, s1, t, 0) /\ BalancerApproves(tokens, s1, s2, t, max)
  BY <1>1, <1>2, <1>3, <1>7, BalancerApprove
<1>9. BalancerPermits(tokens, s2, s3, t, max, deadline) /\ BalancerPermits(tokens, s4, s5, t, 0, deadline)
  BY <1>1, <1>2, <1>3, <1>7, BalancerPermit
<1>10. BalancerApproves(tokens, s5, d, t, 0)
  BY <1>1, <1>2, <1>3, <1>7, BalancerApprove
<1>11. BalancerRouted(tokens, s3, s4, r, k, limit, deadline)
  BY <1>1, <1>3, <1>7, BalancerSwapCall
<1>12. /\ s3.now = c.now /\ s3.balance = c.balance /\ d.balance = s4.balance
  BY <1>8, <1>9, <1>10 DEF BalancerApproves, BalancerPermits, BalancerBecomes
<1>13. d.allowance[t] = 0
  <2>1. s5.allowance \in [BalancerCoins -> Int]
    BY <1>1, <1>7, BalancerShape
  <2>2. d.allowance = [s5.allowance EXCEPT ![t] = 0]
    BY <1>10 DEF BalancerApproves, BalancerBecomes
  <2>3. QED
    BY <1>2, <2>1, <2>2
<1>14. d.permit[t].amount = 0
  <2>1. s4.permit \in [Balancer!Tokens -> Balancer!Permits]
    BY <1>1, <1>7, BalancerShape
  <2>2. d.permit = [s4.permit EXCEPT ![t] = [amount |-> 0, until |-> deadline]]
    BY <1>9, <1>10 DEF BalancerApproves, BalancerPermits, BalancerBecomes
  <2>3. QED
    BY <1>2, <2>1, <2>2
<1>15. QED
  BY <1>1, <1>11, <1>12, <1>13, <1>14 DEF BalancerRouted, BalancerExecutes, BalancerSwapped

\* Every permit of a swap's batch is of the token it pays with.
LEMMA BalancerSwapPermits ==
    ASSUME NEW r, NEW p, NEW limit, NEW deadline, NEW calls,
           calls = Balancer!CompileSwap(r, p, limit, deadline),
           NEW i \in DOMAIN calls, calls[i].fn = "permit"
    PROVE  calls[i].token = r.token_in
<1>1. PICK k, max, t : /\ k = Balancer!SwapSingleToken(r, p, limit, deadline)
                       /\ max = Balancer!MaxInput(r, limit) /\ t = r.token_in
  OBVIOUS
<1>2. /\ DOMAIN calls = 1..6
      /\ calls[1] = Balancer!Approve(t, 0) /\ calls[2] = Balancer!Approve(t, max)
      /\ calls[3] = Balancer!Permit(t, max, deadline) /\ calls[4] = k
      /\ calls[5] = Balancer!Permit(t, 0, deadline) /\ calls[6] = Balancer!Approve(t, 0)
  BY <1>1, BalancerSwapCalls
<1>3. i \in {1, 2, 3, 4, 5, 6} /\ k.fn = "swap"
  BY <1>1, <1>2 DEF Balancer!SwapSingleToken
<1>4. QED
  BY <1>1, <1>2, <1>3 DEF Balancer!Approve, Balancer!Permit

\* Removing liquidity.
LEMMA BalancerRemoveCalls ==
    ASSUME NEW r, NEW mins
    PROVE  LET calls == Balancer!CompileRemoveLiquidity(r, mins)
               n == Balancer!ParsePositive(r.bpt)
           IN /\ Len(calls) = 4
              /\ calls[1] = Balancer!Approve(r.pool, 0) /\ calls[2] = Balancer!Approve(r.pool, n)
              /\ calls[3] = Balancer!RemoveLiquidityProportional(r.pool, n, mins)
              /\ calls[4] = Balancer!Approve(r.pool, 0)
BY DEF Balancer!CompileRemoveLiquidity

LEMMA BalancerRemoveKept ==
    ASSUME NEW r, NEW tokens \in BalancerLists, NEW calls, BalancerCompiledRemove(calls, r)
    PROVE  BalancerStaysIn(calls, tokens) /\ Len(calls) = 4 /\ calls[4] = Balancer!Approve(r.pool, 0)
<1>1. PICK mins : calls = Balancer!CompileRemoveLiquidity(r, mins)
  BY DEF BalancerCompiledRemove
<1>2. PICK n, t : n = Balancer!ParsePositive(r.bpt) /\ t = r.pool /\ n \in Nat \ {0} /\ t \in Balancer!PoolNames
  BY DEF BalancerCompiledRemove
<1>3. /\ Len(calls) = 4
      /\ calls[1] = Balancer!Approve(t, 0) /\ calls[2] = Balancer!Approve(t, n)
      /\ calls[3] = Balancer!RemoveLiquidityProportional(t, n, mins) /\ calls[4] = Balancer!Approve(t, 0)
  BY <1>1, <1>2, BalancerRemoveCalls
<1>4. ASSUME NEW i \in 1..4, NEW c \in Balancer!States(tokens)
      PROVE  Balancer!Call(c, calls[i]) \subseteq Balancer!States(tokens)
  <2>1. i \in {1, 2, 3, 4} /\ 0 \in Int /\ n \in Int
    BY <1>2
  <2>2. CASE i = 3
    BY <1>2, <1>3, <2>2, BalancerRemove
  <2>3. CASE i # 3
    <3>1. \E m \in Int : calls[i] = Balancer!Approve(t, m)
      BY <1>3, <2>1, <2>3
    <3>2. QED
      BY <2>1, <3>1, BalancerGrants
  <2>4. QED
    BY <2>2, <2>3
<1>5. QED
  BY <1>2, <1>3, <1>4 DEF BalancerStaysIn

LEMMA BalancerRemoveDoes ==
    ASSUME NEW r, NEW tokens \in BalancerLists, NEW calls, BalancerCompiledRemove(calls, r),
           NEW c \in Balancer!States(tokens), NEW d \in BalancerRuns!Run(c, calls)
    PROVE  d.allowance[r.pool] = 0
<1>1. PICK S, t : S = Balancer!States(tokens) /\ t = r.pool
  OBVIOUS
<1>2. BalancerStaysIn(calls, tokens) /\ Len(calls) = 4 /\ calls[4] = Balancer!Approve(t, 0)
  BY <1>1, BalancerRemoveKept
<1>k. BalancerStaysIn(calls, tokens)
  BY <1>2
<1>3. PICK g : BalancerRuns!Path(g, c, calls, S) /\ g[4] = d
  <2>1. \E g : BalancerRuns!Path(g, c, calls, Balancer!States(tokens)) /\ g[Len(calls)] = d
    BY <1>k, BalancerPaths
  <2>2. QED
    BY <1>1, <1>2, <2>1
<1>4. g[3] \in S /\ d \in Balancer!Call(g[3], calls[4])
  BY <1>2, <1>3 DEF BalancerRuns!Path
<1>5. PICK b : b \in S /\ d \in Balancer!Call(b, Balancer!Approve(t, 0))
  BY <1>2, <1>4
<1>6. BalancerApproves(tokens, b, d, t, 0)
  BY <1>1, <1>5, BalancerApprove
<1>7. b.allowance \in [BalancerCoins -> Int] /\ t \in BalancerCoins
  BY <1>1, <1>5, BalancerShape DEF BalancerCompiledRemove, BalancerCoins
<1>8. d.allowance = [b.allowance EXCEPT ![t] = 0]
  BY <1>6 DEF BalancerApproves, BalancerBecomes
<1>9. QED
  BY <1>1, <1>7, <1>8

\* The batch that adds liquidity: M calls open what the call add needs, and K
\* close it again.
BalancerAddBatch(calls, tk, amounts, deadline, add, M, K) ==
    /\ M \in Nat /\ K \in Nat /\ Len(calls) = M + 1 + K /\ DOMAIN calls = 1..Len(calls)
    /\ calls[M + 1] = add
    /\ \A j \in 1..M : BalancerOpens(calls[j], tk, amounts, deadline)
    /\ \A j \in M + 2..M + 1 + K : BalancerShuts(calls[j], tk, amounts, deadline)
    /\ \A i \in 1..Len(tk) : amounts[i] # 0 =>
         /\ \E j \in 1..M : calls[j] = Balancer!Permit(tk[i], amounts[i], deadline)
         /\ \E j \in M + 2..M + 1 + K : calls[j] = Balancer!Permit(tk[i], 0, deadline)
         /\ \E j \in M + 2..M + 1 + K : calls[j] = Balancer!Approve(tk[i], 0)

LEMMA BalancerThree ==
    ASSUME NEW S, NEW p \in Seq(S), NEW q \in Seq(S), NEW add \in S, NEW calls,
           calls = p \o <<add>> \o q
    PROVE  /\ Len(p) \in Nat /\ Len(q) \in Nat /\ Len(calls) = Len(p) + 1 + Len(q)
           /\ DOMAIN calls = 1..Len(calls)
           /\ \A j \in 1..Len(p) : calls[j] = p[j]
           /\ calls[Len(p) + 1] = add
           /\ \A j \in 1..Len(q) : calls[Len(p) + 1 + j] = q[j]
<1>w. PICK w : w = <<add>>
  OBVIOUS
<1>1. w = <<add>> /\ w \in Seq(S) /\ Len(w) = 1 /\ w[1] = add
  BY <1>w
<1>2. /\ p \o w \in Seq(S) /\ Len(p) \in Nat /\ Len(p \o w) = Len(p) + Len(w)
      /\ \A i \in 1..Len(p) : (p \o w)[i] = p[i]
      /\ \A i \in 1..Len(w) : (p \o w)[Len(p) + i] = w[i]
  BY <1>1, Joined
<1>3. PICK u : u = p \o w
  OBVIOUS
<1>4. /\ u \in Seq(S) /\ Len(p) \in Nat /\ Len(u) = Len(p) + 1
      /\ \A i \in 1..Len(p) : u[i] = p[i]
      /\ u[Len(p) + 1] = add
  <2>1. 1 \in 1..Len(w)
    BY <1>1
  <2>2. u[Len(p) + 1] = w[1]
    BY <1>2, <1>3, <2>1
  <2>3. QED
    BY <1>1, <1>2, <1>3, <2>2
<1>u. u \in Seq(S)
  BY <1>4
<1>5. /\ u \o q \in Seq(S) /\ Len(u) \in Nat /\ Len(q) \in Nat /\ Len(u \o q) = Len(u) + Len(q)
      /\ \A i \in 1..Len(u) : (u \o q)[i] = u[i]
      /\ \A i \in 1..Len(q) : (u \o q)[Len(u) + i] = q[i]
  BY <1>u, Joined
<1>6. calls = u \o q
  BY <1>1, <1>3
<1>7. /\ Len(calls) = Len(u) + Len(q) /\ DOMAIN calls = 1..Len(calls)
      /\ \A i \in 1..Len(u) : calls[i] = u[i]
      /\ \A i \in 1..Len(q) : calls[Len(u) + i] = q[i]
  <2>1. calls \in Seq(S)
    BY <1>5, <1>6
  <2>2. DOMAIN calls = 1..Len(calls)
    BY <2>1
  <2>3. QED
    BY <1>5, <1>6, <2>2
<1>8. ASSUME NEW j \in 1..Len(p)
      PROVE  calls[j] = p[j]
  <2>1. j \in 1..Len(u)
    BY <1>4
  <2>2. QED
    BY <1>4, <1>7, <2>1
<1>9. calls[Len(p) + 1] = add
  <2>1. Len(p) + 1 \in 1..Len(u)
    BY <1>4
  <2>2. QED
    BY <1>4, <1>7, <2>1
<1>10. QED
  BY <1>4, <1>5, <1>7, <1>8, <1>9

LEMMA BalancerAddCalls ==
    ASSUME NEW T, NEW tk \in Seq(T), Len(tk) # 0, NEW amounts \in [1..Len(tk) -> Nat], NEW deadline,
           NEW r, NEW min, NEW calls,
           calls = Balancer!CompileAddLiquidity(r, tk, amounts, min, deadline)
    PROVE  \E M, K : BalancerAddBatch(calls, tk, amounts, deadline,
                                      Balancer!AddLiquidityUnbalanced(r.pool, amounts, min), M, K)
<1>1. PICK add : add = Balancer!AddLiquidityUnbalanced(r.pool, amounts, min)
  OBVIOUS
<1>2. DOMAIN tk = 1..Len(tk) /\ Len(tk) \in Nat
  OBVIOUS
<1>3. PICK S : /\ add \in S
               /\ \A i \in 1..Len(tk) : /\ Balancer!Approve(tk[i], 0) \in S /\ Balancer!Approve(tk[i], amounts[i]) \in S
                                        /\ Balancer!Permit(tk[i], amounts[i], deadline) \in S
                                        /\ Balancer!Permit(tk[i], 0, deadline) \in S
  <2> DEFINE X == {add} \cup {Balancer!Approve(tk[i], 0) : i \in 1..Len(tk)}
                   \cup {Balancer!Approve(tk[i], amounts[i]) : i \in 1..Len(tk)}
                   \cup {Balancer!Permit(tk[i], amounts[i], deadline) : i \in 1..Len(tk)}
                   \cup {Balancer!Permit(tk[i], 0, deadline) : i \in 1..Len(tk)}
  <2>1. /\ add \in X
        /\ \A i \in 1..Len(tk) : /\ Balancer!Approve(tk[i], 0) \in X /\ Balancer!Approve(tk[i], amounts[i]) \in X
                                 /\ Balancer!Permit(tk[i], amounts[i], deadline) \in X
                                 /\ Balancer!Permit(tk[i], 0, deadline) \in X
    OBVIOUS
  <2> HIDE DEF X
  <2>2. QED
    BY <2>1
<1>4. PICK opening, closing :
        /\ opening = [i \in DOMAIN tk |->
                        IF amounts[i] = 0 THEN <<>>
                        ELSE <<Balancer!Approve(tk[i], 0), Balancer!Approve(tk[i], amounts[i]),
                               Balancer!Permit(tk[i], amounts[i], deadline)>>]
        /\ closing = [i \in DOMAIN tk |->
                        IF amounts[i] = 0 THEN <<>>
                        ELSE <<Balancer!Permit(tk[i], 0, deadline), Balancer!Approve(tk[i], 0)>>]
  OBVIOUS
<1>5. calls = Balancer!FlattenSeq(opening) \o <<add>> \o Balancer!FlattenSeq(closing)
  BY <1>1, <1>4 DEF Balancer!CompileAddLiquidity
<1>6. \A i \in 1..Len(tk) :
        /\ opening[i] = IF amounts[i] = 0 THEN <<>>
                        ELSE <<Balancer!Approve(tk[i], 0), Balancer!Approve(tk[i], amounts[i]),
                               Balancer!Permit(tk[i], amounts[i], deadline)>>
        /\ closing[i] = IF amounts[i] = 0 THEN <<>>
                        ELSE <<Balancer!Permit(tk[i], 0, deadline), Balancer!Approve(tk[i], 0)>>
  BY <1>2, <1>4
<1>7. opening \in [1..Len(tk) -> Seq(S)] /\ closing \in [1..Len(tk) -> Seq(S)]
  <2>1. ASSUME NEW i \in 1..Len(tk)
        PROVE  opening[i] \in Seq(S) /\ closing[i] \in Seq(S)
    <3>1. PICK a, b, d, e : /\ a = Balancer!Approve(tk[i], 0) /\ b = Balancer!Approve(tk[i], amounts[i])
                            /\ d = Balancer!Permit(tk[i], amounts[i], deadline)
                            /\ e = Balancer!Permit(tk[i], 0, deadline)
      OBVIOUS
    <3>2. a \in S /\ b \in S /\ d \in S /\ e \in S
      BY <1>3, <3>1
    <3>3. /\ opening[i] = IF amounts[i] = 0 THEN <<>> ELSE <<a, b, d>>
          /\ closing[i] = IF amounts[i] = 0 THEN <<>> ELSE <<e, a>>
      BY <1>6, <3>1
    <3>4. QED
      BY <3>2, <3>3
  <2>2. opening = [i \in 1..Len(tk) |-> opening[i]] /\ closing = [i \in 1..Len(tk) |-> closing[i]]
    BY <1>2, <1>4
  <2>3. QED
    BY <2>1, <2>2
<1>8. BalancerBlocks(opening, closing, S, tk, amounts, deadline)
  BY <1>6, <1>7, Zenon DEF BalancerBlocks
<1>9. BalancerSides(Balancer!FlattenSeq(opening), Balancer!FlattenSeq(closing), S, tk, amounts, deadline)
  BY <1>3, <1>8, BalancerAddParts
<1>p. PICK p, q : p = Balancer!FlattenSeq(opening) /\ q = Balancer!FlattenSeq(closing)
  OBVIOUS
<1>s. BalancerSides(p, q, S, tk, amounts, deadline)
  BY <1>9, <1>p
<1>10. /\ p \in Seq(S) /\ q \in Seq(S)
       /\ \A j \in 1..Len(p) : BalancerOpens(p[j], tk, amounts, deadline)
       /\ \A j \in 1..Len(q) : BalancerShuts(q[j], tk, amounts, deadline)
       /\ \A i \in 1..Len(tk) : amounts[i] # 0 =>
            /\ \E j \in 1..Len(p) : p[j] = Balancer!Permit(tk[i], amounts[i], deadline)
            /\ \E j \in 1..Len(q) : q[j] = Balancer!Permit(tk[i], 0, deadline)
            /\ \E j \in 1..Len(q) : q[j] = Balancer!Approve(tk[i], 0)
  BY <1>s DEF BalancerSides
<1>11. calls = p \o <<add>> \o q
  BY <1>5, <1>p
<1>12. PICK M, K : M = Len(p) /\ K = Len(q)
  OBVIOUS
<1>13. /\ M \in Nat /\ K \in Nat /\ Len(calls) = M + 1 + K /\ DOMAIN calls = 1..Len(calls)
       /\ \A j \in 1..M : calls[j] = p[j]
       /\ calls[M + 1] = add
       /\ \A j \in 1..K : calls[M + 1 + j] = q[j]
  <2>1. add \in S
    BY <1>3
  <2>2. /\ Len(p) \in Nat /\ Len(q) \in Nat /\ Len(calls) = Len(p) + 1 + Len(q)
        /\ DOMAIN calls = 1..Len(calls)
        /\ \A j \in 1..Len(p) : calls[j] = p[j]
        /\ calls[Len(p) + 1] = add
        /\ \A j \in 1..Len(q) : calls[Len(p) + 1 + j] = q[j]
    BY <1>10, <1>11, <2>1, BalancerThree
  <2>3. QED
    BY <1>12, <2>2
<1>14. \A j \in 1..M : BalancerOpens(calls[j], tk, amounts, deadline)
  BY <1>10, <1>12, <1>13
<1>15. ASSUME NEW j \in M + 2..M + 1 + K
       PROVE  BalancerShuts(calls[j], tk, amounts, deadline)
  <2>1. PICK m : m = j - (M + 1)
    OBVIOUS
  <2>2. m \in 1..K /\ M + 1 + m = j
    BY <1>13, <2>1
  <2>3. calls[j] = q[m]
    BY <1>13, <2>2
  <2>4. QED
    BY <1>10, <1>12, <2>2, <2>3
<1>16. ASSUME NEW i \in 1..Len(tk), amounts[i] # 0
       PROVE  /\ \E j \in 1..M : calls[j] = Balancer!Permit(tk[i], amounts[i], deadline)
              /\ \E j \in M + 2..M + 1 + K : calls[j] = Balancer!Permit(tk[i], 0, deadline)
              /\ \E j \in M + 2..M + 1 + K : calls[j] = Balancer!Approve(tk[i], 0)
  <2>1. PICK a, b, e : /\ a = Balancer!Permit(tk[i], amounts[i], deadline)
                       /\ b = Balancer!Permit(tk[i], 0, deadline) /\ e = Balancer!Approve(tk[i], 0)
    OBVIOUS
  <2>2. /\ \E j \in 1..M : p[j] = a
        /\ \E j \in 1..K : q[j] = b
        /\ \E j \in 1..K : q[j] = e
    BY <1>10, <1>12, <1>16, <2>1
  <2>3. \A j \in 1..K : M + 1 + j \in M + 2..M + 1 + K
    BY <1>13
  <2>4. QED
    BY <1>13, <2>1, <2>2, <2>3
<1>17. BalancerAddBatch(calls, tk, amounts, deadline, add, M, K)
  BY <1>13, <1>14, <1>15, <1>16 DEF BalancerAddBatch
<1>18. QED
  BY <1>1, <1>17

\* What an approval and a permit change, by the token.
BalancerGave(c, d, t, n) ==
    /\ d.now = c.now /\ d.permit = c.permit /\ d.allowance[t] = n
    /\ \A u \in Balancer!Tokens : u # t => d.allowance[u] = c.allowance[u]
BalancerPermitted(c, d, t, n, until) ==
    /\ d.now = c.now /\ d.allowance = c.allowance
    /\ d.permit[t].amount = n /\ d.permit[t].until = until
    /\ \A u \in Balancer!Tokens : u # t => d.permit[u] = c.permit[u]

LEMMA BalancerGiving ==
    ASSUME NEW tokens, NEW c \in Balancer!States(tokens), NEW t \in Balancer!Tokens, NEW n \in Int,
           NEW d \in Balancer!Call(c, Balancer!Approve(t, n))
    PROVE  BalancerGave(c, d, t, n)
<1>1. BalancerApproves(tokens, c, d, t, n)
  BY BalancerApprove
<1>2. /\ d.now = c.now /\ d.permit = c.permit /\ d.allowance = [c.allowance EXCEPT ![t] = n]
  BY <1>1 DEF BalancerApproves, BalancerBecomes
<1>3. PICK K, T : K = BalancerCoins /\ T = Balancer!Tokens /\ T \subseteq K /\ c.allowance \in [K -> Int]
  BY BalancerShape DEF BalancerCoins
<1>4. /\ d.allowance[t] = n
      /\ \A u \in T : u # t => d.allowance[u] = c.allowance[u]
  BY <1>2, <1>3
<1>5. QED
  BY <1>2, <1>3, <1>4 DEF BalancerGave

LEMMA BalancerPermitting ==
    ASSUME NEW tokens, NEW c \in Balancer!States(tokens), NEW t \in Balancer!Tokens, NEW n \in Int,
           NEW until \in Int, NEW d \in Balancer!Call(c, Balancer!Permit(t, n, until))
    PROVE  BalancerPermitted(c, d, t, n, until)
<1>1. BalancerPermits(tokens, c, d, t, n, until)
  BY BalancerPermit
<1>2. PICK one : one = [amount |-> n, until |-> until]
  OBVIOUS
<1>3. /\ d.now = c.now /\ d.allowance = c.allowance /\ d.permit = [c.permit EXCEPT ![t] = one]
  BY <1>1, <1>2 DEF BalancerPermits, BalancerBecomes
<1>4. PICK K, P : K = Balancer!Tokens /\ P = Balancer!Permits /\ c.permit \in [K -> P]
  BY BalancerShape
<1>5. /\ d.permit[t] = one
      /\ \A u \in K : u # t => d.permit[u] = c.permit[u]
  BY <1>3, <1>4
<1>6. one.amount = n /\ one.until = until
  BY <1>2
<1>7. QED
  BY <1>3, <1>4, <1>5, <1>6 DEF BalancerPermitted

\* The tokens and amounts of an addition, of the pool the tokens are of.
BalancerParts(tk, amounts, deadline, tokens, pool) ==
    /\ tokens \in BalancerLists /\ pool \in Balancer!PoolNames /\ tk = tokens[pool]
    /\ amounts \in [1..Len(tk) -> Nat] /\ deadline \in Int
    /\ \E i \in 1..Len(tk) : amounts[i] # 0

LEMMA BalancerPartsAre ==
    ASSUME NEW tk, NEW amounts, NEW deadline, NEW tokens, NEW pool,
           BalancerParts(tk, amounts, deadline, tokens, pool)
    PROVE  /\ tk \in Seq(Balancer!Tokens) /\ Len(tk) \in Nat /\ Len(tk) # 0
           /\ \A i \in 1..Len(tk) : tk[i] \in Balancer!Tokens /\ amounts[i] \in Nat
<1>1. PICK T : T = Balancer!Tokens /\ tk \in Seq(T)
  BY DEF BalancerParts, BalancerLists
<1>2. Len(tk) \in Nat /\ \A i \in 1..Len(tk) : tk[i] \in T
  BY <1>1
<1>3. QED
  BY <1>1, <1>2 DEF BalancerParts

\* The calls around the one that adds, as approvals and permits.
LEMMA BalancerAround ==
    ASSUME NEW tk, NEW amounts, NEW deadline, NEW tokens, NEW pool,
           BalancerParts(tk, amounts, deadline, tokens, pool), NEW k
    PROVE  /\ BalancerOpens(k, tk, amounts, deadline) =>
                \E t \in Balancer!Tokens, n \in Nat :
                   k \in {Balancer!Approve(t, n), Balancer!Permit(t, n, deadline)}
           /\ BalancerShuts(k, tk, amounts, deadline) =>
                \E t \in Balancer!Tokens : k \in {Balancer!Approve(t, 0), Balancer!Permit(t, 0, deadline)}
<1>1. 0 \in Nat /\ \A i \in 1..Len(tk) : tk[i] \in Balancer!Tokens /\ amounts[i] \in Nat
  BY BalancerPartsAre
<1>2. ASSUME BalancerOpens(k, tk, amounts, deadline)
      PROVE  \E t \in Balancer!Tokens, n \in Nat :
                k \in {Balancer!Approve(t, n), Balancer!Permit(t, n, deadline)}
  <2>1. PICK i \in 1..Len(tk) :
          k \in {Balancer!Approve(tk[i], 0), Balancer!Approve(tk[i], amounts[i]),
                 Balancer!Permit(tk[i], amounts[i], deadline)}
    BY <1>2 DEF BalancerOpens
  <2>2. QED
    BY <1>1, <2>1
<1>3. ASSUME BalancerShuts(k, tk, amounts, deadline)
      PROVE  \E t \in Balancer!Tokens : k \in {Balancer!Approve(t, 0), Balancer!Permit(t, 0, deadline)}
  <2>1. PICK i \in 1..Len(tk) : k \in {Balancer!Permit(tk[i], 0, deadline), Balancer!Approve(tk[i], 0)}
    BY <1>3 DEF BalancerShuts
  <2>2. QED
    BY <1>1, <2>1
<1>4. QED
  BY <1>2, <1>3

LEMMA BalancerAddKept ==
    ASSUME NEW tk, NEW amounts, NEW deadline, NEW tokens, NEW pool, NEW min,
           BalancerParts(tk, amounts, deadline, tokens, pool), NEW calls, NEW M, NEW K,
           BalancerAddBatch(calls, tk, amounts, deadline,
                            Balancer!AddLiquidityUnbalanced(pool, amounts, min), M, K)
    PROVE  BalancerStaysIn(calls, tokens)
<1>1. PICK add : add = Balancer!AddLiquidityUnbalanced(pool, amounts, min)
  OBVIOUS
<1>2. /\ M \in Nat /\ K \in Nat /\ Len(calls) = M + 1 + K /\ calls[M + 1] = add
      /\ \A j \in 1..M : BalancerOpens(calls[j], tk, amounts, deadline)
      /\ \A j \in M + 2..M + 1 + K : BalancerShuts(calls[j], tk, amounts, deadline)
  BY <1>1 DEF BalancerAddBatch
<1>3. ASSUME NEW i \in 1..Len(calls), NEW c \in Balancer!States(tokens)
      PROVE  Balancer!Call(c, calls[i]) \subseteq Balancer!States(tokens)
  <2>1. CASE i = M + 1
    <3>1. tokens \in BalancerLists /\ pool \in Balancer!PoolNames /\ tk = tokens[pool]
          /\ amounts \in [1..Len(tk) -> Nat]
      BY DEF BalancerParts
    <3>2. ASSUME NEW d \in Balancer!Call(c, add)
          PROVE  d \in Balancer!States(tokens)
      <4>1. BalancerPours(tokens, c, d, tk, amounts)
        BY <1>1, <3>1, <3>2, BalancerAdd
      <4>2. QED
        BY <4>1 DEF BalancerPours
    <3>3. QED
      BY <1>2, <2>1, <3>2
  <2>2. CASE i # M + 1
    <3>1. i \in 1..M \/ i \in M + 2..M + 1 + K
      BY <1>2, <2>2
    <3>2. \E t \in Balancer!Tokens, n \in Nat :
             calls[i] \in {Balancer!Approve(t, n), Balancer!Permit(t, n, deadline)}
      BY <1>2, <3>1, BalancerAround
    <3>3. deadline \in Int
      BY DEF BalancerParts
    <3>4. PICK t \in Balancer!Tokens, n \in Nat :
             calls[i] \in {Balancer!Approve(t, n), Balancer!Permit(t, n, deadline)}
      BY <3>2
    <3>5. n \in Int
      OBVIOUS
    <3>6. QED
      BY <3>3, <3>4, <3>5, BalancerGrants
  <2>3. QED
    BY <2>1, <2>2
<1>4. QED
  BY <1>2, <1>3 DEF BalancerStaysIn

\* What a batch that adds liquidity does: it is in time, and leaves nothing open.
BalancerAdded(c, d, tk, amounts, deadline) ==
    /\ c.now <= deadline
    /\ \A i \in 1..Len(tk) : amounts[i] # 0 => d.allowance[tk[i]] = 0 /\ d.permit[tk[i]].amount = 0

LEMMA BalancerAddDoes ==
    ASSUME NEW tk, NEW amounts, NEW deadline, NEW tokens, NEW pool, NEW min,
           BalancerParts(tk, amounts, deadline, tokens, pool), NEW calls, NEW M, NEW K,
           BalancerAddBatch(calls, tk, amounts, deadline,
                            Balancer!AddLiquidityUnbalanced(pool, amounts, min), M, K),
           NEW c \in Balancer!States(tokens), NEW d \in BalancerRuns!Run(c, calls)
    PROVE  BalancerAdded(c, d, tk, amounts, deadline)
<1>1. PICK add, S, N : /\ add = Balancer!AddLiquidityUnbalanced(pool, amounts, min)
                       /\ S = Balancer!States(tokens) /\ N = Len(calls)
  OBVIOUS
<1>2. /\ M \in Nat /\ K \in Nat /\ N = M + 1 + K /\ calls[M + 1] = add
      /\ \A j \in 1..M : BalancerOpens(calls[j], tk, amounts, deadline)
      /\ \A j \in M + 2..M + 1 + K : BalancerShuts(calls[j], tk, amounts, deadline)
      /\ \A i \in 1..Len(tk) : amounts[i] # 0 =>
           /\ \E j \in 1..M : calls[j] = Balancer!Permit(tk[i], amounts[i], deadline)
           /\ \E j \in M + 2..M + 1 + K : calls[j] = Balancer!Permit(tk[i], 0, deadline)
           /\ \E j \in M + 2..M + 1 + K : calls[j] = Balancer!Approve(tk[i], 0)
  BY <1>1 DEF BalancerAddBatch
<1>3. /\ deadline \in Int /\ 0 \in Int
      /\ \A i \in 1..Len(tk) : tk[i] \in Balancer!Tokens /\ amounts[i] \in Int
  <2>1. \A i \in 1..Len(tk) : tk[i] \in Balancer!Tokens /\ amounts[i] \in Nat
    BY BalancerPartsAre
  <2>2. deadline \in Int
    BY DEF BalancerParts
  <2>3. QED
    BY <2>1, <2>2
<1>4. BalancerStaysIn(calls, tokens)
  BY BalancerAddKept
<1>5. PICK g : BalancerRuns!Path(g, c, calls, S) /\ g[N] = d
  <2>1. \E g : BalancerRuns!Path(g, c, calls, Balancer!States(tokens)) /\ g[Len(calls)] = d
    BY <1>4, BalancerPaths
  <2>2. QED
    BY <1>1, <2>1
<1>6. /\ g \in [0..N -> S] /\ g[0] = c /\ g[N] = d
      /\ \A n \in 1..N : g[n] \in Balancer!Call(g[n - 1], calls[n])
  BY <1>1, <1>5 DEF BalancerRuns!Path
\* What an approval and a permit of a token among the pool's do.
<1>7. ASSUME NEW x \in S, NEW y, NEW t \in Balancer!Tokens, NEW n \in Int
      PROVE  /\ y \in Balancer!Call(x, Balancer!Approve(t, n)) => BalancerGave(x, y, t, n)
             /\ y \in Balancer!Call(x, Balancer!Permit(t, n, deadline)) => BalancerPermitted(x, y, t, n, deadline)
  BY <1>1, <1>3, BalancerGiving, BalancerPermitting
\* Before the addition nothing passes, and what is permitted lasts as long.
<1>8. ASSUME NEW i \in 1..M, NEW x \in S, NEW y \in Balancer!Call(x, calls[i])
      PROVE  /\ y.now = x.now
             /\ \A u \in Balancer!Tokens : x.permit[u].until = deadline => y.permit[u].until = deadline
  <2>1. PICK t \in Balancer!Tokens, n \in Nat :
          calls[i] \in {Balancer!Approve(t, n), Balancer!Permit(t, n, deadline)}
    <3>1. BalancerOpens(calls[i], tk, amounts, deadline)
      BY <1>2
    <3>2. QED
      BY <3>1, BalancerAround
  <2>2. BalancerGave(x, y, t, n) \/ BalancerPermitted(x, y, t, n, deadline)
    <3>1. n \in Int
      OBVIOUS
    <3>2. QED
      BY <1>7, <2>1, <3>1
  <2>3. QED
    BY <2>2 DEF BalancerGave, BalancerPermitted
\* After it nothing is granted again.
<1>9. ASSUME NEW i \in M + 2..N, NEW x \in S, NEW y \in Balancer!Call(x, calls[i])
      PROVE  \A u \in Balancer!Tokens :
                /\ x.permit[u].amount = 0 => y.permit[u].amount = 0
                /\ x.allowance[u] = 0 => y.allowance[u] = 0
  <2>1. PICK t \in Balancer!Tokens :
          calls[i] \in {Balancer!Approve(t, 0), Balancer!Permit(t, 0, deadline)}
    <3>1. BalancerShuts(calls[i], tk, amounts, deadline)
      BY <1>2
    <3>2. QED
      BY <3>1, BalancerAround
  <2>2. BalancerGave(x, y, t, 0) \/ BalancerPermitted(x, y, t, 0, deadline)
    BY <1>3, <1>7, <2>1
  <2>3. QED
    BY <2>2 DEF BalancerGave, BalancerPermitted
\* From the p-th state to the q-th a path stays in a set the calls keep.
<1>k. ASSUME NEW A, NEW p \in 0..N, NEW q \in p..N, g[p] \in A,
             \A i \in p + 1..q : \A x \in S, y \in S :
                x \in A /\ y \in Balancer!Call(x, calls[i]) => y \in A
      PROVE  g[q] \in A
  <2>1. BalancerRuns!Keeps(A, calls, p, q, S)
    BY <1>k DEF BalancerRuns!Keeps
  <2>2. Len(calls) \in Nat /\ p \in 0..Len(calls) /\ q \in p..Len(calls)
    BY <1>1, <1>2
  <2>3. BalancerRuns!Path(g, c, calls, S)
    BY <1>5
  <2>4. g[p] \in A
    BY <1>k
  <2>5. QED
    BY <2>1, <2>2, <2>3, <2>4, BalancerRuns!PathKeeps
<1>10. g[M].now = c.now
  <2>1. PICK A : A = {x \in S : x.now = c.now}
    OBVIOUS
  <2>2. g[0] \in A /\ 0 \in 0..N /\ M \in 0..N
    BY <1>1, <1>2, <1>6, <2>1
  <2>3. \A i \in 0 + 1..M : \A x \in S, y \in S : x \in A /\ y \in Balancer!Call(x, calls[i]) => y \in A
    BY <1>2, <1>8, <2>1
  <2>4. g[M] \in A
    BY <1>k, <2>2, <2>3
  <2>5. QED
    BY <2>1, <2>4
<1>11. ASSUME NEW i \in 1..Len(tk), amounts[i] # 0
       PROVE  c.now <= deadline
  <2>1. PICK j \in 1..M : calls[j] = Balancer!Permit(tk[i], amounts[i], deadline)
    BY <1>2, <1>11
  <2>2. PICK t \in Balancer!Tokens : t = tk[i]
    BY <1>3
  <2>3. j \in 1..N /\ j \in 0..N /\ j - 1 \in 0..N /\ M \in j..N /\ M \in 0..N /\ M + 1 \in 1..N /\ M + 1 \in 0..N
        /\ (M + 1) - 1 = M
    BY <1>2
  <2>4. BalancerPermitted(g[j - 1], g[j], t, amounts[i], deadline)
    BY <1>3, <1>6, <1>7, <2>1, <2>2, <2>3
  <2>5. PICK A : A = {x \in S : x.permit[t].until = deadline}
    OBVIOUS
  <2>6. g[j] \in A
    BY <1>6, <2>3, <2>4, <2>5 DEF BalancerPermitted
  <2>7. \A l \in j + 1..M : \A x \in S, y \in S : x \in A /\ y \in Balancer!Call(x, calls[l]) => y \in A
    <3>1. \A l \in j + 1..M : l \in 1..M
      BY <1>2
    <3>2. QED
      BY <1>8, <2>2, <2>5, <3>1
  <2>8. g[M] \in A
    BY <1>k, <2>3, <2>6, <2>7
  <2>9. PICK b, e : b = g[M] /\ e = g[M + 1]
    OBVIOUS
  <2>10. b \in S /\ e \in Balancer!Call(b, add)
    BY <1>2, <1>6, <2>3, <2>9
  <2>11. BalancerPours(tokens, b, e, tk, amounts)
    <3>1. tokens \in BalancerLists /\ pool \in Balancer!PoolNames /\ tk = tokens[pool]
          /\ amounts \in [1..Len(tk) -> Nat]
      BY DEF BalancerParts
    <3>2. QED
      BY <1>1, <2>10, <3>1, BalancerAdd
  <2>12. b.now <= b.permit[tk[i]].until
    BY <1>11, <2>11 DEF BalancerPours
  <2>13. QED
    BY <1>10, <2>2, <2>5, <2>8, <2>9, <2>12
<1>12. ASSUME NEW i \in 1..Len(tk), amounts[i] # 0
       PROVE  d.permit[tk[i]].amount = 0
  <2>1. PICK j \in M + 2..M + 1 + K : calls[j] = Balancer!Permit(tk[i], 0, deadline)
    BY <1>2, <1>12
  <2>2. PICK t \in Balancer!Tokens : t = tk[i]
    BY <1>3
  <2>3. j \in 1..N /\ j \in 0..N /\ j - 1 \in 0..N /\ N \in j..N
    BY <1>2
  <2>4. BalancerPermitted(g[j - 1], g[j], t, 0, deadline)
    BY <1>3, <1>6, <1>7, <2>1, <2>2, <2>3
  <2>5. PICK A : A = {x \in S : x.permit[t].amount = 0}
    OBVIOUS
  <2>6. g[j] \in A
    BY <1>6, <2>3, <2>4, <2>5 DEF BalancerPermitted
  <2>7. \A l \in j + 1..N : \A x \in S, y \in S : x \in A /\ y \in Balancer!Call(x, calls[l]) => y \in A
    <3>1. \A l \in j + 1..N : l \in M + 2..N
      BY <1>2
    <3>2. QED
      BY <1>9, <2>2, <2>5, <3>1
  <2>8. g[N] \in A
    BY <1>k, <2>3, <2>6, <2>7
  <2>9. QED
    BY <1>6, <2>2, <2>5, <2>8
<1>13. ASSUME NEW i \in 1..Len(tk), amounts[i] # 0
       PROVE  d.allowance[tk[i]] = 0
  <2>1. PICK j \in M + 2..M + 1 + K : calls[j] = Balancer!Approve(tk[i], 0)
    BY <1>2, <1>13
  <2>2. PICK t \in Balancer!Tokens : t = tk[i]
    BY <1>3
  <2>3. j \in 1..N /\ j \in 0..N /\ j - 1 \in 0..N /\ N \in j..N
    BY <1>2
  <2>4. BalancerGave(g[j - 1], g[j], t, 0)
    BY <1>3, <1>6, <1>7, <2>1, <2>2, <2>3
  <2>5. PICK A : A = {x \in S : x.allowance[t] = 0}
    OBVIOUS
  <2>6. g[j] \in A
    BY <1>6, <2>3, <2>4, <2>5 DEF BalancerGave
  <2>7. \A l \in j + 1..N : \A x \in S, y \in S : x \in A /\ y \in Balancer!Call(x, calls[l]) => y \in A
    <3>1. \A l \in j + 1..N : l \in M + 2..N
      BY <1>2
    <3>2. QED
      BY <1>9, <2>2, <2>5, <3>1
  <2>8. g[N] \in A
    BY <1>k, <2>3, <2>6, <2>7
  <2>9. QED
    BY <1>6, <2>2, <2>5, <2>8
<1>14. PICK i \in 1..Len(tk) : amounts[i] # 0
  BY DEF BalancerParts
<1>15. QED
  BY <1>11, <1>12, <1>13, <1>14 DEF BalancerAdded

\* Every permit of the batch is of a token with an amount.
LEMMA BalancerAddPermits ==
    ASSUME NEW calls, NEW tk, NEW amounts, NEW deadline, NEW pool, NEW min, NEW M, NEW K,
           BalancerAddBatch(calls, tk, amounts, deadline,
                            Balancer!AddLiquidityUnbalanced(pool, amounts, min), M, K),
           NEW j \in DOMAIN calls, calls[j].fn = "permit"
    PROVE  \E i \in 1..Len(tk) : amounts[i] # 0 /\ calls[j].token = tk[i]
<1>1. /\ M \in Nat /\ K \in Nat /\ j \in 1..M + 1 + K
      /\ calls[M + 1] = Balancer!AddLiquidityUnbalanced(pool, amounts, min)
      /\ \A l \in 1..M : BalancerOpens(calls[l], tk, amounts, deadline)
      /\ \A l \in M + 2..M + 1 + K : BalancerShuts(calls[l], tk, amounts, deadline)
  BY DEF BalancerAddBatch
<1>2. Balancer!AddLiquidityUnbalanced(pool, amounts, min).fn # "permit"
  BY DEF Balancer!AddLiquidityUnbalanced
<1>3. j \in 1..M \/ j \in M + 2..M + 1 + K
  BY <1>1, <1>2
<1>4. BalancerOpens(calls[j], tk, amounts, deadline) \/ BalancerShuts(calls[j], tk, amounts, deadline)
  BY <1>1, <1>3
<1>5. PICK k : k = calls[j] /\ k.fn = "permit"
  OBVIOUS
<1>6. PICK i \in 1..Len(tk) : /\ amounts[i] # 0
                              /\ \/ \E n : k = Balancer!Approve(tk[i], n)
                                 \/ \E n : k = Balancer!Permit(tk[i], n, deadline)
  BY <1>4, <1>5 DEF BalancerOpens, BalancerShuts
<1>7. /\ \A n : Balancer!Approve(tk[i], n).fn # "permit"
      /\ \A n : Balancer!Permit(tk[i], n, deadline).token = tk[i]
  BY DEF Balancer!Approve, Balancer!Permit
<1>8. k.token = tk[i]
  BY <1>5, <1>6, <1>7
<1>9. QED
  BY <1>5, <1>6, <1>8

LEMMA BalancerMoves ==
    ASSUME NEW tokens, NEW c \in Balancer!States(tokens), NEW d \in Balancer!Moves(c)
    PROVE  d \in Balancer!States(tokens)
<1>1. /\ c = BalancerRecord(c.now, c.pool, c.api, c.indexed, c.balance, c.allowance, c.permit)
      /\ c.now \in Nat /\ c.pool \in BalancerPools(tokens)
      /\ c.api \in BalancerSources /\ c.indexed \in BalancerSources
      /\ c.balance \in [BalancerCoins -> Int] /\ c.allowance \in [BalancerCoins -> Int]
      /\ c.permit \in [Balancer!Tokens -> Balancer!Permits]
  BY BalancerShape
<1>2. ASSUME NEW now \in Nat, NEW pool \in BalancerPools(tokens), NEW api \in BalancerSources,
             NEW indexed \in BalancerSources,
             d = BalancerRecord(now, pool, api, indexed, c.balance, c.allowance, c.permit)
      PROVE  d \in Balancer!States(tokens)
  <2>1. PICK balance, allowance, permit :
          /\ balance \in [BalancerCoins -> Int] /\ allowance \in [BalancerCoins -> Int]
          /\ permit \in [Balancer!Tokens -> Balancer!Permits]
          /\ d = BalancerRecord(now, pool, api, indexed, balance, allowance, permit)
    BY <1>1, <1>2
  <2>2. QED
    BY <2>1, BalancerBuilt
<1>3. CASE d = [c EXCEPT !.now = @ + 2]
  <2>1. PICK now \in Nat : now = c.now + 2
    BY <1>1
  <2>2. d = BalancerRecord(now, c.pool, c.api, c.indexed, c.balance, c.allowance, c.permit)
    BY <1>1, <1>3, <2>1 DEF BalancerRecord
  <2>3. QED
    BY <1>1, <1>2, <2>2
<1>p. ASSUME NEW p \in Balancer!PoolNames, NEW one \in BalancerPoolStates, one.tokens = c.pool[p].tokens,
             d = [c EXCEPT !.pool[p] = one]
      PROVE  d \in Balancer!States(tokens)
  <2>1. PICK pool : pool = [c.pool EXCEPT ![p] = one]
    OBVIOUS
  <2>2. PICK N, P : /\ N = Balancer!PoolNames /\ P = BalancerPoolStates
                    /\ c.pool \in [N -> P] /\ \A x \in N : c.pool[x].tokens = tokens[x]
    BY <1>1 DEF BalancerPools
  <2>3. pool \in [N -> P] /\ \A x \in N : pool[x].tokens = tokens[x]
    BY <1>p, <2>1, <2>2
  <2>4. pool \in BalancerPools(tokens)
    BY <2>2, <2>3 DEF BalancerPools
  <2>5. d = [c EXCEPT !.pool = pool]
    BY <1>p, <2>1
  <2>6. d = BalancerRecord(c.now, pool, c.api, c.indexed, c.balance, c.allowance, c.permit)
    BY <1>1, <2>5 DEF BalancerRecord
  <2>7. QED
    BY <1>1, <1>2, <2>4, <2>6
<1>q. ASSUME NEW p \in Balancer!PoolNames
      PROVE  /\ c.pool[p] \in BalancerPoolStates
             /\ \A x \in Nat \ {0} : [c.pool[p] EXCEPT !.rate = x] \in BalancerPoolStates
             /\ \A x \in BOOLEAN : [c.pool[p] EXCEPT !.paused = x] \in BalancerPoolStates
  <2>1. PICK q, B, T, H : /\ q = c.pool[p] /\ B = BOOLEAN /\ T = Seq(Balancer!Tokens)
                          /\ H = [Balancer!Tokens -> Int]
    OBVIOUS
  <2>2. q \in BalancerPoolStates
    BY <1>1, <2>1 DEF BalancerPools
  <2>3. BalancerPoolStates = [tokens : T, registered : B, initialized : B, paused : B, recovery : B,
                              rate : Nat \ {0}, supply : Int, held : H]
    BY <2>1 DEF BalancerPoolStates
  <2>4. /\ \A x \in Nat \ {0} : [q EXCEPT !.rate = x] \in BalancerPoolStates
        /\ \A x \in B : [q EXCEPT !.paused = x] \in BalancerPoolStates
    BY <2>2, <2>3
  <2>5. QED
    BY <2>1, <2>2, <2>4
<1>n. "p1" \in Balancer!PoolNames /\ "p2" \in Balancer!PoolNames
  BY BalancerNames
<1>4. CASE d = [c EXCEPT !.pool["p1"].rate = IF @ = 20 THEN 17 ELSE 20]
  <2>1. PICK x \in Nat \ {0} : x = IF c.pool["p1"].rate = 20 THEN 17 ELSE 20
    OBVIOUS
  <2>2. PICK one : one = [c.pool["p1"] EXCEPT !.rate = x]
    OBVIOUS
  <2>3. d = [c EXCEPT !.pool["p1"] = one]
    BY <1>4, <2>1, <2>2
  <2>4. one \in BalancerPoolStates /\ one.tokens = c.pool["p1"].tokens
    BY <1>n, <1>q, <2>2 DEF BalancerPoolStates
  <2>5. QED
    BY <1>n, <1>p, <2>3, <2>4
<1>5. CASE d = [c EXCEPT !.pool["p2"].paused = ~@]
  <2>1. PICK x \in BOOLEAN : x = ~c.pool["p2"].paused
    OBVIOUS
  <2>2. PICK one : one = [c.pool["p2"] EXCEPT !.paused = x]
    OBVIOUS
  <2>3. d = [c EXCEPT !.pool["p2"] = one]
    BY <1>5, <2>1, <2>2
  <2>4. one \in BalancerPoolStates /\ one.tokens = c.pool["p2"].tokens
    BY <1>n, <1>q, <2>1, <2>2 DEF BalancerPoolStates
  <2>5. QED
    BY <1>n, <1>p, <2>3, <2>4
<1>a. ASSUME NEW api \in BalancerSources, d = [c EXCEPT !.api = api]
      PROVE  d \in Balancer!States(tokens)
  <2>1. d = BalancerRecord(c.now, c.pool, api, c.indexed, c.balance, c.allowance, c.permit)
    BY <1>1, <1>a DEF BalancerRecord
  <2>2. QED
    BY <1>1, <1>2, <2>1
<1>6. CASE d = [c EXCEPT !.api.ok = FALSE]
  <2>1. PICK api : api = [c.api EXCEPT !.ok = FALSE]
    OBVIOUS
  <2>2. api \in BalancerSources /\ d = [c EXCEPT !.api = api]
    BY <1>1, <1>6, <2>1 DEF BalancerSources
  <2>3. QED
    BY <1>a, <2>2
<1>7. CASE d = [c EXCEPT !.indexed = [ok |-> FALSE, pools |-> {}]]
  <2>1. PICK indexed : indexed = [ok |-> FALSE, pools |-> {}]
    OBVIOUS
  <2>2. indexed \in BalancerSources
    BY <2>1 DEF BalancerSources
  <2>3. d = BalancerRecord(c.now, c.pool, c.api, indexed, c.balance, c.allowance, c.permit)
    BY <1>1, <1>7, <2>1 DEF BalancerRecord
  <2>4. QED
    BY <1>1, <1>2, <2>2, <2>3
<1>8. CASE d = [c EXCEPT !.api.pools = @ \cup {"p1"}]
  <2>1. PICK pools : pools = c.api.pools \cup {"p1"}
    OBVIOUS
  <2>2. PICK api : api = [c.api EXCEPT !.pools = pools]
    OBVIOUS
  <2>3. pools \in SUBSET Balancer!PoolNames
    BY <1>1, <1>n, <2>1 DEF BalancerSources
  <2>4. api \in BalancerSources
    BY <1>1, <2>2, <2>3 DEF BalancerSources
  <2>5. d = [c EXCEPT !.api = api]
    BY <1>8, <2>1, <2>2
  <2>6. QED
    BY <1>a, <2>4, <2>5
<1>9. QED
  BY <1>3, <1>4, <1>5, <1>6, <1>7, <1>8 DEF Balancer!Moves

\* What is compiled for an addition is a batch of the kind.
LEMMA BalancerAddIsBatch ==
    ASSUME NEW calls, NEW r, NEW tokens \in BalancerLists, BalancerCompiledAdd(calls, r, tokens)
    PROVE  \E tk, amounts, min, deadline, M, K :
              /\ BalancerParts(tk, amounts, deadline, tokens, r.pool)
              /\ BalancerAddBatch(calls, tk, amounts, deadline,
                                  Balancer!AddLiquidityUnbalanced(r.pool, amounts, min), M, K)
              /\ r.deadline # Balancer!NoDeadline => deadline = r.deadline
<1>1. PICK tk, amounts, min, deadline :
        /\ BalancerAdds(r, tk, amounts, deadline) /\ tk = tokens[r.pool]
        /\ calls = Balancer!CompileAddLiquidity(r, tk, amounts, min, deadline)
  BY DEF BalancerCompiledAdd
<1>2. BalancerParts(tk, amounts, deadline, tokens, r.pool)
  BY <1>1 DEF BalancerAdds, BalancerParts
<1>3. PICK T : T = Balancer!Tokens /\ tk \in Seq(T) /\ Len(tk) # 0
  BY <1>2, BalancerPartsAre
<1>4. amounts \in [1..Len(tk) -> Nat]
  BY <1>2 DEF BalancerParts
<1>5. \E M, K : BalancerAddBatch(calls, tk, amounts, deadline,
                                 Balancer!AddLiquidityUnbalanced(r.pool, amounts, min), M, K)
  BY <1>1, <1>3, <1>4, BalancerAddCalls
<1>6. r.deadline # Balancer!NoDeadline => deadline = r.deadline
  BY <1>1 DEF BalancerAdds
<1>7. QED
  BY <1>2, <1>5, <1>6

LEMMA BalancerClosed ==
    ASSUME NEW tokens \in BalancerLists
    PROVE  BalancerRuns!Closed(Balancer!States(tokens), BalancerView(tokens))
<1>1. ASSUME NEW r \in BalancerRequests, Balancer!Valid(r)
      PROVE  Len(Balancer!Reads(r)) \in Nat
  BY <1>1, BalancerReadsAre
<1>2. ASSUME NEW c \in Balancer!States(tokens), NEW d \in Balancer!Moves(c)
      PROVE  d \in Balancer!States(tokens) /\ BalancerView(tokens)[d] = BalancerView(tokens)[c]
  BY <1>2, BalancerMoves DEF BalancerView
<1>3. ASSUME NEW r \in BalancerRequests, NEW calls, Balancer!Valid(r),
             BalancerRuns!Compiled(calls, r, Balancer!States(tokens))
      PROVE  BalancerStaysIn(calls, tokens)
  <2>1. PICK known : known = Balancer!States(tokens)
    OBVIOUS
  <2>2. \/ BalancerCompiledSwap(calls, r)
        \/ BalancerCompiledAdd(calls, r, tokens)
        \/ BalancerCompiledRemove(calls, r)
    BY <1>3, <2>1, BalancerCompiled
  <2>3. CASE BalancerCompiledAdd(calls, r, tokens)
    <3>1. PICK tk, amounts, min, deadline, M, K :
            /\ BalancerParts(tk, amounts, deadline, tokens, r.pool)
            /\ BalancerAddBatch(calls, tk, amounts, deadline,
                                Balancer!AddLiquidityUnbalanced(r.pool, amounts, min), M, K)
      BY <2>3, BalancerAddIsBatch
    <3>2. QED
      BY <3>1, BalancerAddKept
  <2>4. QED
    BY <1>3, <2>2, <2>3, BalancerSwapKept, BalancerRemoveKept
<1>4. QED
  BY <1>1, <1>2, <1>3 DEF BalancerRuns!Closed, BalancerStaysIn

BalancerInv ==
    \E tokens \in BalancerLists : BalancerRuns!HandlerInv(Balancer!States(tokens), BalancerView(tokens))

LEMMA BalancerStart ==
    ASSUME Init, protocol = "balancer"
    PROVE  BalancerInv
<1>1. chain \in BalancerChains /\ task = [h \in Handlers |-> BalancerRuns!Idle]
  BY DEF Init, OnUniswap!Idle, BalancerRuns!Idle
<1>2. PICK tokens : tokens = [p \in Balancer!PoolNames |-> chain.pool[p].tokens]
  OBVIOUS
<1>3. chain \in Balancer!States(tokens)
  BY <1>1, <1>2, BalancerAssumption
<1>4. tokens \in BalancerLists
  <2>1. chain.pool \in BalancerPools(tokens)
    BY <1>3, BalancerShape
  <2>2. \A p \in Balancer!PoolNames : chain.pool[p].tokens \in Seq(Balancer!Tokens)
    BY <2>1 DEF BalancerPools, BalancerPoolStates
  <2>3. QED
    BY <1>2, <2>2 DEF BalancerLists
<1>5. BalancerRuns!HandlerInv(Balancer!States(tokens), BalancerView(tokens))
  BY <1>1, <1>3, BalancerRuns!HandlerStart
<1>6. QED
  BY <1>4, <1>5 DEF BalancerInv

LEMMA BalancerStep ==
    ASSUME BalancerInv, OnBalancer!Next
    PROVE  BalancerInv'
<1>1. PICK tokens \in BalancerLists : BalancerRuns!HandlerInv(Balancer!States(tokens), BalancerView(tokens))
  BY DEF BalancerInv
<1>2. PICK S, view : S = Balancer!States(tokens) /\ view = BalancerView(tokens)
  OBVIOUS
<1>3. BalancerRuns!Next /\ BalancerRuns!HandlerInv(S, view) /\ BalancerRuns!Closed(S, view)
  BY <1>1, <1>2, BalancerSame, BalancerClosed
<1>4. BalancerRuns!HandlerInv(S, view)'
  BY <1>3, BalancerRuns!HandlerStep
<1>5. QED
  BY <1>2, <1>4 DEF BalancerInv

LEMMA BalancerStays ==
    ASSUME BalancerInv, UNCHANGED vars
    PROVE  BalancerInv'
<1>1. PICK tokens \in BalancerLists : BalancerRuns!HandlerInv(Balancer!States(tokens), BalancerView(tokens))
  BY DEF BalancerInv
<1>2. BalancerRuns!HandlerInv(Balancer!States(tokens), BalancerView(tokens))'
  BY <1>1 DEF vars, BalancerRuns!HandlerInv, BalancerRuns!TaskOK, BalancerRuns!Known
<1>3. QED
  BY <1>2 DEF BalancerInv

\* What a batch that takes effect does.
BalancerEffects(c, d, r, calls) ==
    /\ r.op = "swap" => TermsKept(c, d, r)
    /\ r.op \in {"swap", "add"} => InTime(c, r) /\ Closes(d, calls)
    /\ r.op = "remove" => d.allowance[r.pool] = 0

LEMMA BalancerBatchDoes ==
    ASSUME NEW r \in BalancerRequests, Balancer!Valid(r), NEW tokens \in BalancerLists,
           NEW known \in SUBSET Balancer!States(tokens), NEW calls, BalancerRuns!Compiled(calls, r, known),
           NEW c \in Balancer!States(tokens), NEW d \in BalancerRuns!Run(c, calls)
    PROVE  BalancerEffects(c, d, r, calls)
<1>1. \/ BalancerCompiledSwap(calls, r)
      \/ BalancerCompiledAdd(calls, r, tokens)
      \/ BalancerCompiledRemove(calls, r)
  BY BalancerCompiled
<1>2. CASE BalancerCompiledSwap(calls, r)
  <2>1. PICK p, limit, deadline :
          BalancerTerms(r, p, limit, deadline) /\ calls = Balancer!CompileSwap(r, p, limit, deadline)
    BY <1>2 DEF BalancerCompiledSwap
  <2>2. r.op = "swap"
    BY <1>2 DEF BalancerCompiledSwap
  <2>3. BalancerSwapped(c, d, r, limit, deadline)
    BY <2>1, <2>2, BalancerSwapDoes
  <2>4. PICK in, out \in Int :
          /\ d.balance[r.token_in] = c.balance[r.token_in] - in
          /\ d.balance[r.token_out] = c.balance[r.token_out] + out
          /\ IF r.kind = "exact_in" THEN in = r.amount.whole /\ out >= limit
             ELSE out = r.amount.whole /\ in <= limit
    BY <2>3 DEF BalancerSwapped
  <2>5. TermsKept(c, d, r)
    <3>1. c.balance[r.token_in] \in Int /\ c.balance[r.token_out] \in Int
      BY <2>2, BalancerShape, BalancerAsked DEF BalancerCoins
    <3>2. /\ c.balance[r.token_in] - d.balance[r.token_in] = in
          /\ d.balance[r.token_out] - c.balance[r.token_out] = out
      BY <2>4, <3>1
    <3>3. r.limit # Uniswap!Absent => r.limit.whole = limit
      BY <2>1, BalancerNames DEF BalancerTerms
    <3>4. QED
      BY <2>4, <3>2, <3>3 DEF TermsKept
  <2>6. InTime(c, r)
    BY <2>1, <2>3, BalancerNames DEF InTime, BalancerTerms, BalancerSwapped
  <2>7. Closes(d, calls)
    <3>1. ASSUME NEW i \in DOMAIN calls, calls[i].fn = "permit"
          PROVE  d.allowance[calls[i].token] = 0 /\ d.permit[calls[i].token].amount = 0
      BY <2>1, <2>3, <3>1, BalancerSwapPermits DEF BalancerSwapped
    <3>2. QED
      BY <3>1 DEF Closes
  <2>8. QED
    BY <2>2, <2>5, <2>6, <2>7 DEF BalancerEffects
<1>3. CASE BalancerCompiledAdd(calls, r, tokens)
  <2>1. PICK tk, amounts, min, deadline, M, K :
          /\ BalancerParts(tk, amounts, deadline, tokens, r.pool)
          /\ BalancerAddBatch(calls, tk, amounts, deadline,
                              Balancer!AddLiquidityUnbalanced(r.pool, amounts, min), M, K)
          /\ r.deadline # Balancer!NoDeadline => deadline = r.deadline
    BY <1>3, BalancerAddIsBatch
  <2>2. BalancerAdded(c, d, tk, amounts, deadline)
    BY <2>1, BalancerAddDoes
  <2>3. InTime(c, r)
    BY <2>1, <2>2, BalancerNames DEF InTime, BalancerAdded
  <2>4. Closes(d, calls)
    <3>1. ASSUME NEW i \in DOMAIN calls, calls[i].fn = "permit"
          PROVE  d.allowance[calls[i].token] = 0 /\ d.permit[calls[i].token].amount = 0
      <4>1. PICK n \in 1..Len(tk) : amounts[n] # 0 /\ calls[i].token = tk[n]
        BY <2>1, <3>1, BalancerAddPermits
      <4>2. QED
        BY <2>2, <4>1 DEF BalancerAdded
    <3>2. QED
      BY <3>1 DEF Closes
  <2>5. QED
    BY <1>3, <2>3, <2>4 DEF BalancerEffects, BalancerCompiledAdd
<1>4. CASE BalancerCompiledRemove(calls, r)
  BY <1>4, BalancerRemoveDoes DEF BalancerEffects, BalancerCompiledRemove
<1>5. QED
  BY <1>1, <1>2, <1>3, <1>4

LEMMA BalancerEffect ==
    ASSUME BalancerInv, OnBalancer!Next, NEW h \in Handlers, OnBalancer!Succeeded(h)
    PROVE  BalancerEffects(chain, chain', task[h].req, task[h].result)
<1>1. PICK tokens \in BalancerLists : BalancerRuns!HandlerInv(Balancer!States(tokens), BalancerView(tokens))
  BY DEF BalancerInv
<1>2. PICK S, view : S = Balancer!States(tokens) /\ view = BalancerView(tokens)
  OBVIOUS
<1>3. BalancerRuns!Next /\ BalancerRuns!Succeeded(h) /\ BalancerRuns!HandlerInv(S, view)
  BY <1>1, <1>2, BalancerSame
<1>4. /\ task[h] # BalancerRuns!Idle /\ BalancerRuns!TaskOK(task[h], S, view)
      /\ task[h].stage \in BalancerRuns!Compiling
      /\ chain' \in BalancerRuns!Run(chain, task[h].result)
  BY <1>3, BalancerRuns!TakesEffect
<1>5. PICK r, calls, known, c, d :
        /\ r = task[h].req /\ calls = task[h].result /\ c = chain /\ d = chain'
        /\ known = BalancerRuns!Known(task[h], S, view)
  OBVIOUS
<1>6. r \in BalancerRequests /\ Balancer!Valid(r) /\ BalancerRuns!Compiled(calls, r, known)
  BY <1>4, <1>5 DEF BalancerRuns!TaskOK, BalancerRuns!Compiling
<1>7. known \in SUBSET S /\ c \in S /\ d \in BalancerRuns!Run(c, calls)
  BY <1>3, <1>4, <1>5 DEF BalancerRuns!Known, BalancerRuns!HandlerInv
<1>8. BalancerEffects(c, d, r, calls)
  BY <1>2, <1>6, <1>7, BalancerBatchDoes
<1>9. QED
  BY <1>5, <1>8

LEMMA BalancerAnswers ==
    ASSUME NEW tokens, NEW c \in Balancer!States(tokens), NEW r \in BalancerRequests, Balancer!Valid(r),
           r.op = "quote", NamesNoPool(r), NEW known, known = {c},
           NEW seen, BalancerRuns!IsList(seen), BalancerRuns!WasRead(seen, r, known),
           Len(seen) = Len(Balancer!Reads(r)), Balancer!Decide(r, seen).kind # "rejected"
    PROVE  BestAnswer(Balancer!Decide(r, seen).answer,
                      {q \in BalancerQuotes(c, r) : q.amount \notin {0, Uniswap!Err}}, r.kind,
                      [p \in Balancer!PoolNames |-> 0])
<1>1. r.op \in Balancer!Swapping /\ r.kind \in {"exact_in", "exact_out"}
  BY BalancerAssumption DEF Balancer!IsRequest, Balancer!Swapping
<1>2. BalancerSaw(r, seen, known)
  BY <1>1, BalancerSees
<1>d. Balancer!Decide(r, seen) = Balancer!ResolveSwap(r, seen)
  <2>1. /\ ~(r.op \in Balancer!Adding) /\ ~(r.op \in Balancer!Removing) /\ ~(r.op = "pools")
        /\ ~(r.op \in {"pool", "balances"})
    BY <1>1 DEF Balancer!Swapping, Balancer!Adding, Balancer!Removing
  <2>2. QED
    BY <1>1, <2>1, Zenon DEF Balancer!Decide
<1>e. PICK quote, limit, deadline :
        /\ quote = Balancer!SelectedPool(r, seen)
        /\ limit = (IF r.limit = Balancer!Absent
                    THEN Balancer!LimitFromQuote(r.kind, quote.amount, r.slippage)
                    ELSE Balancer!ValidateExplicitLimit(r.kind, quote.amount, Balancer!ParsePositive(r.limit)))
        /\ deadline = Balancer!ResolveDeadline(r.deadline, seen[Len(seen)])
  OBVIOUS
<1>3. /\ Balancer!ResolveSwap(r, seen).answer = [pool |-> quote.pool, quoted |-> quote.amount, limit |-> limit]
      /\ quote.amount # Balancer!Err
  <2>1. Balancer!ResolveSwap(r, seen).kind # "rejected"
    BY <1>d
  <2>2. QED
    BY <1>e, <2>1 DEF Balancer!ResolveSwap, Balancer!Rejected, Balancer!Answered, Balancer!Calls
<1>o. PICK N, o, states, all, listed :
        /\ o = r.order /\ N = Len(o) /\ states = SubSeq(seen, 3, Len(seen) - 1)
        /\ all = BalancerListed(c.api, c.indexed)
        /\ listed = Balancer!DiscoverPairPools(r, c.api, c.indexed, states)
  OBVIOUS
<1>4. /\ N \in Nat /\ \A i \in 1..N : o[i] \in Balancer!PoolNames
      /\ \A p \in Balancer!PoolNames : \E i \in 1..N : o[i] = p
  BY <1>o, BalancerOrderOf
<1>5. /\ seen[1] = c.api /\ seen[2] = c.indexed /\ DOMAIN states = 1..N
      /\ \A i \in 1..N : states[i] = BalancerPool(c, o[i], r)
  BY <1>2, <1>o DEF BalancerSaw
<1>6. quote = Balancer!SelectBestPool(r, listed, states)
  <2>1. states = SubSeq(seen, 3, Len(seen) - 1)
    BY <1>o
  <2>2. Balancer!SelectedPool(r, seen) =
          Balancer!SelectBestPool(r, Balancer!DiscoverPairPools(r, seen[1], seen[2], states), states)
    BY <2>1, BalancerSelects
  <2>3. listed = Balancer!DiscoverPairPools(r, seen[1], seen[2], states)
    BY <1>o, <1>5
  <2>4. QED
    BY <1>e, <2>2, <2>3
<1>7. PICK amount : amount = [p \in Balancer!PoolNames |-> Balancer!SwapQuote(c, p, r)]
  OBVIOUS
<1>8. ASSUME NEW p \in Balancer!PoolNames
      PROVE  amount[p] \in Int /\ amount[p] = Balancer!SwapQuote(c, p, r)
  BY <1>1, <1>7, BalancerQuoteIs
<1>9. ASSUME NEW i \in 1..N
      PROVE  /\ states[i].pool = o[i] /\ states[i].amount = amount[o[i]]
             /\ states[i].tokens = c.pool[o[i]].tokens
             /\ states[i].registered = c.pool[o[i]].registered
             /\ states[i].initialized = c.pool[o[i]].initialized
             /\ states[i].paused = c.pool[o[i]].paused /\ states[i].recovery = c.pool[o[i]].recovery
             /\ BalancerQuoted(states[i])
  <2>1. o[i] \in Balancer!PoolNames
    BY <1>4
  <2>2. PICK s, p : s = states[i] /\ p = o[i] /\ s = BalancerPool(c, p, r)
    BY <1>5
  <2>3. /\ s.pool = p /\ s.tokens = c.pool[p].tokens /\ s.registered = c.pool[p].registered
        /\ s.initialized = c.pool[p].initialized /\ s.paused = c.pool[p].paused
        /\ s.recovery = c.pool[p].recovery /\ s.amount = Balancer!SwapQuote(c, p, r)
    BY <1>1, <2>2 DEF BalancerPool
  <2>4. QED
    BY <1>8, <2>1, <2>2, <2>3 DEF BalancerQuoted
\* The pools that can be swapped in, of those the sources list.
<1>l. ASSUME NEW i \in 1..N
      PROVE  o[i] \in listed <=> o[i] \in all /\ {r.token_in, r.token_out} \subseteq Balancer!Range(c.pool[o[i]].tokens)
  <2>1. listed = {s.pool : s \in {t \in Balancer!Range(states) :
                            t.pool \in all /\ {r.token_in, r.token_out} \subseteq Balancer!Range(t.tokens)}}
    BY <1>o DEF Balancer!DiscoverPairPools, BalancerListed
  <2>2. ASSUME o[i] \in listed
        PROVE  o[i] \in all /\ {r.token_in, r.token_out} \subseteq Balancer!Range(c.pool[o[i]].tokens)
    <3>1. PICK s \in Balancer!Range(states) :
            /\ s.pool = o[i] /\ s.pool \in all
            /\ {r.token_in, r.token_out} \subseteq Balancer!Range(s.tokens)
      BY <2>1, <2>2
    <3>2. PICK j \in 1..N : s = states[j]
      BY <1>5, <3>1 DEF Balancer!Range
    <3>3. s.pool = o[j] /\ s.tokens = c.pool[o[j]].tokens
      BY <1>9, <3>2
    <3>4. s.tokens = c.pool[o[i]].tokens
      BY <3>1, <3>3
    <3>5. QED
      BY <3>1, <3>4
  <2>3. ASSUME o[i] \in all, {r.token_in, r.token_out} \subseteq Balancer!Range(c.pool[o[i]].tokens)
        PROVE  o[i] \in listed
    <3>1. PICK s : s = states[i]
      OBVIOUS
    <3>2. s.pool = o[i] /\ s.tokens = c.pool[o[i]].tokens
      BY <1>9, <3>1
    <3>3. s \in Balancer!Range(states)
      BY <1>5, <3>1 DEF Balancer!Range
    <3>4. s.pool \in all /\ {r.token_in, r.token_out} \subseteq Balancer!Range(s.tokens)
      BY <2>3, <3>2
    <3>5. s.pool \in listed
      BY <2>1, <3>3, <3>4
    <3>6. QED
      BY <3>2, <3>5
  <2>4. QED
    BY <2>2, <2>3
<1>b. ASSUME NEW i \in 1..N
      PROVE  BalancerUsable(r, listed, states[i]) <=>
                /\ o[i] \in all /\ {r.token_in, r.token_out} \subseteq Balancer!Range(c.pool[o[i]].tokens)
                /\ c.pool[o[i]].registered /\ c.pool[o[i]].initialized
                /\ ~c.pool[o[i]].paused /\ ~c.pool[o[i]].recovery
                /\ amount[o[i]] \notin {0, Balancer!Err}
  BY <1>9, <1>l, Zenon DEF BalancerUsable, Balancer!OpenForSwap, Balancer!Open
<1>10. BalancerChosen(quote, r, listed, states, N)
  <2>1. \A i \in 1..N : BalancerQuoted(states[i])
    BY <1>9
  <2>2. BalancerChosen(Balancer!SelectBestPool(r, listed, states), r, listed, states, N)
    BY <1>4, <1>5, <2>1, BalancerChoice
  <2>3. QED
    BY <1>6, <2>2
<1>11. PICK Q : Q = {q \in BalancerQuotes(c, r) : q.amount \notin {0, Uniswap!Err}}
  OBVIOUS
<1>a. all \subseteq Balancer!PoolNames
      /\ all = (IF c.api.ok THEN c.api.pools ELSE {}) \cup (IF c.indexed.ok THEN c.indexed.pools ELSE {})
  <2>1. c.api \in BalancerSources /\ c.indexed \in BalancerSources
    BY BalancerShape
  <2>2. QED
    BY <1>o, <2>1 DEF BalancerListed, BalancerSources
<1>12. ASSUME NEW q \in Q
       PROVE  \E i \in 1..N : /\ q = [pool |-> o[i], amount |-> amount[o[i]]]
                              /\ BalancerUsable(r, listed, states[i])
  <2>1. PICK p \in all : /\ c.pool[p].registered /\ c.pool[p].initialized
                         /\ ~c.pool[p].paused /\ ~c.pool[p].recovery
                         /\ q = [pool |-> p, amount |-> Balancer!SwapQuote(c, p, r)]
    <3>1. q \in BalancerQuotes(c, r)
      BY <1>11
    <3>2. QED
      BY <1>a, <3>1 DEF BalancerQuotes
  <2>2. p \in Balancer!PoolNames /\ amount[p] = Balancer!SwapQuote(c, p, r)
    BY <1>8, <1>a
  <2>3. amount[p] \notin {0, Balancer!Err}
    BY <1>11, <2>1, <2>2, BalancerNames
  <2>4. {r.token_in, r.token_out} \subseteq Balancer!Range(c.pool[p].tokens)
    BY <2>2, <2>3 DEF Balancer!SwapQuote
  <2>5. PICK i \in 1..N : o[i] = p
    BY <1>4, <2>2
  <2>6. BalancerUsable(r, listed, states[i])
    BY <1>b, <2>1, <2>3, <2>4, <2>5
  <2>7. QED
    BY <2>1, <2>2, <2>5, <2>6
<1>13. PICK j \in 1..N : quote = BalancerChoose(states[j]) /\ BalancerUsable(r, listed, states[j])
  <2>1. Balancer!NoPool.amount = Balancer!Err
    BY DEF Balancer!NoPool
  <2>2. QED
    BY <1>3, <1>10, <2>1 DEF BalancerChosen
<1>14. quote.pool = o[j] /\ quote.amount = amount[o[j]]
  BY <1>9, <1>13 DEF BalancerChoose
<1>15. [pool |-> quote.pool, amount |-> quote.amount] \in Q
  <2>1. /\ o[j] \in all /\ c.pool[o[j]].registered /\ c.pool[o[j]].initialized
        /\ ~c.pool[o[j]].paused /\ ~c.pool[o[j]].recovery
        /\ amount[o[j]] \notin {0, Balancer!Err} /\ o[j] \in Balancer!PoolNames
    BY <1>4, <1>13, <1>b
  <2>2. PICK p : p = o[j]
    OBVIOUS
  <2>3. [pool |-> p, amount |-> Balancer!SwapQuote(c, p, r)] \in BalancerQuotes(c, r)
    BY <1>a, <2>1, <2>2 DEF BalancerQuotes
  <2>4. QED
    BY <1>8, <1>11, <1>14, <2>1, <2>2, <2>3, BalancerNames
<1>16. ASSUME NEW q \in Q
       PROVE  /\ IF r.kind = "exact_in" THEN q.amount <= quote.amount ELSE q.amount >= quote.amount
              /\ q.amount = quote.amount /\ q.pool # quote.pool => Uniswap!Rank(q.pool) > Uniswap!Rank(quote.pool)
              /\ q.pool \in Balancer!PoolNames
  <2>1. PICK i \in 1..N : /\ q = [pool |-> o[i], amount |-> amount[o[i]]]
                          /\ BalancerUsable(r, listed, states[i])
    BY <1>12
  <2>2. ~BalancerBefore(r.kind, states[i], quote)
    <3>1. quote # Balancer!NoPool
      <4>1. Balancer!NoPool.amount = Balancer!Err
        BY DEF Balancer!NoPool
      <4>2. QED
        BY <1>3, <4>1
    <3>2. QED
      BY <1>10, <2>1, <3>1 DEF BalancerChosen
  <2>3. /\ states[i].pool = q.pool /\ states[i].amount = q.amount
        /\ q.pool \in Balancer!PoolNames /\ quote.pool \in Balancer!PoolNames
    BY <1>4, <1>9, <1>14, <2>1
  <2>4. PICK a, b, m, n :
          /\ a = q.amount /\ b = quote.amount /\ m = Uniswap!Rank(q.pool) /\ n = Uniswap!Rank(quote.pool)
    OBVIOUS
  <2>i. a \in Int /\ b \in Int /\ m \in Int /\ n \in Int
    <3>1. Uniswap!Rank(q.pool) \in 1..3 /\ Uniswap!Rank(quote.pool) \in 1..3
      BY <2>3, PoolRanks, BalancerNames
    <3>2. q.amount \in Int /\ quote.amount \in Int
      BY <1>4, <1>8, <1>14, <2>1
    <3>3. QED
      BY <2>4, <3>1, <3>2
  <2>5. /\ ~(IF r.kind = "exact_in" THEN a > b ELSE a < b)
        /\ ~(a = b /\ m < n)
    BY <2>2, <2>3, <2>4 DEF BalancerBefore
  <2>6. q.pool # quote.pool => m # n
    BY <2>3, <2>4, PoolRanks, BalancerNames
  <2>7. /\ IF r.kind = "exact_in" THEN a <= b ELSE a >= b
        /\ a = b /\ q.pool # quote.pool => m > n
    BY <2>i, <2>5, <2>6
  <2>8. QED
    BY <2>3, <2>4, <2>7
<1>17. PICK gas : gas = [p \in Balancer!PoolNames |-> 0]
  OBVIOUS
<1>18. quote.pool \in Balancer!PoolNames
  BY <1>15, <1>16
<1>s. PICK best : best = Balancer!Decide(r, seen).answer
  OBVIOUS
<1>19. best.pool = quote.pool /\ best.quoted = quote.amount
  <2>1. best = [pool |-> quote.pool, quoted |-> quote.amount, limit |-> limit]
    BY <1>s, <1>d, <1>3
  <2>2. QED
    BY <2>1
<1>20. BestAnswer(best, Q, r.kind, gas)
  BY <1>15, <1>16, <1>17, <1>18, <1>19 DEF BestAnswer
<1>21. QED
  BY <1>s, <1>11, <1>17, <1>20

-----------------------------------------------------------------------------
(* The protocols together: a behaviour stays with the one it began with.   *)

TradingInv ==
    /\ protocol \in {"uniswap", "balancer", "gmx"}
    /\ protocol = "uniswap" => UniswapInv
    /\ protocol = "balancer" => BalancerInv
    /\ protocol = "gmx" => GmxInv

LEMMA TradingStart == Init => TradingInv
<1>1. SUFFICES ASSUME Init
               PROVE  TradingInv
  OBVIOUS
<1>2. protocol \in {"uniswap", "balancer", "gmx"}
  BY <1>1 DEF Init
<1>3. protocol = "uniswap" => UniswapInv
  BY <1>1, UniswapStart
<1>4. protocol = "balancer" => BalancerInv
  BY <1>1, BalancerStart
<1>5. protocol = "gmx" => GmxInv
  BY <1>1, GmxStart
<1>6. QED
  BY <1>2, <1>3, <1>4, <1>5 DEF TradingInv

LEMMA WhoseStep ==
    ASSUME Next
    PROVE  \/ OnUniswap!Next /\ protocol = "uniswap" /\ protocol' = "uniswap"
           \/ OnBalancer!Next /\ protocol = "balancer" /\ protocol' = "balancer"
           \/ OnGmx!Next /\ protocol = "gmx" /\ protocol' = "gmx"
<1>1. OnUniswap!Next => protocol = "uniswap" /\ protocol' = "uniswap"
  BY DEF OnUniswap!Next, OnUniswap!Begin, OnUniswap!ReadNext, OnUniswap!Answer, OnUniswap!Simulate,
         OnUniswap!Submit, OnUniswap!Mine, OnUniswap!Move, OnUniswap!Here
<1>2. OnBalancer!Next => protocol = "balancer" /\ protocol' = "balancer"
  BY DEF OnBalancer!Next, OnBalancer!Begin, OnBalancer!ReadNext, OnBalancer!Answer, OnBalancer!Simulate,
         OnBalancer!Submit, OnBalancer!Mine, OnBalancer!Move, OnBalancer!Here
<1>3. OnGmx!Next => protocol = "gmx" /\ protocol' = "gmx"
  BY DEF OnGmx!Next, OnGmx!Begin, OnGmx!ReadNext, OnGmx!Answer, OnGmx!Simulate,
         OnGmx!Submit, OnGmx!Mine, OnGmx!Move, OnGmx!Here
<1>4. OnUniswap!Next \/ OnBalancer!Next \/ OnGmx!Next
  BY DEF Next
<1>5. QED
  BY <1>1, <1>2, <1>3, <1>4

LEMMA TradingStep == TradingInv /\ [Next]_vars => TradingInv'
<1>1. SUFFICES ASSUME TradingInv, [Next]_vars
               PROVE  TradingInv'
  OBVIOUS
<1>2. CASE OnUniswap!Next /\ protocol = "uniswap" /\ protocol' = "uniswap"
  <2>1. UniswapInv'
    BY <1>1, <1>2, UniswapStep DEF TradingInv
  <2>2. QED
    BY <1>2, <2>1 DEF TradingInv
<1>3. CASE OnBalancer!Next /\ protocol = "balancer" /\ protocol' = "balancer"
  <2>1. BalancerInv'
    BY <1>1, <1>3, BalancerStep DEF TradingInv
  <2>2. QED
    BY <1>3, <2>1 DEF TradingInv
<1>4. CASE OnGmx!Next /\ protocol = "gmx" /\ protocol' = "gmx"
  <2>1. GmxInv'
    BY <1>1, <1>4, GmxStep DEF TradingInv
  <2>2. QED
    BY <1>4, <2>1 DEF TradingInv
<1>5. CASE UNCHANGED vars
  <2>1. protocol' = protocol
    BY <1>5 DEF vars
  <2>2. protocol = "uniswap" => UniswapInv'
    BY <1>1, <1>5, UniswapStays DEF TradingInv
  <2>3. protocol = "balancer" => BalancerInv'
    BY <1>1, <1>5, BalancerStays DEF TradingInv
  <2>4. protocol = "gmx" => GmxInv'
    BY <1>1, <1>5, GmxStays DEF TradingInv
  <2>5. QED
    BY <1>1, <2>1, <2>2, <2>3, <2>4 DEF TradingInv
<1>6. QED
  BY <1>1, <1>2, <1>3, <1>4, <1>5, WhoseStep

LEMMA TradingInvariant == Spec => []TradingInv
BY TradingStart, TradingStep, PTL DEF Spec

\* A batch of one of the three protocols that succeeds.
LEMMA WhatWasDone ==
    ASSUME TradingInv, Next, NEW h \in Handlers, NEW p \in {"uniswap", "balancer", "gmx"},
           NEW ops, Did(h, p, ops)
    PROVE  /\ protocol = p /\ task[h].req.op \in ops
           /\ p = "uniswap" => UniswapInv /\ OnUniswap!Next /\ OnUniswap!Succeeded(h)
           /\ p = "balancer" => BalancerInv /\ OnBalancer!Next /\ OnBalancer!Succeeded(h)
           /\ p = "gmx" => GmxInv /\ OnGmx!Next /\ OnGmx!Succeeded(h)
<1>1. protocol = p /\ task[h].req.op \in ops /\ OnUniswap!Succeeded(h)
  BY DEF Did, Asked, OnUniswap!Asked
<1>2. OnBalancer!Succeeded(h) /\ OnGmx!Succeeded(h)
  BY <1>1 DEF OnUniswap!Succeeded, OnUniswap!Executed, OnBalancer!Succeeded, OnBalancer!Executed,
              OnGmx!Succeeded, OnGmx!Executed
<1>3. QED
  BY <1>1, <1>2, WhoseStep DEF TradingInv

-----------------------------------------------------------------------------
(* The theorems. *)

(* TradingProtocols.FundsReachOnlyTheNamed: what the wallet sends to GMX   *)
(* comes back to it, unless a request names somebody else, whatever the    *)
(* keepers do with the requests and whichever batches of the wallet are    *)
(* executed in between; and other accounts' requests take nothing of it    *)
(* but the collateral of orders that decrease a position (the encoders of  *)
(* gmx_v2, compile_create_order).                                          *)
THEOREM FundsStayNamed == Spec => []FundsReachOnlyTheNamed
<1>1. TradingInv => FundsReachOnlyTheNamed
  <2>1. ASSUME TradingInv, protocol = "gmx"
        PROVE  FundsReachOnlyTheNamed
    BY <2>1, GmxFunds DEF TradingInv
  <2>2. protocol # "gmx" => FundsReachOnlyTheNamed
    BY DEF FundsReachOnlyTheNamed
  <2>3. QED
    BY <2>1, <2>2
<1>2. QED
  BY <1>1, TradingInvariant, PTL

LEMMA TermsHold ==
    ASSUME TradingInv, Next, NEW h \in Handlers
    PROVE  /\ DidSwap(h) => TermsKept(chain, chain', task[h].req)
           /\ DidSwap(h) \/ Did(h, "balancer", {"add"}) =>
                InTime(chain, task[h].req) /\ Closes(chain', task[h].result)
           /\ Did(h, "uniswap", {"swap"}) => chain'.router = chain.router
           /\ Did(h, "balancer", {"remove"}) => chain'.allowance[task[h].req.pool] = 0
<1>1. ASSUME Did(h, "uniswap", {"swap"})
      PROVE  /\ TermsKept(chain, chain', task[h].req) /\ InTime(chain, task[h].req)
             /\ Closes(chain', task[h].result) /\ chain'.router = chain.router
  <2>1. UniswapInv /\ OnUniswap!Next /\ OnUniswap!Succeeded(h)
    BY <1>1, WhatWasDone
  <2>2. QED
    BY <2>1, UniswapEffect
<1>2. ASSUME NEW ops, Did(h, "balancer", ops)
      PROVE  task[h].req.op \in ops /\ BalancerEffects(chain, chain', task[h].req, task[h].result)
  <2>1. task[h].req.op \in ops /\ BalancerInv /\ OnBalancer!Next /\ OnBalancer!Succeeded(h)
    BY <1>2, WhatWasDone
  <2>2. QED
    BY <2>1, BalancerEffect
<1>3. ASSUME Did(h, "balancer", {"swap"})
      PROVE  /\ TermsKept(chain, chain', task[h].req) /\ InTime(chain, task[h].req)
             /\ Closes(chain', task[h].result)
  <2>1. task[h].req.op \in {"swap"} /\ BalancerEffects(chain, chain', task[h].req, task[h].result)
    BY <1>2, <1>3
  <2>2. QED
    BY <2>1 DEF BalancerEffects
<1>4. ASSUME Did(h, "balancer", {"add"})
      PROVE  InTime(chain, task[h].req) /\ Closes(chain', task[h].result)
  <2>1. task[h].req.op \in {"add"} /\ BalancerEffects(chain, chain', task[h].req, task[h].result)
    BY <1>2, <1>4
  <2>2. QED
    BY <2>1 DEF BalancerEffects
<1>5. ASSUME Did(h, "balancer", {"remove"})
      PROVE  chain'.allowance[task[h].req.pool] = 0
  <2>1. task[h].req.op \in {"remove"} /\ BalancerEffects(chain, chain', task[h].req, task[h].result)
    BY <1>2, <1>5
  <2>2. QED
    BY <2>1 DEF BalancerEffects
<1>6. QED
  BY <1>1, <1>3, <1>4, <1>5 DEF DidSwap

(* TradingProtocols.ExecutionsKeepTheirTerms: a swap of Uniswap or         *)
(* Balancer that takes effect, however late and however the market has     *)
(* moved since its quote was read, takes or gives exactly the amount of    *)
(* the request and keeps its limit, and nothing takes effect after the     *)
(* client's deadline (compile_swap, compile_add_liquidity).                *)
THEOREM TermsAreKept == Spec => ExecutionsKeepTheirTerms
<1> DEFINE Holds ==
           \A h \in Handlers :
             LET r == Request(h)
                 paid == chain.balance[r.token_in] - chain'.balance[r.token_in]
                 got == chain'.balance[r.token_out] - chain.balance[r.token_out]
                 limit == r.limit.whole
             IN /\ DidSwap(h) =>
                     IF r.kind = "exact_in"
                     THEN paid = r.amount.whole /\ (r.limit # Uniswap!Absent => got >= limit)
                     ELSE got = r.amount.whole /\ (r.limit # Uniswap!Absent => paid <= limit)
                /\ DidSwap(h) \/ Did(h, "balancer", {"add"}) =>
                     r.deadline = Uniswap!NoDeadline \/ chain.now <= r.deadline
<1>1. TradingInv /\ [Next]_vars => [Holds]_vars
  <2> SUFFICES ASSUME TradingInv, [Next]_vars
               PROVE  [Holds]_vars
    OBVIOUS
  <2>1. CASE UNCHANGED vars
    BY <2>1
  <2>2. ASSUME Next, NEW h \in Handlers
        PROVE  /\ DidSwap(h) => TermsKept(chain, chain', Request(h))
               /\ DidSwap(h) \/ Did(h, "balancer", {"add"}) => InTime(chain, Request(h))
    BY <2>2, TermsHold DEF Request
  <2>3. CASE Next
    BY <2>2, <2>3 DEF TermsKept, InTime
  <2>4. QED
    BY <2>1, <2>3
<1>2. QED
  BY <1>1, TradingInvariant, PTL DEF Spec, ExecutionsKeepTheirTerms

(* TradingProtocols.NothingIsLeftBehind: a batch that succeeds closes what *)
(* it opened: no allowance and no permit with an amount, nothing of the    *)
(* wallet in the router, and in the vaults of GMX nothing that was not     *)
(* there before, except the collateral of an order that decreases a        *)
(* position, exactly its amount.                                           *)
THEOREM BatchesClean == Spec => NothingIsLeftBehind
<1> DEFINE Holds ==
           \A h \in Handlers :
             /\ DidSwap(h) \/ Did(h, "balancer", {"add"}) =>
                  \A k \in {task[h].result[i] : i \in DOMAIN task[h].result} :
                     k.fn = "permit" => chain'.allowance[k.token] = 0 /\ chain'.permit[k.token].amount = 0
             /\ Did(h, "uniswap", {"swap"}) => chain'.router = chain.router
             /\ Did(h, "balancer", {"remove"}) => chain'.allowance[Request(h).pool] = 0
             /\ Did(h, "gmx", {"order", "deposit", "withdrawal"}) =>
                  \A v \in Gmx!Vaults, t \in DOMAIN Gmx!Nothing :
                     chain'.sent[v][t] \in {0, chain.sent[v][t] + Unrecorded(Request(h), v, t)}
<1>1. TradingInv /\ [Next]_vars => [Holds]_vars
  <2> SUFFICES ASSUME TradingInv, [Next]_vars
               PROVE  [Holds]_vars
    OBVIOUS
  <2>1. CASE UNCHANGED vars
    BY <2>1
  <2>2. ASSUME Next, NEW h \in Handlers
        PROVE  /\ DidSwap(h) \/ Did(h, "balancer", {"add"}) => Closes(chain', task[h].result)
               /\ Did(h, "uniswap", {"swap"}) => chain'.router = chain.router
               /\ Did(h, "balancer", {"remove"}) => chain'.allowance[Request(h).pool] = 0
    BY <2>2, TermsHold DEF Request
  <2>3. ASSUME Next, NEW h \in Handlers, Did(h, "gmx", {"order", "deposit", "withdrawal"})
        PROVE  \A v \in Gmx!Vaults, t \in DOMAIN Gmx!Nothing :
                  chain'.sent[v][t] \in {0, chain.sent[v][t] + Unrecorded(Request(h), v, t)}
    <3>1. GmxInv /\ OnGmx!Next /\ OnGmx!Succeeded(h)
      BY <2>3, WhatWasDone
    <3>2. GmxEffect(chain, chain', task[h].req)
      BY <3>1, GmxDone
    <3>3. QED
      BY <3>2 DEF GmxEffect, GmxTokens, Request
  <2>4. CASE Next
    BY <2>2, <2>3, <2>4 DEF Closes
  <2>5. QED
    BY <2>1, <2>4
<1>2. QED
  BY <1>1, TradingInvariant, PTL DEF Spec, NothingIsLeftBehind

LEMMA Accepting ==
    ASSUME NEW h \in Handlers, NEW p \in {"uniswap", "balancer"}, NEW ops, NEW d \in Accepted(h, p, ops)
    PROVE  /\ protocol = p /\ task[h].stage = "reading" /\ task[h].req.op \in ops /\ d.kind # "rejected"
           /\ p = "uniswap" => /\ d = Uniswap!Decide(task[h].req, task[h].seen)
                               /\ Len(task[h].seen) = Len(Uniswap!Reads(task[h].req))
           /\ p = "balancer" => /\ d = Balancer!Decide(task[h].req, task[h].seen)
                                /\ Len(task[h].seen) = Len(Balancer!Reads(task[h].req))
<1>1. Asked(h, p, ops)
  BY DEF Accepted
<1>2. protocol = p /\ task[h].req.op \in ops
  BY <1>1 DEF Asked, OnUniswap!Asked
<1>3. CASE p = "uniswap"
  <2>1. d \in {e \in {OnUniswap!Decision(g) : g \in {x \in {h} : OnUniswap!HasRead(x)}} : e.kind # "rejected"}
    BY <1>1, <1>3 DEF Accepted
  <2>2. d = OnUniswap!Decision(h) /\ OnUniswap!HasRead(h) /\ d.kind # "rejected"
    BY <2>1
  <2>3. QED
    BY <1>2, <1>3, <2>2 DEF OnUniswap!Decision, OnUniswap!HasRead
<1>4. CASE p = "balancer"
  <2>1. d \in {e \in {OnBalancer!Decision(g) : g \in {x \in {h} : OnBalancer!HasRead(x)}} : e.kind # "rejected"}
    BY <1>1, <1>4 DEF Accepted
  <2>2. d = OnBalancer!Decision(h) /\ OnBalancer!HasRead(h) /\ d.kind # "rejected"
    BY <2>1
  <2>3. QED
    BY <1>2, <1>4, <2>2 DEF OnBalancer!Decision, OnBalancer!HasRead
<1>5. QED
  BY <1>3, <1>4

LEMMA UniswapReader ==
    ASSUME UniswapInv, NEW h \in Handlers, task[h].stage = "reading", Fresh(h)
    PROVE  /\ chain \in Uniswap!States /\ task[h].req \in UniswapRequests /\ Uniswap!Valid(task[h].req)
           /\ UniswapRuns!IsList(task[h].seen)
           /\ UniswapRuns!WasRead(task[h].seen, task[h].req, {chain})
<1>1. UniswapRuns!TaskOK(task[h], Uniswap!States, UniswapView) /\ chain \in Uniswap!States
  BY DEF UniswapInv, UniswapRuns!HandlerInv
<1>2. /\ task[h].req \in UniswapRequests /\ Uniswap!Valid(task[h].req)
      /\ UniswapRuns!IsList(task[h].seen)
      /\ UniswapRuns!WasRead(task[h].seen, task[h].req, UniswapRuns!Known(task[h], Uniswap!States, UniswapView))
  BY <1>1 DEF UniswapRuns!TaskOK, UniswapRuns!Idle
<1>3. UniswapRuns!Known(task[h], Uniswap!States, UniswapView) = {chain}
  <2>1. UniswapRuns!Fresh(h) /\ task[h].stage # "idle"
    BY DEF Fresh, OnUniswap!Fresh, OnUniswap!Since, UniswapRuns!Fresh, UniswapRuns!Since
  <2>2. QED
    BY <1>1, <2>1, UniswapRuns!FreshIsCurrent
<1>4. QED
  BY <1>1, <1>2, <1>3

LEMMA BalancerReader ==
    ASSUME BalancerInv, NEW h \in Handlers, task[h].stage = "reading", Fresh(h)
    PROVE  /\ \E tokens \in BalancerLists : chain \in Balancer!States(tokens)
           /\ task[h].req \in BalancerRequests /\ Balancer!Valid(task[h].req)
           /\ BalancerRuns!IsList(task[h].seen)
           /\ BalancerRuns!WasRead(task[h].seen, task[h].req, {chain})
<1>1. PICK tokens \in BalancerLists : BalancerRuns!HandlerInv(Balancer!States(tokens), BalancerView(tokens))
  BY DEF BalancerInv
<1>2. PICK S, view : S = Balancer!States(tokens) /\ view = BalancerView(tokens)
  OBVIOUS
<1>3. BalancerRuns!TaskOK(task[h], S, view) /\ chain \in S
  BY <1>1, <1>2 DEF BalancerRuns!HandlerInv
<1>4. /\ task[h].req \in BalancerRequests /\ Balancer!Valid(task[h].req)
      /\ BalancerRuns!IsList(task[h].seen)
      /\ BalancerRuns!WasRead(task[h].seen, task[h].req, BalancerRuns!Known(task[h], S, view))
  BY <1>3 DEF BalancerRuns!TaskOK, BalancerRuns!Idle
<1>5. BalancerRuns!Known(task[h], S, view) = {chain}
  <2>1. BalancerRuns!Fresh(h) /\ task[h].stage # "idle"
    BY DEF Fresh, OnUniswap!Fresh, OnUniswap!Since, BalancerRuns!Fresh, BalancerRuns!Since
  <2>2. QED
    BY <1>3, <2>1, BalancerRuns!FreshIsCurrent
<1>6. QED
  BY <1>2, <1>3, <1>4, <1>5

LEMMA BestOfUniswap ==
    ASSUME UniswapInv, NEW h \in Handlers, NEW d \in Accepted(h, "uniswap", {"quote"}),
           Fresh(h), NamesNoPool(Request(h))
    PROVE  \E gas : /\ BestAnswer(d.answer, {q \in UniswapQuotes(chain, Request(h)) : q.amount \notin {0, Uniswap!Err}},
                                  Request(h).kind, gas)
                    /\ \A p \in Uniswap!PoolNames : gas[p] = chain.pool[p].gas
<1>1. PICK t, r, seen, c : t = task[h] /\ r = t.req /\ seen = t.seen /\ c = chain
  OBVIOUS
<1>2. /\ t.stage = "reading" /\ r.op = "quote" /\ d.kind # "rejected"
      /\ d = Uniswap!Decide(r, seen) /\ Len(seen) = Len(Uniswap!Reads(r))
  BY <1>1, Accepting
<1>3. PICK known : known = {c}
  OBVIOUS
<1>4. /\ c \in Uniswap!States /\ r \in UniswapRequests /\ Uniswap!Valid(r)
      /\ UniswapRuns!IsList(seen) /\ UniswapRuns!WasRead(seen, r, known)
  BY <1>1, <1>2, <1>3, UniswapReader
<1>5. NamesNoPool(r)
  BY <1>1 DEF Request
<1>6. Uniswap!Decide(r, seen).kind # "rejected"
  BY <1>2
<1>7. BestAnswer(Uniswap!Decide(r, seen).answer,
                 {q \in UniswapQuotes(c, r) : q.amount \notin {0, Uniswap!Err}}, r.kind,
                 [p \in Uniswap!PoolNames |-> c.pool[p].gas])
  BY <1>2, <1>3, <1>4, <1>5, <1>6, UniswapAnswers
<1>8. PICK gas : gas = [p \in Uniswap!PoolNames |-> c.pool[p].gas]
  OBVIOUS
<1>9. \A p \in Uniswap!PoolNames : gas[p] = c.pool[p].gas
  BY <1>8
<1>10. QED
  BY <1>1, <1>2, <1>7, <1>8, <1>9 DEF Request

LEMMA BestOfBalancer ==
    ASSUME BalancerInv, NEW h \in Handlers, NEW d \in Accepted(h, "balancer", {"quote"}),
           Fresh(h), NamesNoPool(Request(h))
    PROVE  \E gas : /\ BestAnswer(d.answer, {q \in BalancerQuotes(chain, Request(h)) : q.amount \notin {0, Uniswap!Err}},
                                  Request(h).kind, gas)
                    /\ \A p \in Balancer!PoolNames : gas[p] = 0
<1>1. PICK t, r, seen, c : t = task[h] /\ r = t.req /\ seen = t.seen /\ c = chain
  OBVIOUS
<1>2. /\ t.stage = "reading" /\ r.op = "quote" /\ d.kind # "rejected"
      /\ d = Balancer!Decide(r, seen) /\ Len(seen) = Len(Balancer!Reads(r))
  BY <1>1, Accepting
<1>3. PICK known : known = {c}
  OBVIOUS
<1>4. /\ r \in BalancerRequests /\ Balancer!Valid(r)
      /\ BalancerRuns!IsList(seen) /\ BalancerRuns!WasRead(seen, r, known)
      /\ \E tokens \in BalancerLists : c \in Balancer!States(tokens)
  BY <1>1, <1>2, <1>3, BalancerReader
<1>t. PICK tokens \in BalancerLists : c \in Balancer!States(tokens)
  BY <1>4
<1>5. NamesNoPool(r)
  BY <1>1 DEF Request
<1>6. Balancer!Decide(r, seen).kind # "rejected"
  BY <1>2
<1>7. BestAnswer(Balancer!Decide(r, seen).answer,
                 {q \in BalancerQuotes(c, r) : q.amount \notin {0, Uniswap!Err}}, r.kind,
                 [p \in Balancer!PoolNames |-> 0])
  BY <1>2, <1>3, <1>4, <1>t, <1>5, <1>6, BalancerAnswers
<1>8. PICK gas : gas = [p \in Balancer!PoolNames |-> 0]
  OBVIOUS
<1>9. \A p \in Balancer!PoolNames : gas[p] = 0
  BY <1>8
<1>10. QED
  BY <1>1, <1>2, <1>7, <1>8, <1>9 DEF Request

(* TradingProtocols.BestPoolIsChosen: the pool chosen for a client of      *)
(* Uniswap or Balancer whose reading nothing has overtaken is the best one *)
(* on the chain, whatever order the discovered pools came in, and among    *)
(* equals the choice is always the same (select_best_pool,                 *)
(* quote_is_better).                                                       *)
THEOREM TheBestPoolIsChosen == Spec => []BestPoolIsChosen
<1>1. TradingInv => BestPoolIsChosen
  <2> SUFFICES ASSUME TradingInv, NEW h \in Handlers, NEW p \in {"uniswap", "balancer"},
                      NEW d \in Accepted(h, p, {"quote"}), Fresh(h), NamesNoPool(Request(h))
               PROVE  LET r == Request(h)
                          best == d.answer
                          quotes == {q \in (IF p = "uniswap" THEN UniswapQuotes(chain, r)
                                            ELSE BalancerQuotes(chain, r)) : q.amount \notin {0, Uniswap!Err}}
                          ties == {q \in quotes : q.amount = best.quoted}
                          gas(q) == IF p = "uniswap" THEN chain.pool[q.pool].gas ELSE 0
                      IN /\ [pool |-> best.pool, amount |-> best.quoted] \in quotes
                         /\ \A q \in quotes : IF r.kind = "exact_in" THEN q.amount <= best.quoted
                                              ELSE q.amount >= best.quoted
                         /\ \A q \in ties : q.pool # best.pool =>
                              \/ gas(q) > gas(best)
                              \/ gas(q) = gas(best) /\ Uniswap!Rank(q.pool) > Uniswap!Rank(best.pool)
    BY DEF BestPoolIsChosen
  <2>1. protocol = p
    BY Accepting
  <2>2. PICK r, c, best : r = Request(h) /\ c = chain /\ best = d.answer
    OBVIOUS
  <2>3. CASE p = "uniswap"
    <3>1. PICK quotes : quotes = {q \in UniswapQuotes(c, r) : q.amount \notin {0, Uniswap!Err}}
      OBVIOUS
    <3>2. PICK gas : /\ BestAnswer(best, quotes, r.kind, gas)
                     /\ \A x \in Uniswap!PoolNames : gas[x] = c.pool[x].gas
      BY <2>1, <2>2, <2>3, <3>1, BestOfUniswap DEF TradingInv
    <3>3. \A q \in quotes : q.pool \in Uniswap!PoolNames
      <4>1. c.listed.pools \subseteq Uniswap!PoolNames
        BY <2>1, <2>2, <2>3 DEF TradingInv, UniswapInv, UniswapRuns!HandlerInv, Uniswap!States
      <4>2. QED
        BY <3>1, <4>1 DEF UniswapQuotes
    <3>4. best.pool \in Uniswap!PoolNames
      <4>1. [pool |-> best.pool, amount |-> best.quoted] \in quotes
        BY <3>2 DEF BestAnswer
      <4>2. QED
        BY <3>3, <4>1
    <3>5. \A q \in {x \in quotes : x.amount = best.quoted} : q.pool # best.pool =>
            \/ c.pool[q.pool].gas > c.pool[best.pool].gas
            \/ c.pool[q.pool].gas = c.pool[best.pool].gas /\ Uniswap!Rank(q.pool) > Uniswap!Rank(best.pool)
      BY <3>2, <3>3, <3>4 DEF BestAnswer
    <3>6. QED
      BY <2>2, <2>3, <3>1, <3>2, <3>5 DEF BestAnswer
  <2>4. CASE p = "balancer"
    <3>1. PICK quotes : quotes = {q \in BalancerQuotes(c, r) : q.amount \notin {0, Uniswap!Err}}
      OBVIOUS
    <3>2. PICK gas : /\ BestAnswer(best, quotes, r.kind, gas)
                     /\ \A x \in Balancer!PoolNames : gas[x] = 0
      BY <2>1, <2>2, <2>4, <3>1, BestOfBalancer DEF TradingInv
    <3>3. \A q \in quotes : q.pool \in Balancer!PoolNames
      <4>1. PICK tokens \in BalancerLists : c \in Balancer!States(tokens)
        BY <2>1, <2>2, <2>4 DEF TradingInv, BalancerInv, BalancerRuns!HandlerInv
      <4>2. c.api \in BalancerSources /\ c.indexed \in BalancerSources
        BY <4>1, BalancerShape
      <4>3. c.api.pools \subseteq Balancer!PoolNames /\ c.indexed.pools \subseteq Balancer!PoolNames
        BY <4>2 DEF BalancerSources
      <4>4. QED
        BY <3>1, <4>3 DEF BalancerQuotes
    <3>4. best.pool \in Balancer!PoolNames
      <4>1. [pool |-> best.pool, amount |-> best.quoted] \in quotes
        BY <3>2 DEF BestAnswer
      <4>2. QED
        BY <3>3, <4>1
    <3>5. \A q \in {x \in quotes : x.amount = best.quoted} : q.pool # best.pool =>
            Uniswap!Rank(q.pool) > Uniswap!Rank(best.pool)
      BY <3>2, <3>3, <3>4 DEF BestAnswer
    <3>6. QED
      BY <2>2, <2>4, <3>1, <3>2, <3>5 DEF BestAnswer
  <2>5. QED
    BY <2>3, <2>4
<1>2. QED
  BY <1>1, TradingInvariant, PTL
=============================================================================
