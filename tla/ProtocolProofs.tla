--------------------------- MODULE ProtocolProofs ---------------------------
(***************************************************************************)
(* What the handler of ProtocolActions keeps, whatever the protocol is.    *)
(* The modules about the adapters instantiate this one as the adapters     *)
(* instantiate ProtocolActions, and cite its lemmas.                       *)
(*                                                                         *)
(* A batch is a fold of the chain over its calls.  That a fold stays in a  *)
(* set is an induction over the length of the batch, by the least element  *)
(* of a set of naturals.                                                   *)
(***************************************************************************)
EXTENDS ProtocolActions, WellFoundedInduction, TLAPS

(* A set of naturals that has 0, and the successor of each of its members, *)
(* is Nat.                                                                 *)
LEMMA SetInduction ==
    ASSUME NEW S, S \subseteq Nat, 0 \in S, \A n \in S : n + 1 \in S
    PROVE  S = Nat
<1>1. PICK lt : lt = OpToRel(<, Nat)
  OBVIOUS
<1>2. IsWellFoundedOn(lt, Nat)
  BY <1>1, NatLessThanWellFounded
<1>3. ASSUME NEW m \in Nat, m \notin S
      PROVE  FALSE
  <2>1. PICK T : T = Nat \ S
    OBVIOUS
  <2>2. PICK x \in T : \A y \in T : <<y, x>> \notin lt
    BY <1>2, <1>3, <2>1, WFMin
  <2>3. \A y \in Nat : y < x => <<y, x>> \in lt
    BY <1>1, <2>1 DEF OpToRel
  <2>4. x # 0 /\ x - 1 \in Nat /\ x - 1 < x /\ (x - 1) + 1 = x
    BY <2>1
  <2>5. QED
    BY <2>1, <2>2, <2>3, <2>4
<1>4. QED
  BY <1>3

(* What holds of 0, and of n when it holds of n - 1, holds up to N.        *)
LEMMA Upwards ==
    ASSUME NEW N \in Nat, NEW S, 0 \in S, \A n \in 1..N : n - 1 \in S => n \in S
    PROVE  0..N \subseteq S
<1> DEFINE T == {n \in Nat : n <= N => n \in S}
<1>1. 0 \in T
  OBVIOUS
<1>2. ASSUME NEW n \in T
      PROVE  n + 1 \in T
  <2>1. n \in Nat /\ n + 1 \in Nat /\ (n + 1) - 1 = n
    OBVIOUS
  <2>2. CASE n + 1 <= N
    <3>1. n + 1 \in 1..N /\ n \in S
      BY <2>1, <2>2
    <3>2. QED
      BY <2>1, <3>1
  <2>3. CASE ~(n + 1 <= N)
    BY <2>1, <2>3
  <2>4. QED
    BY <2>2, <2>3
<1>3. T = Nat
  <2>1. T \subseteq Nat
    OBVIOUS
  <2> HIDE DEF T
  <2>2. QED
    BY <1>1, <1>2, <2>1, SetInduction
<1>4. QED
  BY <1>3

(* A function of 0..N that is defined by recursion exists: its value at n  *)
(* is a step from its value at n - 1.                                      *)
Iterates(f, U, s, N, step) ==
    /\ f \in [0..N -> U]
    /\ f[0] = s
    /\ \A n \in 1..N : f[n] = step[n][f[n - 1]]

LEMMA IterationExists ==
    ASSUME NEW U, NEW s \in U, NEW N \in Nat, NEW step \in [1..N -> [U -> U]]
    PROVE  \E f : Iterates(f, U, s, N, step)
<1> DEFINE Upto(m, f) == f[0] = s /\ \A n \in 1..m : f[n] = step[n][f[n - 1]]
           S == {m \in Nat : m <= N => \E f \in [0..m -> U] : Upto(m, f)}
<1>1. 0 \in S
  <2> DEFINE f == [n \in 0..0 |-> s]
  <2>1. f \in [0..0 -> U] /\ Upto(0, f)
    OBVIOUS
  <2>2. QED
    BY <2>1
<1>2. ASSUME NEW m \in S
      PROVE  m + 1 \in S
  <2> SUFFICES ASSUME m + 1 <= N
               PROVE  \E g \in [0..m + 1 -> U] : Upto(m + 1, g)
    OBVIOUS
  <2>1. m \in Nat /\ m + 1 \in 1..N
    OBVIOUS
  <2>2. PICK f \in [0..m -> U] : Upto(m, f)
    BY <2>1
  <2>3. PICK u \in U : u = step[m + 1][f[m]]
    BY <2>1, <2>2
  <2> DEFINE g == [n \in 0..m + 1 |-> IF n = m + 1 THEN u ELSE f[n]]
  <2>4. g \in [0..m + 1 -> U] /\ g[0] = s
    BY <2>1, <2>2, <2>3
  <2>5. ASSUME NEW n \in 1..m + 1
        PROVE  g[n] = step[n][g[n - 1]]
    <3>1. n - 1 \in 0..m /\ g[n - 1] = f[n - 1] /\ n \in 0..m + 1
      BY <2>1
    <3>2. CASE n = m + 1
      <4>1. g[n] = u /\ n - 1 = m
        BY <2>1, <3>1, <3>2
      <4>2. QED
        BY <2>3, <3>1, <3>2, <4>1
    <3>3. CASE n # m + 1
      <4>1. n \in 1..m
        BY <2>1, <3>3
      <4>2. QED
        BY <2>2, <3>1, <3>3, <4>1
    <3>4. QED
      BY <3>2, <3>3
  <2>6. QED
    BY <2>4, <2>5
<1>3. S = Nat
  <2> HIDE DEF S
  <2>1. S \subseteq Nat
    BY DEF S
  <2>2. QED
    BY <1>1, <1>2, <2>1, SetInduction
<1>4. N \in S
  BY <1>3
<1>5. QED
  BY <1>4 DEF Iterates

-----------------------------------------------------------------------------
(* What a batch does.  Chains stands for the states a protocol's chain can *)
(* be in; every call of the batch leads from one of them to others.        *)

\* The states a batch passes through.
Passes(f, c, calls, Chains) ==
    /\ f \in [0..Len(calls) -> SUBSET Chains]
    /\ f[0] = {c}
    /\ \A n \in 1..Len(calls) : f[n] = UNION {Call(d, calls[n]) : d \in f[n - 1]}
    /\ Run(c, calls) = f[Len(calls)]

LEMMA RunPasses ==
    ASSUME NEW Chains, NEW c \in Chains, NEW calls, Len(calls) \in Nat,
           \A i \in 1..Len(calls), d \in Chains : Call(d, calls[i]) \subseteq Chains
    PROVE  \E f : Passes(f, c, calls, Chains)
<1> DEFINE step == [n \in 1..Len(calls) |-> [ds \in SUBSET Chains |->
                      UNION {Call(d, calls[n]) : d \in ds}]]
           Rec(g) == g = [n \in 0..Len(calls) |->
                            IF n = 0 THEN {c} ELSE UNION {Call(d, calls[n]) : d \in g[n - 1]}]
<1>1. step \in [1..Len(calls) -> [SUBSET Chains -> SUBSET Chains]]
  OBVIOUS
<1>2. PICK f \in [0..Len(calls) -> SUBSET Chains] :
        f[0] = {c} /\ \A n \in 1..Len(calls) : f[n] = step[n][f[n - 1]]
  <2>1. PICK U, one, N, s : U = SUBSET Chains /\ one = {c} /\ N = Len(calls) /\ s = step
    OBVIOUS
  <2>2. one \in U /\ N \in Nat /\ s \in [1..N -> [U -> U]]
    BY <1>1, <2>1
  <2>3. \E f : Iterates(f, U, one, N, s)
    BY <2>2, IterationExists
  <2> HIDE DEF step
  <2>4. QED
    BY <2>1, <2>3 DEF Iterates
<1>3. ASSUME NEW n \in 1..Len(calls)
      PROVE  f[n] = UNION {Call(d, calls[n]) : d \in f[n - 1]}
  <2>1. n - 1 \in 0..Len(calls) /\ f[n - 1] \in SUBSET Chains
    OBVIOUS
  <2>2. QED
    BY <1>2, <2>1
<1>4. Rec(f)
  <2>1. ASSUME NEW n \in 0..Len(calls)
        PROVE  f[n] = IF n = 0 THEN {c} ELSE UNION {Call(d, calls[n]) : d \in f[n - 1]}
    <3>1. n # 0 => n \in 1..Len(calls)
      OBVIOUS
    <3> HIDE DEF step
    <3>2. QED
      BY <1>2, <1>3, <3>1
  <2>2. f = [n \in 0..Len(calls) |-> f[n]]
    OBVIOUS
  <2>3. QED
    BY <2>1, <2>2
<1>5. PICK after : Rec(after) /\ Run(c, calls) = after[Len(calls)]
  BY <1>4 DEF Run
<1>6. /\ after[0] = {c}
      /\ \A n \in 1..Len(calls) : after[n] = UNION {Call(d, calls[n]) : d \in after[n - 1]}
  <2>1. \A n \in 0..Len(calls) :
          after[n] = IF n = 0 THEN {c} ELSE UNION {Call(d, calls[n]) : d \in after[n - 1]}
    BY <1>5
  <2>2. 0 \in 0..Len(calls) /\ \A n \in 1..Len(calls) : n \in 0..Len(calls) /\ n # 0
    OBVIOUS
  <2>3. QED
    BY <2>1, <2>2
<1>7. \A n \in 0..Len(calls) : after[n] \subseteq Chains
  <2> DEFINE S == {n \in 0..Len(calls) : after[n] \subseteq Chains}
  <2>1. 0 \in S
    BY <1>6
  <2>2. ASSUME NEW n \in 1..Len(calls), n - 1 \in S
        PROVE  n \in S
    <3>1. n \in 0..Len(calls) /\ after[n - 1] \subseteq Chains
      BY <2>2
    <3>2. QED
      BY <1>6, <3>1
  <2> HIDE DEF S
  <2>3. 0..Len(calls) \subseteq S
    BY <2>1, <2>2, Upwards
  <2>4. QED
    BY <2>3 DEF S
<1>8. after \in [0..Len(calls) -> SUBSET Chains]
  BY <1>5, <1>7
<1>9. QED
  BY <1>5, <1>6, <1>8 DEF Passes

-----------------------------------------------------------------------------
(* What a handler knows.  view is what the market's moves leave as it is.  *)

Stages == {"reading", "rejected", "answered", "simulated", "queued", "mined", "reverted"}
Compiling == {"simulated", "queued", "mined", "reverted"}

\* The chains a task may have read, by what has happened since it began.
Known(t, Chains, view) ==
    {c \in Chains : /\ t.since = "nothing" => c = chain
                    /\ t.since = "market" => view[c] = view[chain]}

IsList(s) == \E V : s \in Seq(V)
WasRead(seen, r, known) ==
    /\ Len(seen) \in 0..Len(Reads(r))
    /\ \A i \in 1..Len(seen) : \E c \in known : seen[i] = Read(c, Reads(r)[i], r)

\* seen is all that a handler of r reads, and leads to a decision of a kind.
Decides(seen, r, known, kind) ==
    /\ IsList(seen)
    /\ WasRead(seen, r, known)
    /\ Len(seen) = Len(Reads(r))
    /\ Decide(r, seen).kind = kind
Compiled(calls, r, known) ==
    \E seen : Decides(seen, r, known, "calls") /\ calls = Decide(r, seen).calls
Answered(answer, r, known) ==
    \E seen : Decides(seen, r, known, "answer") /\ answer = Decide(r, seen).answer

TaskOK(t, Chains, view) ==
    \/ t = Idle
    \/ /\ t = [stage |-> t.stage, req |-> t.req, seen |-> t.seen,
               result |-> t.result, runs |-> t.runs, since |-> t.since]
       /\ t.stage \in Stages /\ t.req \in Requests /\ t.runs \in Nat
       /\ t.since \in {"nothing", "market", "wallet"}
       /\ t.stage # "rejected" => Valid(t.req)
       /\ t.stage = "reading" => IsList(t.seen) /\ WasRead(t.seen, t.req, Known(t, Chains, view))
       /\ t.stage = "answered" => Answered(t.result, t.req, Known(t, Chains, view))
       /\ t.stage \in Compiling => Compiled(t.result, t.req, Known(t, Chains, view))

HandlerInv(Chains, view) ==
    /\ chain \in Chains
    /\ task = [h \in Handlers |-> task[h]]
    /\ \A h \in Handlers : TaskOK(task[h], Chains, view)

\* Chains is a set the market and every batch a valid request is compiled to
\* stay in.
Closed(Chains, view) ==
    /\ \A r \in Requests : Valid(r) => Len(Reads(r)) \in Nat
    /\ \A c \in Chains : \A d \in Moves(c) : d \in Chains /\ view[d] = view[c]
    /\ \A r \in Requests : \A calls :
         Valid(r) /\ Compiled(calls, r, Chains) =>
            /\ Len(calls) \in Nat
            /\ \A i \in 1..Len(calls), c \in Chains : Call(c, calls[i]) \subseteq Chains

LEMMA LongerList ==
    ASSUME NEW s, IsList(s), NEW v
    PROVE  /\ IsList(Append(s, v)) /\ Len(s) \in Nat
           /\ Len(Append(s, v)) = Len(s) + 1
           /\ \A i \in 1..Len(s) : Append(s, v)[i] = s[i]
           /\ Append(s, v)[Len(s) + 1] = v
<1>1. PICK V : s \in Seq(V)
  BY DEF IsList
<1>2. s \in Seq(V \cup {v})
  BY <1>1
<1>3. Append(s, v) \in Seq(V \cup {v})
  BY <1>2
<1>4. QED
  BY <1>2, <1>3 DEF IsList

LEMMA KnownMore ==
    ASSUME NEW known, NEW more, known \subseteq more, NEW r, NEW x
    PROVE  /\ WasRead(x, r, known) => WasRead(x, r, more)
           /\ Compiled(x, r, known) => Compiled(x, r, more)
           /\ Answered(x, r, known) => Answered(x, r, more)
<1>1. \A s : WasRead(s, r, known) => WasRead(s, r, more)
  BY DEF WasRead
<1>2. \A s, kind : Decides(s, r, known, kind) => Decides(s, r, more, kind)
  BY <1>1 DEF Decides
<1>3. QED
  BY <1>1, <1>2 DEF Compiled, Answered

\* A task the step does not touch stays what it is.
LEMMA Untouched ==
    ASSUME NEW Chains, NEW view, NEW t, TaskOK(t, Chains, view), chain' = chain
    PROVE  TaskOK(t, Chains, view)'
<1>1. Known(t, Chains, view)' = Known(t, Chains, view)
  BY DEF Known
<1>2. QED
  BY <1>1 DEF TaskOK, Known, WasRead, Answered, Compiled, Decides

\* What was read of the chain may be out of date once it has changed, by a
\* move of the market or by another batch of the wallet.
LEMMA OutOfDate ==
    ASSUME NEW Chains, NEW view, NEW t, TaskOK(t, Chains, view), t # Idle,
           chain \in Chains, chain' \in Chains, NEW by \in {"market", "wallet"},
           by = "market" => view[chain'] = view[chain]
    PROVE  LET u == IF t.since = "wallet" THEN t ELSE [t EXCEPT !.since = by]
           IN TaskOK(u, Chains, view)' /\ Known(t, Chains, view) \subseteq Known(u, Chains, view)'
<1> DEFINE u == IF t.since = "wallet" THEN t ELSE [t EXCEPT !.since = by]
<1>1. t = [stage |-> t.stage, req |-> t.req, seen |-> t.seen,
           result |-> t.result, runs |-> t.runs, since |-> t.since]
  BY DEF TaskOK
<1>2. /\ u = [stage |-> u.stage, req |-> u.req, seen |-> u.seen,
              result |-> u.result, runs |-> u.runs, since |-> u.since]
      /\ u.stage = t.stage /\ u.req = t.req /\ u.seen = t.seen
      /\ u.result = t.result /\ u.runs = t.runs
      /\ u.since = IF t.since = "wallet" THEN "wallet" ELSE by
  BY <1>1
<1>3. t.since \in {"nothing", "market", "wallet"}
  BY DEF TaskOK
<1> HIDE DEF u
<1>4. Known(t, Chains, view) \subseteq Known(u, Chains, view)'
  BY <1>2, <1>3 DEF Known
<1>5. PICK old, new : old = Known(t, Chains, view) /\ new = Known(u, Chains, view)'
  OBVIOUS
<1>6. old \subseteq new
  BY <1>4, <1>5
<1>7. /\ u.stage = "reading" => WasRead(u.seen, u.req, new)
      /\ u.stage = "answered" => Answered(u.result, u.req, new)
      /\ u.stage \in Compiling => Compiled(u.result, u.req, new)
  BY <1>2, <1>5, <1>6, KnownMore DEF TaskOK
<1>8. TaskOK(u, Chains, view)'
  BY <1>2, <1>3, <1>5, <1>7 DEF TaskOK
<1>9. QED
  BY <1>4, <1>8 DEF u

\* A step of one handler that leaves the chain alone.
LEMMA OneTask ==
    ASSUME NEW Chains, NEW view, HandlerInv(Chains, view), NEW h \in Handlers, chain' = chain,
           NEW u, task' = [task EXCEPT ![h] = u], TaskOK(u, Chains, view)'
    PROVE  HandlerInv(Chains, view)'
<1>1. /\ task' = [g \in Handlers |-> task'[g]]
      /\ task'[h] = u
      /\ \A g \in Handlers : g # h => task'[g] = task[g]
  BY DEF HandlerInv
<1>2. ASSUME NEW g \in Handlers
      PROVE  TaskOK(task[g], Chains, view)'
  <2>1. PICK t : t = task'[g]
    OBVIOUS
  <2>2. CASE g = h
    BY <1>1, <2>1, <2>2
  <2>3. CASE g # h
    <3>1. TaskOK(t, Chains, view)
      BY <1>1, <2>1, <2>3 DEF HandlerInv
    <3>2. TaskOK(t, Chains, view)'
      BY <3>1, Untouched
    <3>3. QED
      BY <2>1, <3>2
  <2>4. QED
    BY <2>2, <2>3
<1>3. QED
  BY <1>1, <1>2 DEF HandlerInv

LEMMA BeginKeeps ==
    ASSUME NEW Chains, NEW view, Closed(Chains, view), HandlerInv(Chains, view),
           NEW h \in Handlers, Begin(h)
    PROVE  HandlerInv(Chains, view)'
<1>1. PICK r \in Requests :
        task' = [task EXCEPT ![h] =
                   [stage |-> IF Valid(r) THEN "reading" ELSE "rejected", req |-> r,
                    seen |-> <<>>, result |-> <<>>, runs |-> 0, since |-> "nothing"]]
  BY DEF Begin
<1>2. chain' = chain
  BY DEF Begin
<1>3. PICK t : t = [stage |-> IF Valid(r) THEN "reading" ELSE "rejected", req |-> r,
                    seen |-> <<>>, result |-> <<>>, runs |-> 0, since |-> "nothing"]
  OBVIOUS
<1>4. IsList(<<>>) /\ \A known : Valid(r) => WasRead(<<>>, r, known)
  <2>1. <<>> \in Seq({})
    OBVIOUS
  <2>2. Valid(r) => 0 \in 0..Len(Reads(r))
    BY DEF Closed
  <2>3. QED
    BY <2>1, <2>2 DEF IsList, WasRead
<1>5. TaskOK(t, Chains, view)'
  BY <1>3, <1>4 DEF TaskOK, Stages, Compiling
<1>6. QED
  BY <1>1, <1>2, <1>3, <1>5, OneTask

LEMMA ReadNextKeeps ==
    ASSUME NEW Chains, NEW view, Closed(Chains, view), HandlerInv(Chains, view),
           NEW h \in Handlers, ReadNext(h)
    PROVE  HandlerInv(Chains, view)'
<1>1. PICK t, v : /\ t = task[h] /\ t.stage = "reading" /\ Len(t.seen) < Len(Reads(t.req))
                  /\ v = Read(chain, Reads(t.req)[Len(t.seen) + 1], t.req)
                  /\ task' = [task EXCEPT ![h].seen = Append(@, v)]
                  /\ chain' = chain
  BY DEF ReadNext
<1>2. TaskOK(t, Chains, view) /\ chain \in Chains
  BY <1>1 DEF HandlerInv
<1>3. PICK seen, u : seen = Append(t.seen, v) /\ u = [t EXCEPT !.seen = seen]
  OBVIOUS
<1>4. t # Idle
  BY <1>1 DEF Idle
<1>5. /\ t = [stage |-> t.stage, req |-> t.req, seen |-> t.seen,
              result |-> t.result, runs |-> t.runs, since |-> t.since]
      /\ t.req \in Requests /\ t.runs \in Nat /\ t.since \in {"nothing", "market", "wallet"}
      /\ Valid(t.req) /\ IsList(t.seen) /\ WasRead(t.seen, t.req, Known(t, Chains, view))
  BY <1>1, <1>2, <1>4 DEF TaskOK
<1>6. u = [stage |-> t.stage, req |-> t.req, seen |-> seen,
           result |-> t.result, runs |-> t.runs, since |-> t.since]
  BY <1>3, <1>5
<1>7. WasRead(seen, t.req, Known(t, Chains, view))
  <2>1. chain \in Known(t, Chains, view)
    BY <1>2 DEF Known
  <2>2. Len(Reads(t.req)) \in Nat
    BY <1>5 DEF Closed
  <2>3. /\ Len(t.seen) \in Nat /\ Len(seen) = Len(t.seen) + 1
        /\ \A i \in 1..Len(t.seen) : seen[i] = t.seen[i]
        /\ seen[Len(t.seen) + 1] = v
    BY <1>3, <1>5, LongerList
  <2>4. QED
    BY <1>1, <1>5, <2>1, <2>2, <2>3 DEF WasRead
<1>8. IsList(seen)
  BY <1>3, <1>5, LongerList
<1>9. Known(u, Chains, view)' = Known(t, Chains, view)
  BY <1>1, <1>6 DEF Known
<1>10. TaskOK(u, Chains, view)'
  <2>1. PICK known : known = Known(t, Chains, view)
    OBVIOUS
  <2>2. WasRead(u.seen, u.req, known) /\ u.stage = "reading"
    BY <1>1, <1>6, <1>7, <2>1
  <2>3. QED
    BY <1>5, <1>6, <1>8, <1>9, <2>1, <2>2 DEF TaskOK, Stages, Compiling
<1>11. task' = [task EXCEPT ![h] = u]
  BY <1>1, <1>3
<1>12. QED
  BY <1>1, <1>10, <1>11, OneTask

\* A handler that has read everything knows what its decision rests on.
LEMMA LeftKeeps ==
    ASSUME NEW Chains, NEW view, HandlerInv(Chains, view), NEW h \in Handlers, chain' = chain,
           HasRead(h), NEW stage, NEW result, task' = Left(h, stage, result),
           \/ stage = "rejected"
           \/ stage = "answered" /\ Decision(h).kind = "answer" /\ result = Decision(h).answer
           \/ /\ stage \in {"simulated", "queued"}
              /\ Decision(h).kind = "calls" /\ result = Decision(h).calls
    PROVE  HandlerInv(Chains, view)'
<1>1. PICK t, u : /\ t = task[h] /\ t.stage = "reading" /\ Len(t.seen) = Len(Reads(t.req))
                  /\ u = [t EXCEPT !.stage = stage, !.result = result, !.seen = <<>>]
                  /\ task' = [task EXCEPT ![h] = u]
  BY DEF HasRead, Left
<1>2. TaskOK(t, Chains, view) /\ t # Idle
  BY <1>1 DEF HandlerInv, Idle
<1>3. /\ t = [stage |-> t.stage, req |-> t.req, seen |-> t.seen,
              result |-> t.result, runs |-> t.runs, since |-> t.since]
      /\ t.req \in Requests /\ t.runs \in Nat /\ t.since \in {"nothing", "market", "wallet"}
      /\ Valid(t.req) /\ IsList(t.seen) /\ WasRead(t.seen, t.req, Known(t, Chains, view))
  BY <1>1, <1>2 DEF TaskOK
<1>4. u = [stage |-> stage, req |-> t.req, seen |-> <<>>,
           result |-> result, runs |-> t.runs, since |-> t.since]
  BY <1>1, <1>3
<1>5. PICK known : known = Known(t, Chains, view) /\ known = Known(u, Chains, view)'
  <2>1. Known(u, Chains, view)' = Known(t, Chains, view)
    BY <1>4 DEF Known
  <2>2. QED
    BY <2>1
<1>6. \A kind : Decision(h).kind = kind => Decides(t.seen, t.req, known, kind)
  BY <1>1, <1>3, <1>5 DEF Decides, Decision
<1>7. /\ stage = "answered" => Answered(result, t.req, known)
      /\ stage \in {"simulated", "queued"} => Compiled(result, t.req, known)
  BY <1>1, <1>6 DEF Answered, Compiled, Decision
<1>8. TaskOK(u, Chains, view)'
  BY <1>3, <1>4, <1>5, <1>7 DEF TaskOK, Stages, Compiling
<1>9. QED
  BY <1>1, <1>8, OneTask

LEMMA MineKeeps ==
    ASSUME NEW Chains, NEW view, Closed(Chains, view), HandlerInv(Chains, view),
           NEW h \in Handlers, Mine(h)
    PROVE  HandlerInv(Chains, view)'
<1>1. PICK t : t = task[h] /\ t.stage \in {"queued", "mined", "reverted"}
  BY DEF Mine
<1>2. TaskOK(t, Chains, view) /\ t # Idle /\ chain \in Chains
  BY <1>1 DEF HandlerInv, Idle
<1>3. /\ t = [stage |-> t.stage, req |-> t.req, seen |-> t.seen,
              result |-> t.result, runs |-> t.runs, since |-> t.since]
      /\ t.req \in Requests /\ t.runs \in Nat /\ t.since \in {"nothing", "market", "wallet"}
      /\ Valid(t.req) /\ Compiled(t.result, t.req, Known(t, Chains, view))
  BY <1>1, <1>2 DEF TaskOK, Compiling
<1>4. PICK stage : stage = IF Run(chain, t.result) = {} THEN "reverted" ELSE "mined"
  OBVIOUS
<1>5. PICK u : u = [t EXCEPT !.runs = @ + 1, !.stage = stage]
  OBVIOUS
<1>6. PICK done : done = [task EXCEPT ![h] = u]
  OBVIOUS
<1>7. \/ chain' = chain /\ task' = done
      \/ chain' \in Run(chain, t.result) /\ task' = Overtaken(done, "wallet")
  <2>1. done = [task EXCEPT ![h].runs = @ + 1, ![h].stage = IF Run(chain, task[h].result) = {}
                                                            THEN "reverted" ELSE "mined"]
    BY <1>1, <1>4, <1>5, <1>6
  <2>2. \/ chain' = chain /\ task' = done
        \/ /\ chain' \in Run(chain, task[h].result)
           /\ task' = IF chain' = chain THEN done ELSE Overtaken(done, "wallet")
    BY <2>1 DEF Mine
  <2>3. QED
    BY <1>1, <2>2
<1>8. u = [stage |-> stage, req |-> t.req, seen |-> t.seen,
           result |-> t.result, runs |-> t.runs + 1, since |-> t.since]
  BY <1>3, <1>5
<1>9. TaskOK(u, Chains, view) /\ u # Idle
  <2>1. PICK known : known = Known(t, Chains, view) /\ known = Known(u, Chains, view)
    BY <1>8 DEF Known
  <2>2. Compiled(u.result, u.req, known)
    BY <1>3, <1>8, <2>1
  <2>3. u # Idle
    BY <1>4, <1>8 DEF Idle
  <2>4. /\ u = [stage |-> u.stage, req |-> u.req, seen |-> u.seen,
                result |-> u.result, runs |-> u.runs, since |-> u.since]
        /\ u.stage = stage /\ u.req = t.req /\ u.runs \in Nat /\ u.since = t.since
    BY <1>3, <1>8
  <2>5. QED
    BY <1>3, <1>4, <2>1, <2>2, <2>3, <2>4 DEF TaskOK, Stages, Compiling
<1>10. CASE chain' = chain /\ task' = done
  BY <1>6, <1>9, <1>10, Untouched, OneTask
<1>11. CASE chain' \in Run(chain, t.result) /\ task' = Overtaken(done, "wallet")
  <2>1. chain' \in Chains
    <3>1. Known(t, Chains, view) \subseteq Chains
      BY DEF Known
    <3>2. Compiled(t.result, t.req, Chains)
      BY <1>3, <3>1, KnownMore
    <3>3. PICK f : Passes(f, chain, t.result, Chains)
      BY <1>2, <1>3, <3>2, RunPasses DEF Closed
    <3>4. Len(t.result) \in Nat
      BY <1>3, <3>2 DEF Closed
    <3>5. QED
      BY <1>11, <3>3, <3>4 DEF Passes
  <2>2. ASSUME NEW g \in Handlers
        PROVE  TaskOK(task[g], Chains, view)'
    <3>1. PICK old, new : old = done[g] /\ new = task'[g]
      OBVIOUS
    <3>2. TaskOK(old, Chains, view)
      BY <1>6, <1>9, <3>1 DEF HandlerInv
    <3>3. new = IF old.stage = "idle" \/ old.since = "wallet" THEN old
                ELSE [old EXCEPT !.since = "wallet"]
      BY <1>11, <3>1 DEF Overtaken
    <3>4. CASE old = Idle
      BY <3>1, <3>3, <3>4 DEF Idle, TaskOK
    <3>5. CASE old # Idle
      <4>1. old.stage # "idle"
        BY <3>2, <3>5 DEF TaskOK, Stages
      <4>2. TaskOK(new, Chains, view)'
        BY <1>2, <2>1, <3>2, <3>3, <3>5, <4>1, OutOfDate
      <4>3. QED
        BY <3>1, <4>2
    <3>6. QED
      BY <3>4, <3>5
  <2>3. task' = [g \in Handlers |-> task'[g]]
    BY <1>11 DEF Overtaken
  <2>4. QED
    BY <2>1, <2>2, <2>3 DEF HandlerInv
<1>12. QED
  BY <1>7, <1>10, <1>11

LEMMA MoveKeeps ==
    ASSUME NEW Chains, NEW view, Closed(Chains, view), HandlerInv(Chains, view), Move
    PROVE  HandlerInv(Chains, view)'
<1>1. chain \in Chains /\ chain' \in Chains /\ view[chain'] = view[chain]
  BY DEF Closed, HandlerInv, Move
<1>2. ASSUME NEW g \in Handlers
      PROVE  TaskOK(task[g], Chains, view)'
  <2>1. PICK old, new : old = task[g] /\ new = task'[g]
    OBVIOUS
  <2>2. TaskOK(old, Chains, view)
    BY <2>1 DEF HandlerInv
  <2>3. new = IF old.stage = "idle" \/ old.since = "wallet" THEN old
              ELSE [old EXCEPT !.since = "market"]
    BY <2>1 DEF Overtaken, Move
  <2>4. CASE old = Idle
    BY <2>1, <2>3, <2>4 DEF Idle, TaskOK
  <2>5. CASE old # Idle
    <3>1. old.stage # "idle"
      BY <2>2, <2>5 DEF TaskOK, Stages
    <3>2. TaskOK(new, Chains, view)'
      BY <1>1, <2>2, <2>3, <2>5, <3>1, OutOfDate
    <3>3. QED
      BY <2>1, <3>2
  <2>6. QED
    BY <2>4, <2>5
<1>3. task' = [g \in Handlers |-> task'[g]]
  BY DEF Overtaken, Move
<1>4. QED
  BY <1>1, <1>2, <1>3 DEF HandlerInv

LEMMA HandlerStep ==
    ASSUME NEW Chains, NEW view, Closed(Chains, view), HandlerInv(Chains, view), Next
    PROVE  HandlerInv(Chains, view)'
<1>1. ASSUME NEW h \in Handlers, Begin(h) \/ ReadNext(h) \/ Mine(h)
      PROVE  HandlerInv(Chains, view)'
  BY <1>1, BeginKeeps, ReadNextKeeps, MineKeeps
<1>2. ASSUME NEW h \in Handlers, Answer(h)
      PROVE  HandlerInv(Chains, view)'
  <2>1. PICK result : result = Decision(h).answer
    OBVIOUS
  <2>2. QED
    BY <1>2, <2>1, LeftKeeps DEF Answer
<1>3. ASSUME NEW h \in Handlers, Simulate(h) \/ Submit(h)
      PROVE  HandlerInv(Chains, view)'
  <2>1. PICK result : result = Decision(h).calls
    OBVIOUS
  <2>2. /\ chain' = chain /\ HasRead(h)
        /\ \/ Decision(h).kind = "calls" /\ task' = Left(h, "simulated", result)
           \/ Decision(h).kind = "calls" /\ task' = Left(h, "queued", result)
           \/ task' = Left(h, "rejected", <<>>)
    BY <1>3, <2>1 DEF Simulate, Submit
  <2>3. QED
    BY <2>1, <2>2, LeftKeeps
<1>4. QED
  BY <1>1, <1>2, <1>3, MoveKeeps DEF Next

\* A batch takes effect in no other way than by a run of what was compiled.
LEMMA TakesEffect ==
    ASSUME NEW Chains, NEW view, HandlerInv(Chains, view), Next,
           NEW h \in Handlers, Succeeded(h)
    PROVE  /\ task[h] # Idle /\ TaskOK(task[h], Chains, view) /\ task[h].stage \in Compiling
           /\ chain' \in Run(chain, task[h].result)
<1>1. PICK t, u : /\ t = task[h] /\ u = task'[h] /\ t.stage # "idle"
                  /\ u.runs > t.runs /\ u.stage = "mined"
  BY DEF Succeeded, Executed
<1>2. TaskOK(t, Chains, view) /\ t # Idle
  BY <1>1 DEF HandlerInv, Idle
<1>3. /\ t = [stage |-> t.stage, req |-> t.req, seen |-> t.seen,
              result |-> t.result, runs |-> t.runs, since |-> t.since]
      /\ t.runs \in Nat
  BY <1>2 DEF TaskOK
<1>4. ~(u = t) /\ ~\E x : u = [t EXCEPT !.since = x]
  <2>1. \A x : [t EXCEPT !.since = x].runs = t.runs
    BY <1>3
  <2>2. ~(u.runs = t.runs)
    BY <1>1, <1>3
  <2>3. QED
    BY <2>1, <2>2
<1>5. Mine(h)
  <2>1. ~Move
    BY <1>1, <1>4 DEF Move, Overtaken
  <2>2. ASSUME NEW g \in Handlers, Begin(g) \/ ReadNext(g) \/ Answer(g) \/ Simulate(g) \/ Submit(g)
        PROVE  FALSE
    <3>1. g # h => u = t
      BY <1>1, <2>2 DEF HandlerInv, Begin, ReadNext, Answer, Simulate, Submit, Left
    <3>2. g = h => u.runs = t.runs
      BY <1>1, <1>3, <2>2 DEF HandlerInv, Begin, ReadNext, Answer, Simulate, Submit, Left
    <3>3. QED
      BY <1>1, <1>3, <1>4, <3>1, <3>2
  <2>3. ASSUME NEW g \in Handlers, Mine(g), g # h
        PROVE  FALSE
    <3>1. PICK done : /\ done[h] = t
                      /\ task' = done \/ task' = Overtaken(done, "wallet")
      BY <1>1, <2>3 DEF Mine, HandlerInv
    <3>2. QED
      BY <1>1, <1>4, <3>1 DEF Overtaken
  <2>4. QED
    BY <2>1, <2>2, <2>3 DEF Next
<1>6. chain' \in Run(chain, t.result) /\ t.stage \in Compiling
  <2>1. CASE Run(chain, t.result) = {}
    BY <1>1, <1>3, <1>5, <2>1 DEF Mine, HandlerInv
  <2>2. QED
    BY <1>1, <1>5, <2>1 DEF Mine, Compiling
<1>7. QED
  BY <1>1, <1>2, <1>6

\* What a task that nothing has overtaken was read from the chain as it is.
LEMMA FreshIsCurrent ==
    ASSUME NEW Chains, NEW view, NEW h \in Handlers, TaskOK(task[h], Chains, view),
           task[h].stage # "idle", Fresh(h), chain \in Chains
    PROVE  Known(task[h], Chains, view) = {chain}
BY DEF Fresh, Since, Known

LEMMA HandlerStart ==
    ASSUME NEW Chains, NEW view, chain \in Chains, task = [h \in Handlers |-> Idle]
    PROVE  HandlerInv(Chains, view)
BY DEF HandlerInv, TaskOK

\* A batch of calls that keep Chains ends in it, with its last call.
LEMMA RunStays ==
    ASSUME NEW Chains, NEW c \in Chains, NEW calls, Len(calls) \in Nat,
           \A i \in 1..Len(calls), d \in Chains : Call(d, calls[i]) \subseteq Chains,
           NEW d \in Run(c, calls)
    PROVE  /\ d \in Chains
           /\ Len(calls) > 0 => \E b \in Chains : d \in Call(b, calls[Len(calls)])
<1>1. PICK f : Passes(f, c, calls, Chains)
  BY RunPasses
<1>2. d \in f[Len(calls)] /\ f[Len(calls)] \subseteq Chains
  BY <1>1 DEF Passes
<1>3. ASSUME Len(calls) > 0
      PROVE  \E b \in Chains : d \in Call(b, calls[Len(calls)])
  <2>1. PICK n : n = Len(calls) /\ n \in 1..Len(calls) /\ n - 1 \in 0..Len(calls)
    BY <1>3
  <2>2. f[n] = UNION {Call(b, calls[n]) : b \in f[n - 1]} /\ f[n - 1] \subseteq Chains
    BY <1>1, <2>1 DEF Passes
  <2>3. QED
    BY <1>2, <2>1, <2>2
<1>4. QED
  BY <1>2, <1>3

\* The chain changes by a move of the market or by a batch, and by nothing else.
LEMMA ChainChanges ==
    ASSUME NEW Chains, NEW view, HandlerInv(Chains, view), Next
    PROVE  \/ chain' = chain
           \/ chain' \in Moves(chain)
           \/ \E h \in Handlers : /\ task[h] # Idle /\ TaskOK(task[h], Chains, view)
                                  /\ task[h].stage \in Compiling
                                  /\ chain' \in Run(chain, task[h].result)
                                  /\ task'[h].runs > 0
<1>1. CASE Move
  BY <1>1 DEF Move
<1>2. ASSUME NEW h \in Handlers, Begin(h) \/ ReadNext(h) \/ Answer(h) \/ Simulate(h) \/ Submit(h)
      PROVE  chain' = chain
  BY <1>2 DEF Begin, ReadNext, Answer, Simulate, Submit
<1>3. ASSUME NEW h \in Handlers, Mine(h), chain' # chain
      PROVE  /\ task[h] # Idle /\ TaskOK(task[h], Chains, view)
             /\ task[h].stage \in Compiling
             /\ chain' \in Run(chain, task[h].result)
             /\ task'[h].runs > 0
  <2>1. task[h].stage \in {"queued", "mined", "reverted"} /\ chain' \in Run(chain, task[h].result)
    BY <1>3 DEF Mine
  <2>2. task[h] # Idle /\ TaskOK(task[h], Chains, view) /\ task[h].stage \in Compiling
    BY <2>1 DEF Compiling, HandlerInv, Idle
  <2>3. PICK t : t = task[h]
    OBVIOUS
  <2>4. /\ t = [stage |-> t.stage, req |-> t.req, seen |-> t.seen,
                result |-> t.result, runs |-> t.runs, since |-> t.since]
        /\ t.runs \in Nat
    BY <2>2, <2>3 DEF TaskOK
  <2>5. PICK stage : stage = IF Run(chain, task[h].result) = {} THEN "reverted" ELSE "mined"
    OBVIOUS
  <2>6. PICK v : v = [t EXCEPT !.runs = @ + 1, !.stage = stage]
    OBVIOUS
  <2>7. /\ v = [stage |-> stage, req |-> t.req, seen |-> t.seen,
                result |-> t.result, runs |-> t.runs + 1, since |-> t.since]
        /\ v.runs > 0
    <3>1. PICK more : more = t.runs + 1 /\ more > 0
      BY <2>4
    <3>2. v = [t EXCEPT !.runs = more, !.stage = stage]
      BY <2>6, <3>1
    <3>3. v = [stage |-> stage, req |-> t.req, seen |-> t.seen,
               result |-> t.result, runs |-> more, since |-> t.since]
      BY <2>4, <3>2
    <3>4. QED
      BY <3>1, <3>3
  <2>8. PICK done : /\ done = [task EXCEPT ![h].runs = @ + 1, ![h].stage = stage]
                    /\ task' = Overtaken(done, "wallet")
    BY <1>3, <2>5 DEF Mine
  <2>9. done[h] = v
    BY <2>3, <2>6, <2>8 DEF HandlerInv
  <2>10. task'[h] = v \/ task'[h] = [v EXCEPT !.since = "wallet"]
    BY <2>8, <2>9 DEF Overtaken
  <2>11. task'[h].runs = v.runs
    BY <2>7, <2>10
  <2>12. QED
    BY <2>1, <2>2, <2>7, <2>11
<1>4. QED
  BY <1>1, <1>2, <1>3 DEF Next

\* A handler keeps its request, and what it ran it has run.
LEMMA RequestStays ==
    ASSUME NEW Chains, NEW view, HandlerInv(Chains, view), Next,
           NEW h \in Handlers, task[h] # Idle
    PROVE  task'[h] # Idle /\ task'[h].req = task[h].req /\ (task[h].runs > 0 => task'[h].runs > 0)
<1>1. PICK t, u : t = task[h] /\ u = task'[h]
  OBVIOUS
<1>2. /\ t = [stage |-> t.stage, req |-> t.req, seen |-> t.seen,
              result |-> t.result, runs |-> t.runs, since |-> t.since]
      /\ t.stage # "idle" /\ t.runs \in Nat
  BY <1>1 DEF HandlerInv, TaskOK, Stages
<1>3. SUFFICES u.stage # "idle" /\ u.req = t.req /\ (t.runs > 0 => u.runs > 0)
  BY <1>1 DEF Idle
<1>4. ASSUME NEW by, NEW v, v.req = t.req, v.stage # "idle", t.runs > 0 => v.runs > 0,
             v = [stage |-> v.stage, req |-> v.req, seen |-> v.seen,
                  result |-> v.result, runs |-> v.runs, since |-> v.since],
             u = IF v.stage = "idle" \/ v.since = "wallet" THEN v ELSE [v EXCEPT !.since = by]
      PROVE  u.stage # "idle" /\ u.req = t.req /\ (t.runs > 0 => u.runs > 0)
  BY <1>4
<1>5. CASE Move
  <2>1. u = IF t.stage = "idle" \/ t.since = "wallet" THEN t ELSE [t EXCEPT !.since = "market"]
    BY <1>1, <1>5 DEF Move, Overtaken
  <2>2. QED
    BY <1>2, <1>4, <2>1
<1>6. ASSUME NEW g \in Handlers, Begin(g) \/ ReadNext(g) \/ Answer(g) \/ Simulate(g) \/ Submit(g)
      PROVE  u.stage # "idle" /\ u.req = t.req /\ (t.runs > 0 => u.runs > 0)
  <2>1. CASE g # h
    <3>1. u = t
      BY <1>1, <1>6, <2>1 DEF HandlerInv, Begin, ReadNext, Answer, Simulate, Submit, Left
    <3>2. QED
      BY <1>2, <3>1
  <2>2. CASE g = h
    <3>1. \/ \E seen : u = [t EXCEPT !.seen = seen]
          \/ \E stage, result :
               /\ u = [t EXCEPT !.stage = stage, !.result = result, !.seen = <<>>]
               /\ stage \in {"answered", "simulated", "queued", "rejected"}
      <4>1. ~Begin(h)
        BY <1>1, <1>2 DEF Begin
      <4>2. CASE ReadNext(h)
        BY <1>1, <4>2 DEF ReadNext, HandlerInv
      <4>3. CASE Answer(h) \/ Simulate(h) \/ Submit(h)
        <5>1. PICK stage, result : /\ task' = Left(h, stage, result)
                                   /\ stage \in {"answered", "simulated", "queued", "rejected"}
          BY <4>3 DEF Answer, Simulate, Submit
        <5>2. QED
          BY <1>1, <5>1 DEF Left, HandlerInv
      <4>4. QED
        BY <1>6, <2>2, <4>1, <4>2, <4>3
    <3>2. QED
      BY <1>2, <3>1
  <2>3. QED
    BY <2>1, <2>2
<1>7. ASSUME NEW g \in Handlers, Mine(g)
      PROVE  u.stage # "idle" /\ u.req = t.req /\ (t.runs > 0 => u.runs > 0)
  <2>1. PICK done : /\ done = [task EXCEPT ![g].runs = @ + 1,
                                           ![g].stage = IF Run(chain, task[g].result) = {} THEN "reverted" ELSE "mined"]
                    /\ task' = done \/ task' = Overtaken(done, "wallet")
    BY <1>7 DEF Mine
  <2>2. PICK v : v = done[h]
    OBVIOUS
  <2>3. v = t \/ \E stage : v = [t EXCEPT !.runs = t.runs + 1, !.stage = stage] /\ stage \in {"reverted", "mined"}
    BY <1>1, <2>1, <2>2 DEF HandlerInv
  <2>4. /\ v = [stage |-> v.stage, req |-> v.req, seen |-> v.seen,
                result |-> v.result, runs |-> v.runs, since |-> v.since]
        /\ v.stage # "idle" /\ v.req = t.req /\ (t.runs > 0 => v.runs > 0)
    <3>1. PICK more : more = t.runs + 1 /\ more > 0
      BY <1>2
    <3>2. v = t \/ \E stage : v = [t EXCEPT !.runs = more, !.stage = stage] /\ stage \in {"reverted", "mined"}
      BY <2>3, <3>1
    <3>3. QED
      BY <1>2, <3>1, <3>2
  <2>5. u = v \/ u = IF v.stage = "idle" \/ v.since = "wallet" THEN v ELSE [v EXCEPT !.since = "wallet"]
    BY <1>1, <2>1, <2>2 DEF Overtaken
  <2>6. QED
    BY <1>4, <2>4, <2>5
<1>8. QED
  BY <1>5, <1>6, <1>7 DEF Next

\* The states a batch passes through on one of its ways.
Path(g, c, calls, Chains) ==
    /\ g \in [0..Len(calls) -> Chains]
    /\ g[0] = c
    /\ \A n \in 1..Len(calls) : g[n] \in Call(g[n - 1], calls[n])

LEMMA RunPath ==
    ASSUME NEW Chains, NEW c \in Chains, NEW calls, Len(calls) \in Nat,
           \A i \in 1..Len(calls), d \in Chains : Call(d, calls[i]) \subseteq Chains,
           NEW d \in Run(c, calls)
    PROVE  \E g : Path(g, c, calls, Chains) /\ g[Len(calls)] = d
<1>1. PICK f : Passes(f, c, calls, Chains)
  BY RunPasses
<1>2. PICK N : N = Len(calls) /\ N \in Nat
  OBVIOUS
<1>3. /\ f \in [0..N -> SUBSET Chains] /\ f[0] = {c} /\ d \in f[N]
      /\ \A n \in 1..N : f[n] = UNION {Call(e, calls[n]) : e \in f[n - 1]}
  BY <1>1, <1>2 DEF Passes
<1> DEFINE Leads(m, g, x) == /\ g \in [0..m -> Chains] /\ g[0] = c /\ g[m] = x
                             /\ \A n \in 1..m : g[n] \in Call(g[n - 1], calls[n])
           S == {m \in 0..N : \A x \in f[m] : \E g : Leads(m, g, x)}
<1>4. 0 \in S
  <2> DEFINE g == [n \in 0..0 |-> c]
  <2>1. Leads(0, g, c)
    OBVIOUS
  <2>2. \E h : Leads(0, h, c)
    BY <2>1
  <2>3. \A x \in f[0] : x = c
    BY <1>3
  <2> HIDE DEF Leads
  <2>4. QED
    BY <1>2, <2>2, <2>3
<1>5. ASSUME NEW m \in 1..N, m - 1 \in S
      PROVE  m \in S
  <2>1. SUFFICES ASSUME NEW x \in f[m]
                 PROVE  \E g : Leads(m, g, x)
    BY <1>2
  <2>2. PICK e \in f[m - 1] : x \in Call(e, calls[m])
    BY <1>3
  <2>3. PICK p : Leads(m - 1, p, e)
    BY <1>5
  <2>4. x \in Chains
    BY <1>2, <1>3
  <2> DEFINE g == [n \in 0..m |-> IF n = m THEN x ELSE p[n]]
  <2>5. g \in [0..m -> Chains] /\ g[0] = c /\ g[m] = x
    BY <1>2, <2>3, <2>4
  <2>6. ASSUME NEW n \in 1..m
        PROVE  g[n] \in Call(g[n - 1], calls[n])
    <3>1. n - 1 \in 0..m - 1 /\ g[n - 1] = p[n - 1] /\ n \in 0..m
      BY <1>2
    <3>2. CASE n = m
      BY <2>2, <2>3, <3>1, <3>2
    <3>3. CASE n # m
      <4>1. n \in 1..m - 1
        BY <1>2, <3>3
      <4>2. QED
        BY <2>3, <3>1, <3>3, <4>1
    <3>4. QED
      BY <3>2, <3>3
  <2>7. Leads(m, g, x)
    BY <2>5, <2>6
  <2>8. QED
    BY <2>7
<1>6. N \in S
  <2> HIDE DEF S
  <2>1. 0..N \subseteq S
    BY <1>2, <1>4, <1>5, Upwards
  <2>2. QED
    BY <1>2, <2>1
<1>7. QED
  BY <1>2, <1>3, <1>6 DEF Path

LEMMA PathRuns ==
    ASSUME NEW Chains, NEW c \in Chains, NEW calls, Len(calls) \in Nat,
           \A i \in 1..Len(calls), d \in Chains : Call(d, calls[i]) \subseteq Chains,
           NEW g, Path(g, c, calls, Chains)
    PROVE  g[Len(calls)] \in Run(c, calls)
<1>1. PICK f : Passes(f, c, calls, Chains)
  BY RunPasses
<1>2. PICK N : N = Len(calls) /\ N \in Nat
  OBVIOUS
<1> DEFINE S == {m \in 0..N : g[m] \in f[m]}
<1>3. 0 \in S
  BY <1>1, <1>2 DEF Passes, Path
<1>4. ASSUME NEW m \in 1..N, m - 1 \in S
      PROVE  m \in S
  <2>1. m \in 0..N /\ g[m - 1] \in f[m - 1] /\ g[m] \in Call(g[m - 1], calls[m])
    BY <1>2, <1>4 DEF Path
  <2>2. f[m] = UNION {Call(e, calls[m]) : e \in f[m - 1]}
    BY <1>1, <1>2 DEF Passes
  <2>3. QED
    BY <2>1, <2>2
<1>5. N \in S
  <2> HIDE DEF S
  <2>1. 0..N \subseteq S
    BY <1>2, <1>3, <1>4, Upwards
  <2>2. QED
    BY <1>2, <2>1
<1>6. QED
  BY <1>1, <1>2, <1>5 DEF Passes

\* The calls from the p-th state to the q-th keep the set A.
Keeps(A, calls, p, q, Chains) ==
    \A i \in p + 1..q : \A x \in A, y \in Chains :
       x \in Chains /\ y \in Call(x, calls[i]) => y \in A

\* A path stays in a set that the calls from its p-th to its q-th state keep.
LEMMA PathKeeps ==
    ASSUME NEW Chains, NEW c, NEW calls, Len(calls) \in Nat, NEW g, Path(g, c, calls, Chains),
           NEW p \in 0..Len(calls), NEW q \in p..Len(calls), NEW A, g[p] \in A,
           Keeps(A, calls, p, q, Chains)
    PROVE  g[q] \in A
<1>1. PICK N : N = Len(calls) /\ N \in Nat
  OBVIOUS
<1>q. q \in Nat
  BY <1>1
<1> DEFINE S == {n \in 0..q : n >= p => g[n] \in A}
<1>2. 0 \in S
  BY <1>1
<1>3. ASSUME NEW n \in 1..q, n - 1 \in S
      PROVE  n \in S
  <2>1. SUFFICES ASSUME n >= p
                 PROVE  g[n] \in A
    BY <1>1
  <2>2. CASE n = p
    BY <2>2
  <2>3. CASE n # p
    <3>1. n \in p + 1..q /\ n - 1 >= p /\ g[n - 1] \in A /\ n \in 1..N /\ n - 1 \in 0..N /\ n \in 0..N
      BY <1>1, <1>3, <2>1, <2>3
    <3>2. g[n] \in Call(g[n - 1], calls[n]) /\ g[n - 1] \in Chains /\ g[n] \in Chains
      BY <1>1, <3>1 DEF Path
    <3>3. QED
      BY <3>1, <3>2 DEF Keeps
  <2>4. QED
    BY <2>2, <2>3
<1>4. q \in S
  <2> HIDE DEF S
  <2>1. 0..q \subseteq S
    BY <1>2, <1>3, <1>q, Upwards
  <2>2. QED
    BY <1>q, <2>1
<1>5. QED
  BY <1>1, <1>4

-----------------------------------------------------------------------------
(* The folds of the library, over a sequence of N elements: a function of  *)
(* the sets of indices, which takes the largest index last.                *)

Largest(s) == CHOOSE x \in s : \A y \in s : x >= y

Folds(it, U, base, N, step) ==
    /\ it \in [SUBSET (1..N) -> U]
    /\ \A s \in SUBSET (1..N) :
         it[s] = IF s = {} THEN base ELSE step[Largest(s)][it[s \ {Largest(s)}]]

LEMMA LargestIs ==
    ASSUME NEW m \in Nat, NEW s \in SUBSET (1..m), m \in s
    PROVE  Largest(s) = m
<1>1. \A y \in s : y \in Nat /\ m >= y
  OBVIOUS
<1>2. /\ Largest(s) \in s
      /\ \A y \in s : Largest(s) >= y
  BY <1>1 DEF Largest
<1>3. PICK x : x = Largest(s) /\ x \in Nat /\ m >= x /\ x >= m
  BY <1>1, <1>2
<1>4. QED
  BY <1>3

LEMMA FoldExists ==
    ASSUME NEW U, NEW base \in U, NEW N \in Nat, NEW step \in [1..N -> [U -> U]]
    PROVE  \E it : Folds(it, U, base, N, step)
<1> DEFINE S == {m \in Nat : m <= N => \E it : Folds(it, U, base, m, step)}
<1>1. 0 \in S
  <2> DEFINE it == [s \in SUBSET (1..0) |-> base]
  <2>1. \A s \in SUBSET (1..0) : s = {}
    OBVIOUS
  <2>2. Folds(it, U, base, 0, step)
    BY <2>1 DEF Folds
  <2>3. QED
    BY <2>2
<1>2. ASSUME NEW m \in S
      PROVE  m + 1 \in S
  <2> SUFFICES ASSUME m + 1 <= N
               PROVE  \E it : Folds(it, U, base, m + 1, step)
    OBVIOUS
  <2>1. m \in Nat /\ m + 1 \in 1..N /\ 1..m \subseteq 1..m + 1
    OBVIOUS
  <2>2. PICK old : Folds(old, U, base, m, step)
    BY <2>1
  <2>3. \A s \in SUBSET (1..m + 1) : s \ {m + 1} \in SUBSET (1..m) /\ (m + 1 \notin s => s \in SUBSET (1..m))
    BY <2>1
  <2> DEFINE it == [s \in SUBSET (1..m + 1) |->
                      IF m + 1 \in s THEN step[m + 1][old[s \ {m + 1}]] ELSE old[s]]
  <2>4. it \in [SUBSET (1..m + 1) -> U]
    <3>1. ASSUME NEW s \in SUBSET (1..m + 1)
          PROVE  (IF m + 1 \in s THEN step[m + 1][old[s \ {m + 1}]] ELSE old[s]) \in U
      <4>1. CASE m + 1 \in s
        <5>1. old[s \ {m + 1}] \in U
          BY <2>2, <2>3 DEF Folds
        <5>2. QED
          BY <2>1, <4>1, <5>1
      <4>2. CASE m + 1 \notin s
        BY <2>2, <2>3, <4>2 DEF Folds
      <4>3. QED
        BY <4>1, <4>2
    <3>2. QED
      BY <3>1
  <2>5. ASSUME NEW s \in SUBSET (1..m + 1)
        PROVE  it[s] = IF s = {} THEN base ELSE step[Largest(s)][it[s \ {Largest(s)}]]
    <3>1. CASE m + 1 \in s
      <4>1. Largest(s) = m + 1
        BY <2>1, <3>1, LargestIs
      <4>2. s \ {m + 1} \in SUBSET (1..m + 1) /\ m + 1 \notin s \ {m + 1}
        OBVIOUS
      <4>3. it[s \ {m + 1}] = old[s \ {m + 1}]
        BY <4>2
      <4>4. it[s] = step[m + 1][old[s \ {m + 1}]]
        BY <3>1
      <4>5. QED
        BY <3>1, <4>1, <4>3, <4>4
    <3>2. CASE m + 1 \notin s
      <4>1. s \in SUBSET (1..m) /\ it[s] = old[s]
        BY <2>3, <3>2
      <4>2. \A t \in SUBSET (1..m) : it[t] = old[t]
        <5>1. ASSUME NEW t \in SUBSET (1..m)
              PROVE  it[t] = old[t]
          <6>1. t \in SUBSET (1..m + 1) /\ m + 1 \notin t
            BY <2>1
          <6>2. QED
            BY <6>1
        <5>2. QED
          BY <5>1
      <4>3. old[s] = IF s = {} THEN base ELSE step[Largest(s)][old[s \ {Largest(s)}]]
        BY <2>2, <4>1 DEF Folds
      <4>4. s \ {Largest(s)} \in SUBSET (1..m)
        BY <4>1
      <4>5. it[s \ {Largest(s)}] = old[s \ {Largest(s)}]
        BY <4>2, <4>4
      <4>6. QED
        BY <4>1, <4>3, <4>5
    <3>3. QED
      BY <3>1, <3>2
  <2>6. Folds(it, U, base, m + 1, step)
    <3> HIDE DEF it
    <3>1. QED
      BY <2>4, <2>5 DEF Folds
  <2>7. QED
    BY <2>6
<1>3. S = Nat
  <2> HIDE DEF S
  <2>1. S \subseteq Nat
    BY DEF S
  <2>2. QED
    BY <1>1, <1>2, <2>1, SetInduction
<1>4. N \in S
  BY <1>3
<1>5. QED
  BY <1>4

LEMMA FoldSteps ==
    ASSUME NEW U, NEW base, NEW N \in Nat, NEW step, NEW it,
           \A s \in SUBSET (1..N) :
              it[s] = IF s = {} THEN base ELSE step[Largest(s)][it[s \ {Largest(s)}]]
    PROVE  /\ it[1..0] = base
           /\ \A n \in 1..N : it[1..n] = step[n][it[1..n - 1]]
<1>1. it[1..0] = base
  <2>1. 1..0 = {} /\ 1..0 \in SUBSET (1..N)
    OBVIOUS
  <2>2. QED
    BY <2>1
<1>2. ASSUME NEW n \in 1..N
      PROVE  it[1..n] = step[n][it[1..n - 1]]
  <2>1. PICK s : s = 1..n
    OBVIOUS
  <2>2. s \in SUBSET (1..N) /\ n \in s /\ n \in Nat /\ s \in SUBSET (1..n)
    BY <2>1
  <2>3. Largest(s) = n
    BY <2>2, LargestIs
  <2>4. s \ {n} = 1..n - 1
    BY <2>1
  <2>5. QED
    BY <2>1, <2>2, <2>3, <2>4
<1>3. QED
  BY <1>1, <1>2

LEMMA LargestIn ==
    ASSUME NEW N \in Nat, NEW s \in SUBSET (1..N), s # {}
    PROVE  Largest(s) \in s
<1> DEFINE S == {n \in 0..N : \A t \in SUBSET (1..n) : t # {} => \E x \in t : \A y \in t : x >= y}
<1>1. 0 \in S
  <2>1. \A t \in SUBSET (1..0) : t = {}
    OBVIOUS
  <2>2. 0 \in 0..N
    OBVIOUS
  <2>3. \A t \in SUBSET (1..0) : t # {} => \E x \in t : \A y \in t : x >= y
    BY <2>1
  <2>4. QED
    BY <2>2, <2>3, Zenon
<1>2. ASSUME NEW n \in 1..N, n - 1 \in S
      PROVE  n \in S
  <2>1. ASSUME NEW t \in SUBSET (1..n), t # {}
        PROVE  \E x \in t : \A y \in t : x >= y
    <3>1. CASE n \in t
      <4>1. \A y \in t : n >= y
        OBVIOUS
      <4>2. QED
        BY <3>1, <4>1
    <3>2. CASE n \notin t
      <4>1. t \in SUBSET (1..n - 1)
        BY <3>2
      <4>2. QED
        BY <1>2, <2>1, <4>1
    <3>3. QED
      BY <3>1, <3>2
  <2>2. QED
    BY <2>1
<1>3. N \in S
  <2> HIDE DEF S
  <2>1. 0..N \subseteq S
    BY <1>1, <1>2, Upwards
  <2>2. QED
    BY <2>1
<1>4. \E x \in s : \A y \in s : x >= y
  BY <1>3
<1>5. QED
  BY <1>4 DEF Largest

\* The largest index of 1..n, and what is left without it.
LEMMA LargestOfAll ==
    ASSUME NEW n \in Nat, n > 0
    PROVE  1..n # {} /\ Largest(1..n) = n /\ (1..n) \ {n} = 1..n - 1
<1>1. n \in 1..n /\ 1..n \in SUBSET (1..n)
  OBVIOUS
<1>2. Largest(1..n) = n
  BY <1>1, LargestIs
<1>3. (1..n) \ {n} = 1..n - 1
  OBVIOUS
<1>4. QED
  BY <1>1, <1>2, <1>3
=============================================================================
