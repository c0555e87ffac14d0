----------------------------- MODULE KeyIssuance -----------------------------
(***************************************************************************)
(* POST /api-keys, which needs no key: create_api_key_handler and its      *)
(* limit of keys per client and window (src/api/routes/mod.rs).  The       *)
(* counter is a Redis key that one script increments and lets expire.      *)
(*                                                                         *)
(* Time passes in units of which Second make a second; Redis gives a TTL   *)
(* in whole seconds, rounded to the nearest.                               *)
(***************************************************************************)
EXTENDS Integers, FiniteSets, FiniteSetsExt

CONSTANTS
    Visitors,     \* concurrent requests of one client address
    Limit,        \* PUBLIC_API_KEY_LIMIT; 0 is no limit
    WindowSecs,   \* PUBLIC_API_KEY_WINDOW_SECS
    Second,
    MaxTime,
    MaxRequests

VARIABLES
    counter,      \* Redis: the count and when it expires (and, as history,
                  \* when it was started), or no key
    visitor,      \* visitor[v]: where a request is, and when it was let in
    issued,       \* rows of api_keys, by the time their requests were let in
    promises,     \* history: refusals, and when the client may come back
    requests,
    now

vars == <<counter, visitor, issued, promises, requests, now>>

NoCounter == [count |-> 0, expires |-> 0, since |-> 0]
Away == [at |-> "away", since |-> 0]
WindowLength == (IF WindowSecs > 1 THEN WindowSecs ELSE 1) * Second

Init ==
    /\ counter = NoCounter
    /\ visitor = [v \in Visitors |-> Away]
    /\ issued = {}
    /\ promises = {}
    /\ requests = 0
    /\ now = 0

\* TTL of the script, in seconds.
Ttl(c) == (2 * (c.expires - now) + Second) \div (2 * Second)

\* Mutant of Counted: every request renews the time to live.
CountedAnew == [count |-> counter.count + 1, expires |-> now + WindowLength,
                since |-> IF counter.count = 0 THEN now ELSE counter.since]

\* INCR, and EXPIRE for the first of a window.
Counted ==
    IF counter.count = 0 THEN [count |-> 1, expires |-> now + WindowLength, since |-> now]
    ELSE [counter EXCEPT !.count = @ + 1]

LetIn(c) == Limit = 0 \/ c.count <= Limit

\* The label and the client address are accepted and the limit is enforced;
\* a request turned away (400, 503, 429) has no other effect.
RequestKey(v) ==
    /\ visitor[v].at = "away"
    /\ requests < MaxRequests
    /\ requests' = requests + 1
    /\ counter' = IF Limit = 0 THEN counter ELSE Counted
    /\ IF LetIn(counter')
       THEN /\ visitor' = [visitor EXCEPT ![v] = [at |-> "insert", since |-> now]]
            /\ UNCHANGED promises
       ELSE /\ promises' = promises \cup
                            {[refused |-> now, back |-> now + Max({Ttl(counter'), 1}) * Second]}
            /\ UNCHANGED visitor
    /\ UNCHANGED <<issued, now>>

\* Redis does not answer: 503, the script executed or not.
LimiterFails(v) ==
    /\ visitor[v].at = "away"
    /\ requests < MaxRequests
    /\ requests' = requests + 1
    /\ counter' \in {counter, IF Limit = 0 THEN counter ELSE Counted}
    /\ UNCHANGED <<visitor, issued, promises, now>>

\* db::create_api_key: a row and 201, or 500 with the row or without it; the
\* place in the window is spent either way.
InsertRow(v) ==
    /\ visitor[v].at = "insert"
    /\ issued' \in {issued, issued \cup {[id |-> Cardinality(issued) + 1,
                                         since |-> visitor[v].since]}}
    /\ visitor' = [visitor EXCEPT ![v] = Away]
    /\ UNCHANGED <<counter, promises, requests, now>>

\* Time passes and Redis drops a key that expired.
Tick ==
    /\ now < MaxTime
    /\ now' = now + 1
    /\ counter' = IF counter.count > 0 /\ counter.expires <= now' THEN NoCounter ELSE counter
    /\ UNCHANGED <<visitor, issued, promises, requests>>

Next ==
    \/ \E v \in Visitors : RequestKey(v) \/ LimiterFails(v) \/ InsertRow(v)
    \/ Tick

Spec == Init /\ [][Next]_vars
=============================================================================
