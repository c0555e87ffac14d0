---------------------------- MODULE PoolDiscovery ----------------------------
(***************************************************************************)
(* How the protocol services learn which pools and markets exist: they ask *)
(* the log index of a block explorer (external) and share the answer in a  *)
(* cache of the process.  Uniswap asks once per pair, with a time limit;   *)
(* Balancer's registered pools and Morpho's markets come in pages.         *)
(*                                                                         *)
(* Pools are numbered in the order they are created; block[p] is the block *)
(* of pool p.  A listing is what one discovery returned.                   *)
(***************************************************************************)
EXTENDS Naturals, Sequences, FiniteSets, FiniteSetsExt

CONSTANTS
    Callers,      \* concurrent requests that need the listing
    MaxPools,
    PageSize,     \* entries of one answer of the index (PAGE_SIZE)
    MaxPages,     \* MAX_PAGES
    TTL,          \* DISCOVERY_CACHE_TTL, MARKET_CACHE_TTL
    HttpTimeout,  \* of the Uniswap request; the others have none
    MaxTime

VARIABLES
    service,      \* whose cache this is: Uniswap's, or one that is paged
    block,        \* chain: block[p], the block that created pool p
    born,         \* history: born[p], when pool p was created
    cache,        \* what was listed last
    caller,       \* caller[c]: a discovery that is being made, or how it ended
    now

vars == <<service, block, born, cache, caller, now>>

Created == 1..Len(block)

\* began and refused are history: how many pools there were when the discovery
\* started, and whether the index answered it with an empty refusal.
NoEntry == [at |-> 0, pools |-> {}, began |-> 0, refused |-> FALSE, known |-> FALSE]

\* knew is history: there was an entry when the discovery started.  asked is
\* how many pools there were when the present page was asked for.
Idle == [at |-> "answered", from |-> 0, page |-> 0, got |-> {}, began |-> 0, asked |-> 0,
         since |-> 0, snapshot |-> NoEntry, knew |-> FALSE]

Init ==
    /\ service \in {"uniswap", "paged"}
    /\ block = <<>>
    /\ born = <<>>
    /\ cache = NoEntry
    /\ caller = [c \in Callers |-> Idle]
    /\ now = 0

Update(c, changed) == caller' = [caller EXCEPT ![c] = changed]
Environment == UNCHANGED <<service, block, born, now>>

Young(entry) == entry.known /\ now < entry.at + TTL

\* discover_pool_keys, discover_registered_pools, discover_markets: an entry
\* younger than the TTL is the answer; otherwise the index is asked.  Only
\* Uniswap keeps what it read, and only its client has a time limit.
Lookup(c) ==
    /\ caller[c].at # "fetch"
    /\ \/ /\ Young(cache)
          /\ Update(c, Idle)
       \/ /\ ~Young(cache)
          /\ Update(c, [Idle EXCEPT !.at = "fetch", !.page = 1, !.began = Len(block),
                           !.asked = Len(block), !.knew = cache.known,
                           !.since = IF service = "uniswap" THEN now ELSE 0,
                           !.snapshot = IF service = "uniswap" THEN cache ELSE NoEntry])
    /\ Environment
    /\ UNCHANGED cache

\* The first PageSize of a set of pools, in the order of the chain.
FirstOf(pools) == {p \in pools : Cardinality({q \in pools : q < p}) < PageSize}

\* What the index may answer to c for logs from a block to the latest: it
\* looked some time between the question and now.
Answers(c, from) ==
    {{p \in 1..k : block[p] >= from} : k \in caller[c].asked..Len(block)}

\* Mutant of NextFrom: pages do not overlap.
NextFromAfter(logs) == Max({block[p] : p \in logs}) + 1

\* The boundary block is asked for again.
NextFrom(logs) == Max({block[p] : p \in logs})

\* A listing is the answer and replaces the entry of the cache, whatever that
\* is by now.
Listed(c, pools, refused) ==
    /\ cache' = [at |-> now, pools |-> pools, began |-> caller[c].began,
                 refused |-> refused, known |-> TRUE]
    /\ Update(c, Idle)
    /\ Environment

\* Mutant of Failed: an entry that is too old is not answered.
FailedWithoutEntry(c, entry) ==
    /\ Update(c, IF Young(entry) THEN Idle
                 ELSE [Idle EXCEPT !.at = "failed", !.knew = caller[c].knew])
    /\ UNCHANGED cache
    /\ Environment

\* A fetch that failed is answered with the entry, however old, if there is
\* one.
Failed(c, entry) ==
    /\ Update(c, IF entry.known THEN Idle
                 ELSE [Idle EXCEPT !.at = "failed", !.knew = caller[c].knew])
    /\ UNCHANGED cache
    /\ Environment

\* Uniswap falls back on what it read before the request, the others read the
\* cache again.
FallBack(c) == Failed(c, IF service = "uniswap" THEN caller[c].snapshot ELSE cache)

\* fetch_pool_keys_from_blockscout: the one answer is the listing, unless the
\* index holds more than it returns.
FetchPair(c) ==
    /\ caller[c].at = "fetch" /\ service = "uniswap"
    /\ \E logs \in Answers(c, 0) :
         IF Cardinality(logs) < PageSize THEN Listed(c, logs, FALSE) ELSE FallBack(c)

\* The index answers with a status that is not "1" and no entries, as it does
\* when it has none and when it has not yet indexed them: not an error.
FetchPairRefused(c) ==
    /\ caller[c].at = "fetch" /\ service = "uniswap"
    /\ Listed(c, {}, TRUE)

\* fetch_registered_pools_from_blockscout, fetch_markets_from_blockscout: a
\* short page is the last, and a full one must reach a later block.
FetchPage(c) ==
    /\ caller[c].at = "fetch" /\ service = "paged"
    /\ \E answer \in Answers(c, caller[c].from) :
         LET logs == FirstOf(answer)
             all == caller[c].got \cup logs
         IN \/ /\ Cardinality(logs) < PageSize
               /\ Listed(c, all, FALSE)
            \/ /\ Cardinality(logs) = PageSize
               /\ IF NextFrom(logs) <= caller[c].from \/ caller[c].page = MaxPages
                  THEN FallBack(c)
                  ELSE /\ Update(c, [caller[c] EXCEPT !.got = all, !.page = @ + 1,
                                        !.asked = Len(block), !.from = NextFrom(logs)])
                       /\ UNCHANGED cache
                       /\ Environment

\* After the first page an empty refusal is taken for the end, before it for
\* an error.
FetchPageRefused(c) ==
    /\ caller[c].at = "fetch" /\ service = "paged"
    /\ IF caller[c].page > 1
       THEN Listed(c, caller[c].got, TRUE)
       ELSE FallBack(c)

\* The request, its status or its decoding fails.
FetchFails(c) ==
    /\ caller[c].at = "fetch"
    /\ FallBack(c)

-----------------------------------------------------------------------------
\* A pool is created, in the block of the last one or in a later one.
Create ==
    LET last == IF block = <<>> THEN 0 ELSE block[Len(block)]
    IN /\ Len(block) < MaxPools
       /\ \E b \in {Max({last, 1}), last + 1} : block' = Append(block, b)
       /\ born' = Append(born, now)
       /\ UNCHANGED <<service, cache, caller, now>>

\* Uniswap's request has ended when its time limit has passed.
MayWait(c) ==
    caller[c].at = "fetch" /\ service = "uniswap" => now < caller[c].since + HttpTimeout

Tick ==
    /\ now < MaxTime
    /\ \A c \in Callers : MayWait(c)
    /\ now' = now + 1
    /\ UNCHANGED <<service, block, born, cache, caller>>

Next ==
    \/ \E c \in Callers : \/ Lookup(c) \/ FetchPair(c) \/ FetchPairRefused(c)
                          \/ FetchPage(c) \/ FetchPageRefused(c) \/ FetchFails(c)
    \/ Create
    \/ Tick

Spec == Init /\ [][Next]_vars
=============================================================================
