---------------------------- MODULE SearchCache ----------------------------
(***************************************************************************)
(* Searches and their two-tier cache: Searcher.Search over HybridCache,    *)
(* with a memory cache (L1) in each server process and one Redis (L2) that *)
(* the servers share.  Nothing invalidates an entry: reindexing, deletion  *)
(* and a change of the embedding model only change what the next search    *)
(* that misses reads.                                                      *)
(*                                                                         *)
(* Entries of different keys never meet, so one key stands for all; its    *)
(* result is the version of the index it was read from.  Time advances in  *)
(* ticks, and an entry carries the ticks it has left and, for the          *)
(* properties, its age since it was read from the index.                   *)
(***************************************************************************)
EXTENDS Integers

CONSTANTS
    Servers,      \* server processes
    Searches,     \* requests being served
    Modes,        \* what NewHybridCache may return to a starting server
    SearchTTL,    \* the TTL Search passes to Set (1 hour)
    MemoryTTL,    \* default expiration of the memory cache (5 minutes)
    Latency,      \* assumption: a search takes at most this many ticks
    MaxVersion    \* bound: changes of the index

\* "nil" is the nil *HybridCache that main passes on after an error.
ASSUME ModeAssumption == Modes \subseteq {"off", "memory", "hybrid", "nil"}
ASSUME TTLAssumption ==
    SearchTTL \in Nat \ {0} /\ MemoryTTL \in Nat \ {0}
ASSUME LatencyAssumption == Latency \in Nat /\ MaxVersion \in Nat

VARIABLES
    version,     \* what the vector store holds
    mode,        \* mode[s]: the cache of server s
    memory,      \* memory[s]: its L1 entry
    redis,       \* the L2 entry
    pc, server,  \* where each search is, and on which server
    result,      \* what it has read so far
    elapsed      \* ticks since it began

vars == <<version, mode, memory, redis, pc, server, result, elapsed>>

Versions == 0..MaxVersion
PC == {"idle", "get_l2", "promote", "query", "set_l1", "set_l2", "panic"}
None == [ver |-> 0, age |-> 0, left |-> 0]
Entry(res, ttl) == [ver |-> res.ver, age |-> res.age, left |-> ttl]
Live(e) == e.left > 0
NoResult == [ver |-> 0, age |-> 0]

Init ==
    /\ version = 0
    /\ mode \in [Servers -> Modes]
    /\ memory = [s \in Servers |-> None]
    /\ redis = None
    /\ pc = [q \in Searches |-> "idle"]
    /\ server \in [Searches -> Servers]
    /\ result = [q \in Searches |-> NoResult]
    /\ elapsed = [q \in Searches |-> 0]

Goto(q, label) == pc' = [pc EXCEPT ![q] = label]

\* The search returns to its client.
Return(q) ==
    /\ Goto(q, "idle")
    /\ result' = [result EXCEPT ![q] = NoResult]
    /\ elapsed' = [elapsed EXCEPT ![q] = 0]

-----------------------------------------------------------------------------
\* Search calls Get, which finds a live entry in memory.
HitMemory(q, s) ==
    /\ pc[q] = "idle"
    /\ mode[s] \in {"memory", "hybrid"}
    /\ Live(memory[s])
    /\ server' = [server EXCEPT ![q] = s]
    /\ UNCHANGED <<version, mode, memory, redis, pc, result, elapsed>>

\* Get does not find it in memory; without Redis that is a miss.  A nil
\* *HybridCache is a non-nil ports.Cache, so Get is called and panics.
MissMemory(q, s) ==
    /\ pc[q] = "idle"
    /\ mode[s] \in {"memory", "hybrid"} => ~Live(memory[s])
    /\ server' = [server EXCEPT ![q] = s]
    /\ Goto(q, CASE mode[s] = "hybrid" -> "get_l2"
                 [] mode[s] = "nil" -> "panic"
                 [] OTHER -> "query")
    /\ UNCHANGED <<version, mode, memory, redis, result, elapsed>>

\* redis.Get finds the key.
HitRedis(q) ==
    /\ pc[q] = "get_l2"
    /\ Live(redis)
    /\ result' = [result EXCEPT ![q] = [ver |-> redis.ver, age |-> redis.age]]
    /\ Goto(q, "promote")
    /\ UNCHANGED <<version, mode, memory, redis, server, elapsed>>

\* redis.Nil, or a Redis error that is logged and treated as a miss.
MissRedis(q) ==
    /\ pc[q] = "get_l2"
    /\ Goto(q, "query")
    /\ UNCHANGED <<version, mode, memory, redis, server, result, elapsed>>

\* Mutants: the promoted entry gets the full TTL in memory; or each hit
\* extends its life in Redis (its age begins anew, to keep the states finite).
PromoteForLong(q) ==
    /\ pc[q] = "promote"
    /\ memory' = [memory EXCEPT ![server[q]] = Entry(result[q], SearchTTL)]
    /\ Return(q)
    /\ UNCHANGED <<version, mode, redis, server>>
PromoteSliding(q) ==
    /\ pc[q] = "promote"
    /\ memory' = [memory EXCEPT ![server[q]] = Entry(result[q], MemoryTTL)]
    /\ redis' = Entry([result[q] EXCEPT !.age = 0], SearchTTL)
    /\ Return(q)
    /\ UNCHANGED <<version, mode, server>>

\* memory.Set(key, val, cache.DefaultExpiration): the entry gets a full
\* lifetime in memory, however little it had left in Redis.
Promote(q) ==
    /\ pc[q] = "promote"
    /\ memory' = [memory EXCEPT ![server[q]] = Entry(result[q], MemoryTTL)]
    /\ Return(q)
    /\ UNCHANGED <<version, mode, redis, server>>

\* Embed and SearchSimilar: the vector store answers from what it holds now.
Query(q) ==
    /\ pc[q] = "query"
    /\ result' = [result EXCEPT ![q] = [ver |-> version, age |-> 0]]
    /\ Goto(q, "set_l1")
    /\ UNCHANGED <<version, mode, memory, redis, server, elapsed>>

\* Embed or SearchSimilar fails, or there are no results, which Search does
\* not cache.
QueryInVain(q) ==
    /\ pc[q] = "query"
    /\ Return(q)
    /\ UNCHANGED <<version, mode, memory, redis, server>>

\* Set, the memory part; a disabled cache stores nothing.
SetMemory(q) ==
    /\ pc[q] = "set_l1"
    /\ IF mode[server[q]] = "off"
       THEN UNCHANGED memory
       ELSE memory' = [memory EXCEPT ![server[q]] = Entry(result[q], SearchTTL)]
    /\ IF mode[server[q]] = "hybrid"
       THEN Goto(q, "set_l2") /\ UNCHANGED <<result, elapsed>>
       ELSE Return(q)
    /\ UNCHANGED <<version, mode, redis, server>>

\* Set, the Redis part; an error is logged.
SetRedis(q) ==
    /\ pc[q] = "set_l2"
    /\ redis' \in {Entry(result[q], SearchTTL), redis}
    /\ Return(q)
    /\ UNCHANGED <<version, mode, memory, server>>

\* The panic is recovered per request: the client gets an error.
Recovered(q) ==
    /\ pc[q] = "panic"
    /\ Return(q)
    /\ UNCHANGED <<version, mode, memory, redis, server>>

Step(q) ==
    \/ HitRedis(q) \/ MissRedis(q) \/ Promote(q) \/ Query(q) \/ QueryInVain(q)
    \/ SetMemory(q) \/ SetRedis(q) \/ Recovered(q)

-----------------------------------------------------------------------------
\* Indexing, deletion or a new embedding model changes what a search finds.
IndexChanges ==
    /\ version < MaxVersion
    /\ version' = version + 1
    /\ UNCHANGED <<mode, memory, redis, pc, server, result, elapsed>>

Older(e) == IF e.left <= 1 THEN None
            ELSE [e EXCEPT !.age = @ + 1, !.left = @ - 1]

Tick ==
    /\ \A q \in Searches : pc[q] # "idle" => elapsed[q] < Latency
    /\ memory' = [s \in Servers |-> Older(memory[s])]
    /\ redis' = Older(redis)
    /\ result' = [q \in Searches |->
                    IF pc[q] \in {"promote", "set_l1", "set_l2"}
                    THEN [result[q] EXCEPT !.age = @ + 1] ELSE result[q]]
    /\ elapsed' = [q \in Searches |->
                     IF pc[q] = "idle" THEN 0 ELSE elapsed[q] + 1]
    /\ UNCHANGED <<version, mode, pc, server>>

\* A server process restarts: its memory is gone, and it pings Redis anew.
Restart(s) ==
    /\ memory' = [memory EXCEPT ![s] = None]
    /\ \E m \in Modes : mode' = [mode EXCEPT ![s] = m]
    /\ pc' = [q \in Searches |-> IF server[q] = s THEN "idle" ELSE pc[q]]
    /\ result' = [q \in Searches |->
                    IF server[q] = s THEN NoResult ELSE result[q]]
    /\ elapsed' = [q \in Searches |-> IF server[q] = s THEN 0 ELSE elapsed[q]]
    /\ UNCHANGED <<version, redis, server>>

\* Redis evicts the entry or restarts empty.
RedisForgets ==
    /\ redis' = None
    /\ UNCHANGED <<version, mode, memory, pc, server, result, elapsed>>

Next ==
    \/ \E q \in Searches, s \in Servers : HitMemory(q, s) \/ MissMemory(q, s)
    \/ \E q \in Searches : Step(q)
    \/ \E s \in Servers : Restart(s)
    \/ IndexChanges \/ Tick \/ RedisForgets

Spec == Init /\ [][Next]_vars

\* Time passes, and every request a search makes returns.
FairSpec == Spec /\ WF_vars(Tick) /\ \A q \in Searches : WF_vars(Step(q))

-----------------------------------------------------------------------------
TypeOK ==
    /\ version \in Versions
    /\ mode \in [Servers -> Modes]
    /\ memory \in [Servers -> [ver : Versions, age : Nat, left : Nat]]
    /\ redis \in [ver : Versions, age : Nat, left : Nat]
    /\ pc \in [Searches -> PC]
    /\ server \in [Searches -> Servers]
    /\ result \in [Searches -> [ver : Versions, age : Nat]]
    /\ elapsed \in [Searches -> 0..Latency]

\* The longest a cached result can outlive what it was read from: until the
\* last tick of a life in Redis, promoted then, until the last tick of a life
\* in memory, and the time of the two searches that carried it.
StaleBound == (SearchTTL - 1) + (MemoryTTL - 1) + 2 * Latency

\* No server ever answers from the cache with a result older than that,
\* however searches, promotions, restarts and index changes interleave; a
\* slow search that overwrites a newer entry included.
BoundedStaleness ==
    \A s \in Servers : Live(memory[s]) => memory[s].age <= StaleBound

\* Once the index stops changing, every server comes to answer with what it
\* holds and keeps doing so, although entries are promoted over and over.
AllCurrent ==
    /\ Live(redis) => redis.ver = version
    /\ \A s \in Servers : Live(memory[s]) => memory[s].ver = version
Converges == \A v \in Versions : <>[](version = v) => <>[]AllCurrent
=============================================================================
