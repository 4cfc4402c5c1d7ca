---------------------------- MODULE SearchProofs ----------------------------
(***************************************************************************)
(* Proofs about the parts of SearchParts: SearchCache, for any number of   *)
(* servers and searches and any lifetimes, and VectorSearch, for any index *)
(* and any limits.                                                         *)
(***************************************************************************)
EXTENDS SearchParts, SequenceLemmas, FiniteSetTheorems, TLAPS

USE ModeAssumption, TTLAssumption, LatencyAssumption

LEMMA TypeInit == Init => TypeOK
<1>. SUFFICES ASSUME Init PROVE TypeOK
  OBVIOUS
<1>1. None \in [ver : Versions, age : Nat, left : Nat]
  BY DEF None, Versions
<1>2. NoResult \in [ver : Versions, age : Nat]
  BY DEF NoResult, Versions
<1>. QED
  BY <1>1, <1>2 DEF Init, TypeOK, Versions, PC

LEMMA OlderType ==
    ASSUME NEW e \in [ver : Versions, age : Nat, left : Nat]
    PROVE  /\ Older(e) \in [ver : Versions, age : Nat, left : Nat]
           /\ Live(Older(e)) => /\ Live(e)
                                /\ Older(e).age + Older(e).left = e.age + e.left
<1>1. CASE e.left <= 1
  BY <1>1 DEF Older, None, Versions, Live
<1>2. CASE e.left > 1
  <2>1. Older(e) = [e EXCEPT !.age = @ + 1, !.left = @ - 1]
    BY <1>2 DEF Older
  <2>2. Older(e) = [ver |-> e.ver, age |-> e.age + 1, left |-> e.left - 1]
    BY <2>1
  <2>. QED
    BY <1>2, <2>2 DEF Live
<1>. QED
  BY <1>1, <1>2

LEMMA EntryType ==
    ASSUME NEW res \in [ver : Versions, age : Nat], NEW ttl \in Nat
    PROVE  /\ Entry(res, ttl) \in [ver : Versions, age : Nat, left : Nat]
           /\ Entry(res, ttl).age = res.age /\ Entry(res, ttl).left = ttl
BY DEF Entry

LEMMA TypeStep == TypeOK /\ [Next]_vars => TypeOK'
<1>. SUFFICES ASSUME TypeOK, [Next]_vars PROVE TypeOK'
  OBVIOUS
<1>. USE DEF TypeOK, Versions, PC, None, NoResult
<1>1. ASSUME NEW q \in Searches, NEW s \in Servers,
             HitMemory(q, s) \/ MissMemory(q, s)
      PROVE  TypeOK'
  <2>1. \/ pc' = pc
        \/ \E l \in {"get_l2", "panic", "query"} : pc' = [pc EXCEPT ![q] = l]
    BY <1>1 DEF HitMemory, MissMemory, Goto
  <2>2. pc' \in [Searches -> PC]
    BY <2>1
  <2>. QED
    BY <1>1, <2>2 DEF HitMemory, MissMemory
<1>2. ASSUME NEW q \in Searches, HitRedis(q) PROVE TypeOK'
  BY <1>2 DEF HitRedis, Goto
<1>3. ASSUME NEW q \in Searches, MissRedis(q) PROVE TypeOK'
  BY <1>3 DEF MissRedis, Goto
<1>4. ASSUME NEW q \in Searches, Promote(q) PROVE TypeOK'
  BY <1>4 DEF Promote, Entry, Return, Goto
<1>5. ASSUME NEW q \in Searches, Query(q) PROVE TypeOK'
  BY <1>5 DEF Query, Goto
<1>6. ASSUME NEW q \in Searches, QueryInVain(q) PROVE TypeOK'
  BY <1>6 DEF QueryInVain, Return, Goto
<1>7. ASSUME NEW q \in Searches, SetMemory(q) PROVE TypeOK'
  <2>. DEFINE Entries == [ver : Versions, age : Nat, left : Nat]
  <2>0. Entry(result[q], SearchTTL) \in Entries /\ memory \in [Servers -> Entries]
    BY EntryType
  <2>1. memory' \in [Servers -> Entries]
    <3>. HIDE DEF Entries
    <3>. QED
      BY <1>7, <2>0 DEF SetMemory
  <2>2. /\ pc' \in [Searches -> PC]
        /\ result' \in [Searches -> [ver : Versions, age : Nat]]
        /\ elapsed' \in [Searches -> 0..Latency]
    <3>1. CASE pc' = [pc EXCEPT ![q] = "set_l2"] /\ UNCHANGED <<result, elapsed>>
      BY <3>1
    <3>2. CASE Return(q)
      BY <3>2 DEF Return, Goto
    <3>. QED
      BY <1>7, <3>1, <3>2 DEF SetMemory, Goto
  <2>. QED
    BY <1>7, <2>1, <2>2 DEF SetMemory
<1>8. ASSUME NEW q \in Searches, SetRedis(q) PROVE TypeOK'
  BY <1>8 DEF SetRedis, Entry, Return, Goto
<1>9. ASSUME NEW q \in Searches, Recovered(q) PROVE TypeOK'
  BY <1>9 DEF Recovered, Return, Goto
<1>10. ASSUME NEW s \in Servers, Restart(s) PROVE TypeOK'
  BY <1>10 DEF Restart
<1>11. CASE IndexChanges
  BY <1>11 DEF IndexChanges
<1>12. CASE Tick
  <2>1. memory' \in [Servers -> [ver : Versions, age : Nat, left : Nat]]
    BY <1>12, OlderType DEF Tick
  <2>2. redis' \in [ver : Versions, age : Nat, left : Nat]
    BY <1>12, OlderType DEF Tick
  <2>3. result' \in [Searches -> [ver : Versions, age : Nat]]
    <3>1. ASSUME NEW q \in Searches
          PROVE  (IF pc[q] \in {"promote", "set_l1", "set_l2"}
                  THEN [result[q] EXCEPT !.age = @ + 1] ELSE result[q])
                   \in [ver : Versions, age : Nat]
      OBVIOUS
    <3>. QED
      BY <1>12, <3>1 DEF Tick
  <2>4. elapsed' \in [Searches -> 0..Latency]
    <3>1. ASSUME NEW q \in Searches
          PROVE  (IF pc[q] = "idle" THEN 0 ELSE elapsed[q] + 1) \in 0..Latency
      BY <1>12, LatencyAssumption DEF Tick
    <3>. QED
      BY <1>12, <3>1 DEF Tick
  <2>. QED
    BY <1>12, <2>1, <2>2, <2>3, <2>4 DEF Tick
<1>13. CASE RedisForgets
  BY <1>13 DEF RedisForgets
<1>14. CASE UNCHANGED vars
  BY <1>14 DEF vars
<1>. QED
  BY <1>1, <1>2, <1>3, <1>4, <1>5, <1>6, <1>7, <1>8, <1>9, <1>10, <1>11,
     <1>12, <1>13, <1>14 DEF Next, Step

\* Every variable keeps its type; in particular no search exceeds Latency.
THEOREM TypeCorrect == Spec => []TypeOK
BY TypeInit, TypeStep, PTL DEF Spec

-----------------------------------------------------------------------------
(* Age and remaining life of an entry add up to a constant while it lives, *)
(* so it is enough to bound the sum when the entry is written.             *)

RedisBound == SearchTTL + Latency

Aging ==
    /\ Live(redis) => redis.age + redis.left <= RedisBound
    /\ \A s \in Servers :
         Live(memory[s]) => memory[s].age + memory[s].left <= StaleBound + 1
    /\ \A q \in Searches :
         /\ pc[q] \in {"set_l1", "set_l2"} => result[q].age <= elapsed[q]
         /\ pc[q] = "promote" => result[q].age < RedisBound + elapsed[q]

LEMMA AgingStep == TypeOK /\ Aging /\ [Next]_vars => Aging'
<1>. SUFFICES ASSUME TypeOK, Aging, [Next]_vars PROVE Aging'
  OBVIOUS
<1>. USE DEF TypeOK, Aging, RedisBound, StaleBound, None, NoResult, Live
<1>1. ASSUME NEW q \in Searches, NEW s \in Servers,
             HitMemory(q, s) \/ MissMemory(q, s)
      PROVE  Aging'
  BY <1>1 DEF HitMemory, MissMemory, Goto
<1>2. ASSUME NEW q \in Searches, HitRedis(q) PROVE Aging'
  BY <1>2 DEF HitRedis, Goto
<1>3. ASSUME NEW q \in Searches, MissRedis(q) PROVE Aging'
  BY <1>3 DEF MissRedis, Goto
<1>4. ASSUME NEW q \in Searches, Promote(q) PROVE Aging'
  BY <1>4 DEF Promote, Entry, Return, Goto
<1>5. ASSUME NEW q \in Searches, Query(q) PROVE Aging'
  BY <1>5 DEF Query, Goto
<1>6. ASSUME NEW q \in Searches, QueryInVain(q) PROVE Aging'
  BY <1>6 DEF QueryInVain, Return, Goto
<1>7. ASSUME NEW q \in Searches, SetMemory(q) PROVE Aging'
  <2>1. result[q].age <= Latency
    BY <1>7 DEF SetMemory
  <2>2. ASSUME NEW s \in Servers, Live(memory'[s])
        PROVE  memory'[s].age + memory'[s].left <= StaleBound + 1
    <3>1. CASE memory'[s] = memory[s]
      BY <2>2, <3>1
    <3>2. CASE memory'[s] = Entry(result[q], SearchTTL)
      BY <2>1, <3>2, EntryType
    <3>. QED
      BY <1>7, <3>1, <3>2 DEF SetMemory
  <2>3. ASSUME NEW p \in Searches
        PROVE  /\ pc'[p] \in {"set_l1", "set_l2"} => result'[p].age <= elapsed'[p]
               /\ pc'[p] = "promote" => result'[p].age < RedisBound + elapsed'[p]
    BY <1>7 DEF SetMemory, Return, Goto
  <2>. QED
    BY <1>7, <2>2, <2>3 DEF SetMemory
<1>8. ASSUME NEW q \in Searches, SetRedis(q) PROVE Aging'
  BY <1>8 DEF SetRedis, Entry, Return, Goto
<1>9. ASSUME NEW q \in Searches, Recovered(q) PROVE Aging'
  BY <1>9 DEF Recovered, Return, Goto
<1>10. ASSUME NEW s \in Servers, Restart(s) PROVE Aging'
  BY <1>10 DEF Restart
<1>11. CASE IndexChanges
  BY <1>11 DEF IndexChanges
<1>12. CASE Tick
  <2>1. Live(redis') => redis'.age + redis'.left <= RedisBound
    BY <1>12, OlderType DEF Tick
  <2>2. ASSUME NEW s \in Servers, Live(memory'[s])
        PROVE  memory'[s].age + memory'[s].left <= StaleBound + 1
    BY <1>12, <2>2, OlderType DEF Tick
  <2>3. ASSUME NEW q \in Searches, pc'[q] \in {"set_l1", "set_l2"}
        PROVE  result'[q].age <= elapsed'[q]
    BY <1>12, <2>3 DEF Tick
  <2>4. ASSUME NEW q \in Searches, pc'[q] = "promote"
        PROVE  result'[q].age < RedisBound + elapsed'[q]
    BY <1>12, <2>4 DEF Tick
  <2>. QED
    BY <2>1, <2>2, <2>3, <2>4
<1>13. CASE RedisForgets
  BY <1>13 DEF RedisForgets
<1>14. CASE UNCHANGED vars
  BY <1>14 DEF vars
<1>. QED
  BY <1>1, <1>2, <1>3, <1>4, <1>5, <1>6, <1>7, <1>8, <1>9, <1>10, <1>11,
     <1>12, <1>13, <1>14 DEF Next, Step

\* No cached answer is older than one life in Redis, one in memory and the
\* two searches that carried it.
THEOREM StalenessIsBounded == Spec => []BoundedStaleness
<1>1. Init => Aging
  BY DEF Init, Aging, Live, None
<1>2. TypeOK /\ Aging => BoundedStaleness
  BY DEF TypeOK, Aging, BoundedStaleness, Live, StaleBound
<1>. QED
  BY <1>1, <1>2, TypeInit, TypeStep, AgingStep, PTL DEF Spec

-----------------------------------------------------------------------------
(* The ranking of what is found.                                           *)

\* The request bears what its caller asked for.
Requested ==
    stage \in {"embedded", "done"} =>
        request.minScore = Ranking!MinScore /\ \A n \in limit : request.limit = n

RankingInv ==
    /\ Ranking!TypeOK
    /\ caller \in {"client", "agent", "service"}
    /\ limit \in {{n} : n \in Limits} \cup {{}}
    /\ stage # "done" => results = <<>>
    /\ Requested
    /\ Ranking!BestFirst

LEMMA FilterIsOne == \A s, T : Ranking!Filter(s, T) = Filter(s, T)
BY Zenon DEF Ranking!Filter, Ranking!Filters, Filter, Filters

\* The similarity is the less the farther a chunk is away.
LEMMA FartherIsLess ==
    ASSUME RankingInv
    PROVE  /\ \A c \in Chunks : distance[c] \in 0..200
                /\ Ranking!Similarity(c) \in 0..100
           /\ \A c, d \in Chunks : distance[c] <= distance[d]
                => Ranking!Similarity(c) >= Ranking!Similarity(d)
<1>1. ASSUME NEW c \in Chunks PROVE distance[c] \in 0..200
  <2>1. distance \in [Chunks -> Distances]
    BY DEF RankingInv, Ranking!TypeOK
  <2>2. distance[c] \in Distances /\ Distances \subseteq 0..200
    BY <2>1, RankingAssumption DEF Ranking!LimitAssumption
  <2>. QED
    BY <2>2
<1>2. ASSUME NEW c \in Chunks PROVE Ranking!Similarity(c) \in 0..100
  BY <1>1 DEF Ranking!Similarity
<1>3. ASSUME NEW c \in Chunks, NEW d \in Chunks
      PROVE  distance[c] <= distance[d]
               => Ranking!Similarity(c) >= Ranking!Similarity(d)
  <2>1. PICK x \in 0..200 : x = distance[c]
    BY <1>1
  <2>2. PICK y \in 0..200 : y = distance[d]
    BY <1>1
  <2>3. /\ Ranking!Similarity(c) = IF x > 100 THEN 0 ELSE 100 - x
        /\ Ranking!Similarity(d) = IF y > 100 THEN 0 ELSE 100 - y
    BY <2>1, <2>2, Zenon DEF Ranking!Similarity
  <2>4. x <= y => (IF x > 100 THEN 0 ELSE 100 - x) >= (IF y > 100 THEN 0 ELSE 100 - y)
    OBVIOUS
  <2>. QED
    BY <2>1, <2>2, <2>3, <2>4, Zenon
<1>. QED
  BY <1>1, <1>2, <1>3

\* What passes the threshold of the query is what may be found, and passes
\* the filter after the query.
LEMMA WithinIsEligible ==
    ASSUME RankingInv, request.minScore = Ranking!MinScore
    PROVE  /\ Ranking!Eligible =
                {c \in Chunks : distance[c] <= Ranking!MaxDistance(request.minScore)
                                /\ Ranking!Matches(c)}
           /\ \A c \in Ranking!Eligible : Ranking!Similarity(c) >= request.minScore
<1>1. request.minScore \in {25, 40}
  BY DEF Ranking!MinScore
<1>2. Ranking!MaxDistance(request.minScore) = 100 - request.minScore
  BY <1>1 DEF Ranking!MaxDistance
<1>3. \A c \in Chunks : distance[c] \in 0..200
  BY FartherIsLess
<1>. QED
  BY <1>1, <1>2, <1>3 DEF Ranking!Eligible, Ranking!Similarity

LEMMA CappedLimit ==
    ASSUME NEW n \in Int
    PROVE  Ranking!Capped(n) \in Nat \ {0} /\ (n > 0 => Ranking!Capped(n) <= n)
BY RankingAssumption DEF Ranking!Capped, Ranking!LimitAssumption

\* The nearest of a set of chunks are all of them, or as many as asked for.
Within(d) == {c \in Chunks : distance[c] <= d /\ Ranking!Matches(c)}

AreNearest(s, n, W) ==
    /\ s \in Seq(W) /\ Ranking!IsInjective(s) /\ Len(s) <= n
    /\ \A i, j \in 1..Len(s) : i < j => distance[s[i]] <= distance[s[j]]
    /\ \A c \in W \ Ranking!Range(s), i \in 1..Len(s) :
         distance[s[i]] <= distance[c]
    /\ Len(s) < n => Ranking!Range(s) = W

LEMMA NearestFound ==
    ASSUME RankingInv, NEW n \in Nat, NEW d, NEW s \in Ranking!NearVector(n, d)
    PROVE  AreNearest(s, n, Within(d))
<1>. DEFINE W == Within(d)
<1>1. IsFiniteSet(W) /\ Cardinality(W) \in Nat
  <2>1. IsFiniteSet(Chunks) /\ W \subseteq Chunks
    <3>1. Ranking!IsFiniteSet(Chunks) = IsFiniteSet(Chunks)
      BY Zenon DEF Ranking!IsFiniteSet, IsFiniteSet
    <3>. QED
      BY <3>1, RankingAssumption DEF Ranking!LimitAssumption, Within
  <2>. QED
    BY <2>1, FS_Subset, FS_CardinalityType
<1>2. Ranking!Cardinality(W) = Cardinality(W)
  BY Zenon DEF Ranking!Cardinality, Cardinality
<1>. DEFINE k == IF Cardinality(W) < n THEN Cardinality(W) ELSE n
<1>3. /\ s \in [1..k -> W] /\ Ranking!IsInjective(s)
      /\ \A i, j \in DOMAIN s : i < j => distance[s[i]] <= distance[s[j]]
      /\ \A c \in W \ Ranking!Range(s), i \in DOMAIN s : distance[s[i]] <= distance[c]
  BY <1>2 DEF Ranking!NearVector, Ranking!Lesser, Within
<1>4. k \in Nat /\ k <= n
  BY <1>1
<1>. HIDE DEF k
<1>5. s \in Seq(W) /\ Len(s) = k /\ DOMAIN s = 1..k
  BY <1>3, <1>4
<1>6. ASSUME k < n PROVE Ranking!Range(s) = W
  <2>1. k = Cardinality(W)
    BY <1>1, <1>6 DEF k
  <2>2. s \in Injection(1..k, W)
    BY <1>3 DEF Injection, IsInjective, Ranking!IsInjective
  <2>3. Cardinality(1..k) = Cardinality(W)
    BY <1>4, <2>1, FS_Interval
  <2>4. s \in Surjection(1..k, W)
    BY <1>1, <2>2, <2>3, FS_Injection
  <2>. QED
    BY <1>3, <2>4 DEF Surjection, Ranking!Range
<1>. QED
  BY <1>3, <1>4, <1>5, <1>6 DEF AreNearest

LEMMA RankingInit == Ranking!Init => RankingInv
<1>. SUFFICES ASSUME Ranking!Init PROVE RankingInv
  OBVIOUS
<1>. USE DEF Ranking!Init
<1>1. Ranking!TypeOK
  BY DEF Ranking!TypeOK, Ranking!NoRequest, Ranking!IsInjective
<1>2. limit \in {{n} : n \in Limits} \cup {{}}
  OBVIOUS
<1>. QED
  BY <1>1, <1>2 DEF RankingInv, Requested, Ranking!BestFirst

LEMMA RankingStep == RankingInv /\ [Ranking!Next]_(Ranking!vars) => RankingInv'
<1>. SUFFICES ASSUME RankingInv, [Ranking!Next]_(Ranking!vars) PROVE RankingInv'
  OBVIOUS
<1>1. CASE Ranking!Ask
  <2>1. PICK n \in IF limit = {} THEN {StandardLimit} ELSE limit :
          request' = [limit |-> n, minScore |-> Ranking!MinScore]
    BY <1>1 DEF Ranking!Ask
  <2>2. /\ stage = "asked" /\ stage' = "embedded"
        /\ UNCHANGED <<distance, repo, caller, limit, filter, results>>
    BY <1>1 DEF Ranking!Ask
  <2>3. /\ n \in Limits \cup {StandardLimit}
        /\ \A l \in limit : l = n
    BY <2>1 DEF RankingInv
  <2>4. Ranking!MinScore' = Ranking!MinScore /\ Ranking!MinScore \in 0..100
    BY <2>2 DEF Ranking!MinScore
  <2>5. Ranking!TypeOK'
    BY <2>1, <2>2, <2>3, <2>4 DEF RankingInv, Ranking!TypeOK
  <2>6. Requested'
    BY <2>1, <2>2, <2>3, <2>4 DEF Requested
  <2>. QED
    BY <2>2, <2>5, <2>6 DEF RankingInv, Ranking!BestFirst
<1>2. CASE Ranking!EmbedFails \/ Ranking!SearchFails
  BY <1>2 DEF Ranking!EmbedFails, Ranking!SearchFails, RankingInv, Requested,
              Ranking!TypeOK, Ranking!BestFirst
<1>3. CASE Ranking!SearchSimilar
  <2>. DEFINE n == Ranking!Capped(request.limit)
              d == Ranking!MaxDistance(request.minScore)
              W == Ranking!Eligible
  <2>1. PICK s \in Ranking!NearVector(n, d) :
          results' = Ranking!PostFilter(s, request.minScore)
    BY <1>3 DEF Ranking!SearchSimilar
  <2>2. /\ stage = "embedded" /\ stage' = "done"
        /\ UNCHANGED <<distance, repo, caller, limit, filter, request>>
    BY <1>3 DEF Ranking!SearchSimilar
  <2>3. /\ request.minScore = Ranking!MinScore
        /\ \A l \in limit : request.limit = l
        /\ request.limit \in Int
    <3>1. request.limit \in Limits \cup {0, StandardLimit}
      BY DEF RankingInv, Ranking!TypeOK
    <3>2. Limits \cup {0, StandardLimit} \subseteq Int
      BY RankingAssumption DEF Ranking!LimitAssumption
    <3>3. /\ request.minScore = Ranking!MinScore
          /\ \A l \in limit : request.limit = l
      BY <2>2 DEF RankingInv, Requested
    <3>. QED
      BY <3>1, <3>2, <3>3
  <2>4. n \in Nat \ {0} /\ (request.limit > 0 => n <= request.limit)
    BY <2>3, CappedLimit
  <2>5. /\ W = Within(d)
        /\ \A c \in W : Ranking!Similarity(c) >= request.minScore
        /\ W \subseteq Chunks
    BY <2>3, WithinIsEligible DEF Ranking!Eligible, Within
  <2>. HIDE DEF n, d, W
  <2>6. /\ s \in Seq(W) /\ Ranking!IsInjective(s) /\ Len(s) <= n
        /\ \A i, j \in 1..Len(s) : i < j => distance[s[i]] <= distance[s[j]]
        /\ \A c \in W \ Ranking!Range(s), i \in 1..Len(s) :
             distance[s[i]] <= distance[c]
        /\ Len(s) < n => Ranking!Range(s) = W
    <3>1. AreNearest(s, n, W)
      BY <2>1, <2>4, <2>5, NearestFound
    <3>. QED
      BY <3>1 DEF AreNearest
  <2>7. results' = s
    <3>. DEFINE passing == {c \in Chunks : Ranking!Similarity(c) >= request.minScore}
    <3>1. \A i \in 1..Len(s) : s[i] \in passing
      BY <2>5, <2>6
    <3>2. results' = Filter(s, passing)
      BY <2>1, FilterIsOne DEF Ranking!PostFilter
    <3>. HIDE DEF passing
    <3>. QED
      BY <2>6, <3>1, <3>2, FilterAll
  <2>8. Ranking!TypeOK'
    BY <2>2, <2>5, <2>6, <2>7 DEF RankingInv, Ranking!TypeOK, Ranking!IsInjective
  <2>9. Requested'
    BY <2>2, <2>3 DEF Requested, Ranking!MinScore
  <2>10. Ranking!BestFirst'
    <3>1. /\ Ranking!Eligible' = W /\ n' = n
          /\ \A c : Ranking!Similarity(c)' = Ranking!Similarity(c)
      BY <2>2 DEF W, n, Ranking!Eligible, Ranking!Matches, Ranking!MinScore,
                  Ranking!Similarity, Ranking!Capped
    <3>2. Ranking!Range(s) \subseteq W
      BY <2>6 DEF Ranking!Range
    <3>3. \A l \in limit : l > 0 => Len(s) <= l
      BY <2>3, <2>4, <2>6
    <3>4. ASSUME NEW i \in 1..Len(s), NEW j \in 1..Len(s), i < j
          PROVE  Ranking!Similarity(s[i]) >= Ranking!Similarity(s[j])
      BY <2>5, <2>6, <3>4, FartherIsLess
    <3>5. ASSUME NEW c \in W \ Ranking!Range(s)
          PROVE  /\ Len(s) >= n
                 /\ \A x \in Ranking!Range(s) :
                      Ranking!Similarity(c) <= Ranking!Similarity(x)
      <4>1. Len(s) >= n
        BY <2>4, <2>6
      <4>2. ASSUME NEW x \in Ranking!Range(s)
            PROVE  Ranking!Similarity(c) <= Ranking!Similarity(x)
        <5>1. PICK i \in 1..Len(s) : x = s[i]
          BY <2>6 DEF Ranking!Range
        <5>2. distance[x] <= distance[c] /\ x \in Chunks /\ c \in Chunks
          BY <2>5, <2>6, <5>1
        <5>3. Ranking!Similarity(x) >= Ranking!Similarity(c)
          BY <5>2, FartherIsLess
        <5>4. Ranking!Similarity(x) \in 0..100 /\ Ranking!Similarity(c) \in 0..100
          BY <5>2, FartherIsLess
        <5>. QED
          BY <5>3, <5>4
      <4>. QED
        BY <4>1, <4>2
    <3>. QED
      BY <2>2, <2>7, <3>1, <3>2, <3>3, <3>4, <3>5 DEF Ranking!BestFirst, n
  <2>. QED
    BY <2>2, <2>8, <2>9, <2>10 DEF RankingInv
<1>4. CASE UNCHANGED Ranking!vars
  BY <1>4 DEF Ranking!vars, RankingInv, Requested, Ranking!TypeOK, Ranking!BestFirst,
              Ranking!Eligible, Ranking!Matches, Ranking!MinScore, Ranking!Similarity,
              Ranking!Capped
<1>. QED
  BY <1>1, <1>2, <1>3, <1>4 DEF Ranking!Next

\* A search that misses the cache returns the best eligible chunks, best first,
\* no more than were asked for and no fewer than there are: the threshold of
\* the query and the filter after it agree, and the limits only cut the end
\* (SearchSimilar).
THEOREM BestAreFoundFirst == Ranking!Spec => []BestFirst
<1>1. RankingInv => BestFirst
  BY DEF RankingInv, BestFirst
<1>. QED
  BY <1>1, RankingInit, RankingStep, PTL DEF Ranking!Spec

-----------------------------------------------------------------------------
(* The parts together, as the run checks them.                             *)

\* A behaviour of the parts is one of each of them.
THEOREM PartsAreComponents == PartsSpec => Spec /\ Ranking!Spec
<1>1. PartsInit => Init /\ Ranking!Init
  BY DEF PartsInit, CacheAtRest, RankingAtRest
<1>2. [PartsNext]_<<part, vars, rankingVars>> =>
        [Next]_vars /\ [Ranking!Next]_(Ranking!vars)
  <2>1. UNCHANGED rankingVars => UNCHANGED Ranking!vars
    BY DEF rankingVars, Ranking!vars
  <2>. QED
    BY <2>1 DEF PartsNext
<1>. QED
  BY <1>1, <1>2, PTL DEF PartsSpec, Spec, Ranking!Spec

\* Whatever part a behaviour of the run explores, the invariants of both hold.
THEOREM PartsAreSafe == PartsSpec => [](BoundedStaleness /\ BestFirst)
BY PartsAreComponents, StalenessIsBounded, BestAreFoundFirst, PTL
=============================================================================
