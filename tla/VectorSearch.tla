----------------------------- MODULE VectorSearch -----------------------------
(***************************************************************************)
(* One search that misses the cache: from the limit a client gives, or the *)
(* agent, through Searcher.Search and SearchSimilar to the ranked results. *)
(*                                                                         *)
(* Similarities and distances are in hundredths: a chunk's distance to the *)
(* query is 0..200 (cosine), its similarity 100 minus that, cut to 0..100. *)
(***************************************************************************)
EXTENDS Integers, Sequences, FiniteSets, Functions, Prefixes

CONSTANTS
    Chunks,         \* chunks in the index
    Repos,          \* the repositories they belong to
    Distances,      \* distances a chunk may have to the query
    Limits,         \* limits clients and the agent pass
    StandardLimit,  \* limit of a request without one (10)
    SafetyLimit     \* what SearchSimilar cuts a limit to (1000)

LimitAssumption ==
    /\ IsFiniteSet(Chunks)
    /\ Distances \subseteq 0..200 /\ Limits \subseteq Int
    /\ StandardLimit \in Nat \ {0} /\ SafetyLimit \in Nat \ {0}

AnyRepo == "any"

VARIABLES
    distance, repo,  \* of every chunk
    caller,          \* who searches: "client", "agent" or "service"
    limit,           \* the limit it gives: a set of one number, or {}
    filter,          \* the repository it asks for, or any
    request,         \* the domain.SearchRequest
    stage,           \* "asked", "embedded", "done" or "failed"
    results          \* the chunks found, in order

vars == <<distance, repo, caller, limit, filter, request, stage, results>>

NoRequest == [limit |-> 0, minScore |-> 0]

\* Only a caller of Searcher.Search itself can name a repository: the
\* resolver and the agent's adapter leave RepoID empty.
Init ==
    /\ distance \in [Chunks -> Distances]
    /\ repo \in [Chunks -> Repos]
    /\ caller \in {"client", "agent", "service"}
    /\ limit \in {{n} : n \in Limits} \cup (IF caller = "client" THEN {{}} ELSE {})
    /\ filter \in IF caller = "service" THEN Repos ELSE {AnyRepo}
    /\ request = NoRequest
    /\ stage = "asked"
    /\ results = <<>>

\* The score below which each caller wants no result.
MinScore == IF caller = "agent" THEN 40 ELSE 25

\* The resolver and AgentSearchAdapter build the request; Embed succeeds.
Ask ==
    /\ stage = "asked"
    /\ \E n \in IF limit = {} THEN {StandardLimit} ELSE limit :
          request' = [limit |-> n, minScore |-> MinScore]
    /\ stage' = "embedded"
    /\ UNCHANGED <<distance, repo, caller, limit, filter, results>>

EmbedFails ==
    /\ stage = "asked"
    /\ stage' = "failed"
    /\ UNCHANGED <<distance, repo, caller, limit, filter, request, results>>

-----------------------------------------------------------------------------
Capped(n) == IF n <= 0 THEN StandardLimit
             ELSE IF n > SafetyLimit THEN SafetyLimit ELSE n

\* Mutant: the threshold is passed where a distance is wanted.
ScoreAsDistance(minScore) == minScore

MaxDistance(minScore) ==
    IF 100 - minScore > 200 THEN 200
    ELSE IF 100 - minScore < 0 THEN 0 ELSE 100 - minScore

Similarity(c) == IF distance[c] > 100 THEN 0 ELSE 100 - distance[c]

\* buildRepoFilter of the one repository, if any.
Matches(c) == filter \in {AnyRepo, repo[c]}

Lesser(a, b) == IF a < b THEN a ELSE b

\* What Weaviate answers to a nearVector query: the nearest of the chunks
\* within the distance and the filter, in order.
NearVector(n, d) ==
    LET within == {c \in Chunks : distance[c] <= d /\ Matches(c)} IN
    {s \in [1..Lesser(Cardinality(within), n) -> within] :
        /\ IsInjective(s)
        /\ \A i, j \in DOMAIN s : i < j => distance[s[i]] <= distance[s[j]]
        /\ \A c \in within \ Range(s), i \in DOMAIN s :
              distance[s[i]] <= distance[c]}

\* The filter after the query.
PostFilter(s, minScore) == Filter(s, {c \in Chunks : Similarity(c) >= minScore})

SearchSimilar ==
    /\ stage = "embedded"
    /\ \E s \in NearVector(Capped(request.limit), MaxDistance(request.minScore)) :
          results' = PostFilter(s, request.minScore)
    /\ stage' = "done"
    /\ UNCHANGED <<distance, repo, caller, limit, filter, request>>

\* The query fails, or its answer has errors or no part "Get".
SearchFails ==
    /\ stage = "embedded"
    /\ stage' = "failed"
    /\ UNCHANGED <<distance, repo, caller, limit, filter, request, results>>

Next == Ask \/ EmbedFails \/ SearchSimilar \/ SearchFails
Spec == Init /\ [][Next]_vars

-----------------------------------------------------------------------------
TypeOK ==
    /\ distance \in [Chunks -> Distances] /\ repo \in [Chunks -> Repos]
    /\ request \in [limit : Limits \cup {0, StandardLimit}, minScore : 0..100]
    /\ stage \in {"asked", "embedded", "done", "failed"}
    /\ results \in Seq(Chunks) /\ IsInjective(results)

\* The chunks a search may find: of its repository, and similar enough.
Eligible == {c \in Chunks : Matches(c) /\ 100 - distance[c] >= MinScore}

\* The threshold of the query, the limit and the filter after it together
\* lose nothing: a search returns the best eligible chunks, best first, and
\* never more than were asked for, and no fewer unless there are no more or
\* the safety limit cuts them.
BestFirst ==
    stage = "done" =>
        /\ Range(results) \subseteq Eligible
        /\ \A n \in limit : n > 0 => Len(results) <= n
        /\ \A i, j \in 1..Len(results) :
              i < j => Similarity(results[i]) >= Similarity(results[j])
        /\ \A c \in Eligible \ Range(results) :
              /\ Len(results) >= Capped(request.limit)
              /\ \A d \in Range(results) : Similarity(c) <= Similarity(d)
=============================================================================
