----------------------------- MODULE SearchParts -----------------------------
(***************************************************************************)
(* The parts of a search beside each other: SearchCache (what it may get   *)
(* from the cache) and VectorSearch (what it finds when it misses).  They  *)
(* share no state, so a behaviour takes steps of one part, with the other  *)
(* at rest.                                                                *)
(***************************************************************************)
EXTENDS SearchCache, Sequences

CONSTANTS Chunks, Repos, Distances, Limits, StandardLimit, SafetyLimit

VARIABLES part, distance, repo, caller, limit, filter, request, stage, results

rankingVars == <<distance, repo, caller, limit, filter, request, stage, results>>

Ranking == INSTANCE VectorSearch

ASSUME RankingAssumption == Ranking!LimitAssumption

-----------------------------------------------------------------------------
CacheAtRest ==
    /\ Init
    /\ mode = [s \in Servers |-> "hybrid"]
    /\ server = [q \in Searches |-> CHOOSE s \in Servers : TRUE]

RankingAtRest ==
    /\ Ranking!Init
    /\ distance = [c \in Chunks |-> CHOOSE d \in Distances : TRUE]
    /\ repo = [c \in Chunks |-> CHOOSE r \in Repos : TRUE]
    /\ caller = "client" /\ limit = {}

PartsInit ==
    \/ part = "cache" /\ Init /\ RankingAtRest
    \/ part = "ranking" /\ Ranking!Init /\ CacheAtRest

PartsNext ==
    \/ part = "cache" /\ Next /\ UNCHANGED <<part, rankingVars>>
    \/ part = "ranking" /\ Ranking!Next /\ UNCHANGED <<part, vars>>

PartsSpec == PartsInit /\ [][PartsNext]_<<part, vars, rankingVars>>

\* The fairness of SearchCache.
FairPartsSpec ==
    /\ PartsSpec
    /\ WF_vars(part = "cache" /\ Tick)
    /\ \A q \in Searches : WF_vars(part = "cache" /\ Step(q))

\* The threshold of the query, the limit and the filter after it together
\* return the best chunks there are, best first (SearchSimilar).
BestFirst == Ranking!TypeOK /\ Ranking!BestFirst
=============================================================================
