--------------------------- MODULE ModelDiscovery ---------------------------
(***************************************************************************)
(* Auto-discovery of the models an Ollama server has: their roles by their *)
(* names, and one recommended model for each role.  A name is the set of   *)
(* words it contains.  No route of main() leads to the handler yet.        *)
(***************************************************************************)
EXTENDS Integers, FiniteSets

CONSTANTS
    Models,     \* models that exist
    Words,      \* the words in a model's name, in lower case
    Unit,       \* unit of the size in it: "b" or "B", as written, or ""
    MaxChanges  \* bound: models pulled or removed

NoModel == "none"

NamesAssumption ==
    /\ NoModel \notin Models
    /\ \A m \in Models : "coder" \in Words[m] => "code" \in Words[m]
    /\ \A m \in Models : "128k" \in Words[m] => "8k" \in Words[m]
    /\ Unit \in [Models -> {"", "b", "B"}]
    /\ MaxChanges \in Nat

Roles == {"embedder", "planner", "coder", "generalist"}

VARIABLES
    installed,      \* what the Ollama server has
    changes,
    recommended,    \* the last answer: a model for each role
    known           \* the models that answer was about

vars == <<installed, changes, recommended, known>>

NoRecommendations == [r \in Roles \ {"generalist"} |-> NoModel]

Init ==
    /\ installed \in SUBSET Models
    /\ changes = 0
    /\ recommended = NoRecommendations
    /\ known = {}

-----------------------------------------------------------------------------
embedPatterns == {"embed", "nomic", "mxbai", "bge-", "e5-"}
plannerPatterns == {"r1", "reasoning", "o1"}
coderPatterns == {"coder", "code"}

\* The patterns are tried in this order.
ClassifyModel(m) ==
    IF Words[m] \cap embedPatterns # {} THEN "embedder"
    ELSE IF \/ Words[m] \cap plannerPatterns # {}
            \/ {"qwen", "plus"} \subseteq Words[m] THEN "planner"
    ELSE IF Words[m] \cap coderPatterns # {} THEN "coder"
    ELSE "generalist"

\* Whether the pattern (\d+\.?\d*)[BM] finds the size: only in capitals.
extractParameterSize(m) == IF Unit[m] = "B" THEN "known" ELSE "unknown"

extractContextWindow(m) ==
    IF "128k" \in Words[m] THEN 128000
    ELSE IF "32k" \in Words[m] THEN 32000
    ELSE IF "16k" \in Words[m] THEN 16000
    ELSE IF "8k" \in Words[m] THEN 8192 ELSE 4096

Points(condition, n) == IF condition THEN n ELSE 0

ScoreEmbedder(m) ==
    Points("nomic-embed-text" \in Words[m], 15)
    + Points("mxbai-embed-large" \in Words[m], 12)
    + Points(extractContextWindow(m) >= 8192, 5)

ScorePlanner(m) ==
    Points({"deepseek", "r1"} \subseteq Words[m], 20)
    + Points("qwen" \in Words[m] /\ Words[m] \cap {"plus", "max"} # {}, 15)
    + Points(extractContextWindow(m) >= 32000, 8)

ScoreCoder(m) ==
    Points({"qwen", "coder"} \subseteq Words[m], 18)
    + Points({"deepseek", "coder"} \subseteq Words[m], 16)
    + Points("32" \in Words[m] /\ extractParameterSize(m) = "known", 8)

Score(r, m) ==
    CASE r = "embedder" -> ScoreEmbedder(m)
      [] r = "planner" -> ScorePlanner(m)
      [] r = "coder" -> ScoreCoder(m)

OfRole(r, ms) == {m \in ms : ClassifyModel(m) = r}

\* Planners and coders may be replaced by generalists, embedders by nothing.
Candidates(r, ms) ==
    IF OfRole(r, ms) = {} /\ r # "embedder" THEN OfRole("generalist", ms)
    ELSE OfRole(r, ms)

\* Mutant: the list is sorted the wrong way round.
WorstOf(r, ms) == {m \in ms : \A o \in ms : Score(r, o) >= Score(r, m)}

\* sort.Slice leaves open which of the best comes first.
BestOf(r, ms) == {m \in ms : \A o \in ms : Score(r, o) <= Score(r, m)}

Choices(r, ms) ==
    IF Candidates(r, ms) = {} THEN {NoModel} ELSE BestOf(r, Candidates(r, ms))

-----------------------------------------------------------------------------
DiscoverModels ==
    /\ \E e \in Choices("embedder", installed), p \in Choices("planner", installed),
          c \in Choices("coder", installed) :
         recommended' = [embedder |-> e, planner |-> p, coder |-> c]
    /\ known' = installed
    /\ UNCHANGED <<installed, changes>>

\* Ollama cannot be reached: status 500.
DiscoverFails ==
    /\ recommended' = NoRecommendations
    /\ known' = {}
    /\ UNCHANGED <<installed, changes>>

\* Someone pulls or removes a model.
Change(m) ==
    /\ changes < MaxChanges
    /\ installed' = IF m \in installed THEN installed \ {m} ELSE installed \cup {m}
    /\ changes' = changes + 1
    /\ UNCHANGED <<recommended, known>>

Next == DiscoverModels \/ DiscoverFails \/ \E m \in Models : Change(m)
Spec == Init /\ [][Next]_vars

-----------------------------------------------------------------------------
TypeOK ==
    /\ installed \subseteq Models /\ known \subseteq Models
    /\ changes \in 0..MaxChanges
    /\ DOMAIN recommended = Roles \ {"generalist"}
    /\ \A r \in DOMAIN recommended : recommended[r] \in known \cup {NoModel}

\* Pulling more models never makes a recommendation worse, as long as there
\* was a model of the role before: only the first planner or coder takes the
\* place of a generalist with a higher score (GenerateRecommendations).
MoreModelsNoWorse ==
    [][\A r \in DOMAIN recommended :
         /\ known \subseteq known' /\ OfRole(r, known) # {}
         /\ recommended[r] # NoModel
         => /\ recommended'[r] # NoModel
            /\ Score(r, recommended'[r]) >= Score(r, recommended[r])]_vars
=============================================================================
