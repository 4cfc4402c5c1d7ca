--------------------------- MODULE AgentPipeline ---------------------------
(***************************************************************************)
(* POST /chat: the complexity of a request decides how AgentService works  *)
(* on it, in stages that each call the search or a language model.  One    *)
(* execution at a time: executions share nothing but the services.         *)
(*                                                                         *)
(* A query is what there is in it for ComplexityAnalyzer to see; models,   *)
(* prompts and texts are left out, but for whether the language model has  *)
(* written any code.                                                       *)
(***************************************************************************)
EXTENDS Integers, Sequences

CONSTANTS
    MaxKeywords,   \* complexKeywords that a query may contain (5)
    MaxRequests    \* bound: requests of a run

ASSUME BoundAssumption == MaxKeywords \in Nat /\ MaxRequests \in Nat

VARIABLES
    pc,        \* the call the handler is waiting for
    query,     \* what the request asks
    config,    \* PipelineConfig
    mode,      \* execution.Mode
    stages,    \* execution.Stages
    output,    \* execution.FinalOutput: "none" until it is set, which may be to ""
    err,       \* the error Execute is about to return
    status,    \* the last response's status; 0 before it
    requests   \* requests so far

vars == <<pc, query, config, mode, stages, output, err, status, requests>>

Modes == {"fast_path", "hybrid", "full"}
\* architectKeywords: three in lower case, and "CQRS".
ArchitectKeywords == {"lowercase", "CQRS"}
Queries == [length : {"short", "medium", "long"}, simple : BOOLEAN,
            complex : BOOLEAN, keywords : 0..MaxKeywords,
            architect : ArchitectKeywords \cup {"none"}]
\* forced_mode may be absent, and is not checked.
Configs == [forced : Modes \cup {"none", "unknown"}, auto : {TRUE},
            validation : BOOLEAN]
PC == {"idle", "retrieval", "planning", "coding", "validation", "return"}
Stages == {"complexity_analysis", "planning", "coding", "validation"}

NoQuery == [length |-> "short", simple |-> FALSE, complex |-> FALSE,
            keywords |-> 0, architect |-> "none"]
NoConfig == [forced |-> "none", auto |-> TRUE, validation |-> TRUE]

-----------------------------------------------------------------------------
\* The query is lowercased for the comparison, the keywords are not, so that
\* "CQRS" is never found.
HasArchitectKeyword(q) == q.architect = "lowercase"

\* Mutant: an architectural request counts as much as a keyword.
ScoreArchitectOne(q) ==
    (IF q.length = "short" THEN -2 ELSE IF q.length = "long" THEN 2 ELSE 0)
      + (IF q.simple THEN -3 ELSE 0) + (IF q.complex THEN 3 ELSE 0)
      + q.keywords + (IF HasArchitectKeyword(q) THEN 1 ELSE 0)

\* ComplexityAnalyzer.Analyze.
Score(q) ==
    (IF q.length = "short" THEN -2 ELSE IF q.length = "long" THEN 2 ELSE 0)
      + (IF q.simple THEN -3 ELSE 0) + (IF q.complex THEN 3 ELSE 0)
      + q.keywords + (IF HasArchitectKeyword(q) THEN 4 ELSE 0)

Complexity(q) == IF Score(q) <= -2 THEN "simple"
                 ELSE IF Score(q) >= 3 THEN "complex" ELSE "medium"

\* determineMode.
DetermineMode(complexity, c) ==
    IF c.forced # "none" THEN c.forced
    ELSE IF ~c.auto THEN "full"
    ELSE IF complexity = "simple" THEN "fast_path"
    ELSE IF complexity = "medium" THEN "hybrid" ELSE "full"

-----------------------------------------------------------------------------
Init ==
    /\ pc = "idle"
    /\ query = NoQuery /\ config = NoConfig
    /\ mode = DetermineMode(Complexity(NoQuery), NoConfig)
    /\ stages = <<>>
    /\ output = "none" /\ err = "nil"
    /\ status = 0
    /\ requests = 0

\* Chat, and Execute up to its first call.  An unknown mode is no case of the
\* switch: nothing is called.
Chat(q, c) ==
    /\ pc = "idle" /\ requests < MaxRequests
    /\ requests' = requests + 1
    /\ query' = q /\ config' = c
    /\ mode' = DetermineMode(Complexity(q), c)
    /\ stages' = <<"complexity_analysis">>
    /\ output' = "none" /\ err' = "nil"
    /\ status' = 0
    /\ pc' = IF mode' \in Modes THEN "retrieval" ELSE "return"

\* The body is not a request.
ChatInvalid ==
    /\ pc = "idle" /\ requests < MaxRequests
    /\ requests' = requests + 1
    /\ status' = 400
    /\ stages' = <<>> /\ output' = "none"
    /\ UNCHANGED <<pc, query, config, mode, err>>

\* The search answers, even with no chunk at all.
Retrieve ==
    /\ pc = "retrieval"
    /\ pc' = IF mode = "fast_path" THEN "coding" ELSE "planning"
    /\ UNCHANGED <<query, config, mode, stages, output, err, status, requests>>

Plan ==
    /\ pc = "planning"
    /\ stages' = Append(stages, "planning")
    /\ pc' = "coding"
    /\ UNCHANGED <<query, config, mode, output, err, status, requests>>

\* An empty completion is not an error, and nobody looks at it.
Code ==
    /\ pc = "coding"
    /\ stages' = Append(stages, "coding")
    /\ output' \in {"code", "empty"}
    /\ pc' = IF mode = "full" /\ config.validation THEN "validation" ELSE "return"
    /\ UNCHANGED <<query, config, mode, err, status, requests>>

Validate ==
    /\ pc = "validation"
    /\ stages' = Append(stages, "validation")
    /\ pc' = "return"
    /\ UNCHANGED <<query, config, mode, output, err, status, requests>>

\* Mutant: a failed plan is ignored, as a failed validation is.
FailOn ==
    /\ pc \in {"retrieval", "planning", "coding", "validation"}
    /\ IF pc = "planning" THEN pc' = "coding" /\ UNCHANGED err
       ELSE pc' = "return" /\ err' = IF pc = "validation" THEN "nil" ELSE "error"
    /\ UNCHANGED <<query, config, mode, stages, output, status, requests>>

\* Mutant: the error of the validation is returned.
FailValidationToo ==
    /\ pc \in {"retrieval", "planning", "coding", "validation"}
    /\ pc' = "return" /\ err' = "error"
    /\ UNCHANGED <<query, config, mode, stages, output, status, requests>>

\* Mutant: a failed execution is tried again, without end.
FailRetried ==
    /\ pc \in {"retrieval", "planning", "coding", "validation"}
    /\ pc' = "retrieval"
    /\ stages' = <<"complexity_analysis">> /\ output' = "none"
    /\ UNCHANGED <<query, config, mode, err, status, requests>>

\* A call fails, be it because the client closed the connection, which cancels
\* the context of every call.  Execute returns its error; only that of the
\* validation is logged and forgotten.
Fail ==
    /\ pc \in {"retrieval", "planning", "coding", "validation"}
    /\ pc' = "return"
    /\ err' = IF pc = "validation" THEN "nil" ELSE "error"
    /\ UNCHANGED <<query, config, mode, stages, output, status, requests>>

\* Chat answers: the execution, or the error alone.
Return ==
    /\ pc = "return"
    /\ status' = IF err = "error" THEN 500 ELSE 200
    /\ pc' = "idle"
    /\ UNCHANGED <<query, config, mode, stages, output, err, requests>>

Work == Retrieve \/ Plan \/ Code \/ Validate \/ Fail \/ Return

Next ==
    \/ \E q \in Queries, c \in Configs : Chat(q, c)
    \/ ChatInvalid \/ Work

Spec == Init /\ [][Next]_vars

\* A call to the search or to Ollama answers or fails in the end.  The code
\* sets no deadline of its own: this is for Ollama and the network to keep, or
\* for the client, whose leaving fails every call.
FairSpec == Spec /\ WF_vars(Work)

-----------------------------------------------------------------------------
TypeOK ==
    /\ pc \in PC
    /\ query \in Queries /\ config \in Configs
    /\ mode \in Modes \cup {"unknown"}
    /\ stages \in Seq(Stages) /\ Len(stages) <= 4
    /\ output \in {"none", "empty", "code"} /\ err \in {"nil", "error"}
    /\ status \in {0, 200, 400, 500}
    /\ requests \in 0..MaxRequests

\* The stages of each mode, as in the README's table.  The retrieval, which
\* is one of them there, adds no StageResult.
Analysed == <<"complexity_analysis">>
Planned  == <<"complexity_analysis", "planning", "coding">>
Pipeline(m, validated) ==
    IF m = "fast_path" THEN <<"complexity_analysis", "coding">>
    ELSE IF m = "full" /\ validated THEN Append(Planned, "validation") ELSE Planned

\* A 200 in a known mode means that the whole pipeline of that mode has run,
\* and that its output is what the coding stage returned, be it empty; the
\* validation may be missing if it failed or was not asked for, and is in no
\* other mode's answer (executeFastPath, executeHybrid, executeFull).
WholePipeline ==
    status = 200 /\ mode \in Modes =>
      /\ output # "none"
      /\ stages = Pipeline(mode, FALSE)
           \/ (config.validation /\ stages = Pipeline(mode, TRUE))

\* Code that has been written is answered with, whatever happens after it.
CodeIsNotLost == output = "code" => err = "nil" /\ status # 500

\* For a request with one of the architectural keywords that are found at all,
\* "CQRS" being none of them, nothing is coded before the planning stage,
\* however short and simple it looks, unless the client forced the fast path
\* (Analyze, determineMode).
ArchitectureIsPlanned ==
    query.architect \in ArchitectKeywords \ {"CQRS"} /\ config.forced = "none" =>
      \A i \in 1..Len(stages) : stages[i] = "coding" =>
        \E k \in 1..(i - 1) : stages[k] = "planning"

\* Every request that was taken is answered in the end.
Answered == pc # "idle" ~> pc = "idle" /\ status # 0
=============================================================================
