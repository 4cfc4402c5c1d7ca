--------------------------- MODULE EndpointProofs ---------------------------
(***************************************************************************)
(* Proofs about the parts of EndpointParts: AgentPipeline, for any number  *)
(* of keywords and requests, and GraphQLExecution, for any operation that  *)
(* the schema admits and lists of any length.                              *)
(***************************************************************************)
EXTENDS EndpointParts, FiniteSetTheorems, SequenceTheorems, TLAPS

Calls == {"retrieval", "planning", "coding", "validation"}

\* What the stages make of Analysed.
Sketched == <<"complexity_analysis", "planning">>
Quick == <<"complexity_analysis", "coding">>
Checked == <<"complexity_analysis", "planning", "coding", "validation">>

\* What an execution has done by the call it waits for.
Progress ==
    /\ mode = DetermineMode(Complexity(query), config)
    /\ pc \in Calls => mode \in Modes /\ err = "nil"
    /\ pc \in {"retrieval", "planning"} => stages = Analysed /\ output = "none"
    /\ pc = "planning" => mode # "fast_path"
    /\ pc = "coding" =>
         /\ output = "none"
         /\ stages = IF mode = "fast_path" THEN Analysed ELSE Sketched
    /\ pc = "validation" =>
         mode = "full" /\ config.validation /\ stages = Planned /\ output # "none"

\* What it has done when it is over, or in its way to be.
Outcome ==
    /\ output # "none" =>
         /\ err = "nil" /\ status # 500
         /\ mode \in Modes =>
              \/ stages = IF mode = "fast_path" THEN Quick ELSE Planned
              \/ mode = "full" /\ config.validation /\ stages = Checked
    /\ pc = "return" /\ err = "nil" /\ mode \in Modes => output # "none"
    /\ pc # "idle" => status = 0
    /\ status = 200 /\ mode \in Modes => output # "none"
    /\ Len(stages) <= 4

\* Nothing is coded before there is an output.
Early == output = "none" => stages \in {<<>>, Analysed, Sketched}

IInv == TypeOK /\ Progress /\ Outcome

-----------------------------------------------------------------------------
\* An architectural keyword outweighs a short and simple look.
LEMMA ArchitectIsNotSimple ==
    ASSUME NEW q \in Queries, HasArchitectKeyword(q)
    PROVE  Complexity(q) # "simple"
<1>1. q.keywords \in Nat
  BY DEF Queries
<1>2. Score(q) >= -1
  BY <1>1 DEF Score
<1>3. Score(q) \in Int
  BY <1>1 DEF Score
<1>. QED
  BY <1>2, <1>3 DEF Complexity

LEMMA ModeType ==
    ASSUME NEW q \in Queries, NEW c \in Configs
    PROVE  DetermineMode(Complexity(q), c) \in Modes \cup {"unknown"}
BY DEF DetermineMode, Configs, Modes

LEMMA NothingAsked == NoQuery \in Queries /\ NoConfig \in Configs
<1>1. NoQuery \in Queries
  BY BoundAssumption DEF NoQuery, Queries
<1>2. NoConfig \in Configs
  BY DEF NoConfig, Configs, Modes
<1>. QED
  BY <1>1, <1>2

LEMMA Lists ==
    /\ Analysed \in Seq(Stages) /\ Len(Analysed) = 1
    /\ Sketched \in Seq(Stages) /\ Len(Sketched) = 2
    /\ Quick \in Seq(Stages) /\ Len(Quick) = 2
    /\ Planned \in Seq(Stages) /\ Len(Planned) = 3
    /\ Checked \in Seq(Stages) /\ Len(Checked) = 4
<1>. DEFINE s1 == "complexity_analysis" s2 == "planning" s3 == "coding"
            s4 == "validation"
<1>1. s1 \in Stages /\ s2 \in Stages /\ s3 \in Stages /\ s4 \in Stages
  BY DEF Stages
<1>. HIDE DEF s1, s2, s3, s4
<1>2. <<s1>> \in Seq(Stages) /\ Len(<<s1>>) = 1
  BY <1>1
<1>3. <<s1, s2>> \in Seq(Stages) /\ Len(<<s1, s2>>) = 2
  BY <1>1
<1>4. <<s1, s3>> \in Seq(Stages) /\ Len(<<s1, s3>>) = 2
  BY <1>1
<1>5. <<s1, s2, s3>> \in Seq(Stages) /\ Len(<<s1, s2, s3>>) = 3
  BY <1>1
<1>6. <<s1, s2, s3, s4>> \in Seq(Stages) /\ Len(<<s1, s2, s3, s4>>) = 4
  BY <1>1
<1>. QED
  BY <1>2, <1>3, <1>4, <1>5, <1>6
     DEF Analysed, Sketched, Quick, Planned, Checked, s1, s2, s3, s4

\* Append is a longer list, element by element.
LEMMA AppendToOne ==
    ASSUME NEW S, NEW a \in S, NEW b \in S
    PROVE  Append(<<a>>, b) = <<a, b>>
<1>. DEFINE s == Append(<<a>>, b) t == <<a, b>>
<1>1. s \in Seq(S) /\ t \in Seq(S) /\ Len(s) = 2 /\ Len(t) = 2
  OBVIOUS
<1>2. \A i \in 1..2 : s[i] = t[i]
  OBVIOUS
<1>. QED
  BY <1>1, <1>2, SeqEqual

LEMMA AppendToTwo ==
    ASSUME NEW S, NEW a \in S, NEW b \in S, NEW c \in S
    PROVE  Append(<<a, b>>, c) = <<a, b, c>>
<1>. DEFINE s == Append(<<a, b>>, c) t == <<a, b, c>>
<1>1. s \in Seq(S) /\ t \in Seq(S) /\ Len(s) = 3 /\ Len(t) = 3
  OBVIOUS
<1>2. \A i \in 1..3 : s[i] = t[i]
  OBVIOUS
<1>. QED
  BY <1>1, <1>2, SeqEqual

LEMMA AppendToThree ==
    ASSUME NEW S, NEW a \in S, NEW b \in S, NEW c \in S, NEW d \in S
    PROVE  Append(<<a, b, c>>, d) = <<a, b, c, d>>
<1>. DEFINE s == Append(<<a, b, c>>, d) t == <<a, b, c, d>>
<1>1. s \in Seq(S) /\ t \in Seq(S) /\ Len(s) = 4 /\ Len(t) = 4
  OBVIOUS
<1>2. \A i \in 1..4 : s[i] = t[i]
  OBVIOUS
<1>. QED
  BY <1>1, <1>2, SeqEqual

LEMMA Appended ==
    /\ Append(Analysed, "planning") = Sketched
    /\ Append(Analysed, "coding") = Quick
    /\ Append(Sketched, "coding") = Planned
    /\ Append(Planned, "validation") = Checked
<1>1. /\ "complexity_analysis" \in Stages /\ "planning" \in Stages
      /\ "coding" \in Stages /\ "validation" \in Stages
  BY DEF Stages
<1>2. Append(Analysed, "planning") = Sketched
  BY <1>1, AppendToOne, Zenon DEF Analysed, Sketched
<1>3. Append(Analysed, "coding") = Quick
  BY <1>1, AppendToOne, Zenon DEF Analysed, Quick
<1>4. Append(Sketched, "coding") = Planned
  BY <1>1, AppendToTwo, ZenonT(60) DEF Sketched, Planned
<1>5. Append(Planned, "validation") = Checked
  BY <1>1, AppendToThree, ZenonT(60) DEF Planned, Checked
<1>. QED
  BY <1>2, <1>3, <1>4, <1>5

LEMMA Pipelines ==
    /\ \A m : Pipeline(m, FALSE) = IF m = "fast_path" THEN Quick ELSE Planned
    /\ Pipeline("full", TRUE) = Checked
<1>1. \A m : Pipeline(m, FALSE) = IF m = "fast_path" THEN Quick ELSE Planned
  BY DEF Pipeline, Quick
<1>2. Pipeline("full", TRUE) = Append(Planned, "validation")
  BY DEF Pipeline
<1>. QED
  BY <1>1, <1>2, Appended

LEMMA IInvInit == Init => IInv
<1>. SUFFICES ASSUME Init PROVE IInv
  OBVIOUS
<1>1. TypeOK
  <2>1. mode \in Modes \cup {"unknown"}
    BY NothingAsked, ModeType DEF Init
  <2>2. stages \in Seq(Stages) /\ Len(stages) <= 4
    BY DEF Init
  <2>3. requests \in 0..MaxRequests /\ status \in {0, 200, 400, 500}
    BY BoundAssumption DEF Init
  <2>4. pc \in PC /\ output \in {"none", "empty", "code"} /\ err \in {"nil", "error"}
    BY DEF Init, PC
  <2>5. query \in Queries /\ config \in Configs
    BY NothingAsked DEF Init
  <2>. QED
    BY <2>1, <2>2, <2>3, <2>4, <2>5 DEF TypeOK
<1>2. Progress
  BY DEF Init, Progress, Calls
<1>3. Outcome
  BY DEF Init, Outcome
<1>. QED
  BY <1>1, <1>2, <1>3 DEF IInv

LEMMA IInvStep == IInv /\ [Next]_vars => IInv'
<1>. SUFFICES ASSUME IInv, [Next]_vars PROVE IInv'
  OBVIOUS
<1>. USE BoundAssumption DEF IInv, TypeOK, PC, Stages, Modes
<1>1. ASSUME NEW q \in Queries, NEW c \in Configs, Chat(q, c) PROVE IInv'
  <2>1. mode' \in Modes \cup {"unknown"}
    BY <1>1, ModeType DEF Chat
  <2>2. TypeOK'
    BY <1>1, <2>1 DEF Chat
  <2>3. Progress'
    BY <1>1, <2>1 DEF Chat, Progress, Calls, Analysed
  <2>4. Outcome'
    BY <1>1, <2>1 DEF Chat, Outcome
  <2>. QED
    BY <2>2, <2>3, <2>4
<1>2. CASE ChatInvalid
  <2>1. TypeOK'
    BY <1>2 DEF ChatInvalid
  <2>2. Progress'
    BY <1>2 DEF ChatInvalid, Progress, Calls
  <2>3. Outcome'
    BY <1>2 DEF ChatInvalid, Outcome
  <2>. QED
    BY <2>1, <2>2, <2>3
<1>3. CASE Retrieve
  BY <1>3 DEF Retrieve, Progress, Outcome, Calls
<1>4. CASE Plan
  <2>1. stages' = Sketched
    BY <1>4, Appended DEF Plan, Progress
  <2>2. TypeOK'
    BY <1>4, <2>1, Lists DEF Plan
  <2>3. Progress'
    BY <1>4, <2>1 DEF Plan, Progress, Calls
  <2>4. Outcome'
    BY <1>4, <2>1, <2>2 DEF Plan, Progress, Outcome
  <2>. QED
    BY <2>2, <2>3, <2>4
<1>5. CASE Code
  <2>0. pc = "coding" /\ mode \in Modes /\ err = "nil"
    BY <1>5 DEF Code, Progress, Calls
  <2>1. stages' = IF mode = "fast_path" THEN Quick ELSE Planned
    BY <1>5, Appended DEF Code, Progress
  <2>2. TypeOK'
    BY <1>5, <2>1, Lists DEF Code
  <2>3. Progress'
    BY <1>5, <2>0, <2>1 DEF Code, Progress, Calls
  <2>5. Outcome'
    BY <1>5, <2>0, <2>1, <2>2 DEF Code, Outcome
  <2>. QED
    BY <2>2, <2>3, <2>5
<1>6. CASE Validate
  <2>0. pc = "validation" /\ mode = "full" /\ config.validation /\ err = "nil"
        /\ stages = Planned /\ output # "none"
    BY <1>6 DEF Validate, Progress, Calls
  <2>1. stages' = Checked
    BY <1>6, <2>0, Appended DEF Validate
  <2>2. TypeOK'
    BY <1>6, <2>1, Lists DEF Validate
  <2>3. Progress'
    BY <1>6, <2>0 DEF Validate, Progress, Calls
  <2>5. Outcome'
    BY <1>6, <2>0, <2>1, <2>2 DEF Validate, Outcome
  <2>. QED
    BY <2>2, <2>3, <2>5
<1>7. CASE Fail
  <2>2. TypeOK'
    BY <1>7 DEF Fail
  <2>3. Progress'
    BY <1>7 DEF Fail, Progress, Calls
  <2>4. Outcome'
    BY <1>7 DEF Fail, Progress, Outcome, Calls
  <2>. QED
    BY <2>2, <2>3, <2>4
<1>8. CASE Return
  <2>1. TypeOK'
    BY <1>8 DEF Return
  <2>2. Progress'
    BY <1>8 DEF Return, Progress, Calls
  <2>3. Outcome'
    BY <1>8, <2>1 DEF Return, Outcome
  <2>. QED
    BY <2>1, <2>2, <2>3
<1>9. CASE UNCHANGED vars
  <2>1. TypeOK'
    BY <1>9 DEF vars
  <2>2. Progress'
    BY <1>9 DEF vars, Progress
  <2>3. Outcome'
    BY <1>9 DEF vars, Outcome
  <2>. QED
    BY <2>1, <2>2, <2>3
<1>. QED
  BY <1>1, <1>2, <1>3, <1>4, <1>5, <1>6, <1>7, <1>8, <1>9 DEF Next, Work

LEMMA EarlyStep == IInv /\ Early /\ [Next]_vars => Early'
<1>. SUFFICES ASSUME IInv, Early, [Next]_vars, output' = "none"
              PROVE  stages' \in {<<>>, Analysed, Sketched}
  BY DEF Early
<1>1. CASE \E q \in Queries, c \in Configs : Chat(q, c)
  BY <1>1 DEF Chat, Analysed
<1>2. CASE ChatInvalid
  BY <1>2 DEF ChatInvalid
<1>3. CASE Plan
  BY <1>3, Appended DEF Plan, IInv, Progress
<1>4. CASE Code
  BY <1>4 DEF Code
<1>5. CASE Validate
  <2>1. output # "none" /\ output' = output
    BY <1>5 DEF Validate, IInv, Progress
  <2>. QED
    BY <2>1
<1>6. CASE Retrieve \/ Fail \/ Return \/ UNCHANGED vars
  <2>1. UNCHANGED <<stages, output>>
    BY <1>6 DEF Retrieve, Fail, Return, vars
  <2>. QED
    BY <2>1 DEF Early
<1>. QED
  BY <1>1, <1>2, <1>3, <1>4, <1>5, <1>6 DEF Next, Work

LEMMA Inductive == Spec => [](IInv /\ Early)
<1>1. Init => Early
  BY DEF Init, Early
<1>. QED
  BY <1>1, IInvInit, IInvStep, EarlyStep, PTL DEF Spec

\* The type of every variable.
THEOREM TypeCorrect == Spec => []TypeOK
BY Inductive, PTL DEF IInv

\* An answer in a known mode comes from that mode's whole pipeline.
THEOREM PipelinesAreWhole == Spec => []WholePipeline
<1>1. IInv => WholePipeline
  <2>. SUFFICES ASSUME IInv, status = 200, mode \in Modes
                PROVE  /\ output # "none"
                       /\ stages = Pipeline(mode, FALSE)
                            \/ (config.validation /\ stages = Pipeline(mode, TRUE))
    BY DEF WholePipeline
  <2>1. output # "none"
    BY DEF IInv, Outcome
  <2>2. \/ stages = IF mode = "fast_path" THEN Quick ELSE Planned
        \/ mode = "full" /\ config.validation /\ stages = Checked
    BY <2>1 DEF IInv, Outcome
  <2>3. CASE stages = IF mode = "fast_path" THEN Quick ELSE Planned
    BY <2>1, <2>3, Pipelines, Zenon
  <2>4. CASE mode = "full" /\ config.validation /\ stages = Checked
    BY <2>1, <2>4, Pipelines, Zenon
  <2>. QED
    BY <2>2, <2>3, <2>4
<1>. QED
  BY <1>1, Inductive, PTL

\* Code that was written is not lost to a later failure.
THEOREM CodeReachesTheClient == Spec => []CodeIsNotLost
<1>1. IInv => CodeIsNotLost
  BY DEF IInv, Outcome, CodeIsNotLost
<1>. QED
  BY <1>1, Inductive, PTL

\* Requests with an architectural keyword that is found are planned.
THEOREM ArchitectureGetsAPlan == Spec => []ArchitectureIsPlanned
<1>1. ASSUME IInv, Early, HasArchitectKeyword(query), config.forced = "none",
             NEW i \in 1..Len(stages), stages[i] = "coding"
      PROVE  \E k \in 1..(i - 1) : stages[k] = "planning"
  <2>1. Complexity(query) # "simple"
    BY <1>1, ArchitectIsNotSimple DEF IInv, TypeOK
  <2>2. mode \in {"hybrid", "full"}
    <3>1. config.auto
      BY <1>1 DEF IInv, TypeOK, Configs
    <3>2. Complexity(query) \in {"simple", "medium", "complex"}
      BY DEF Complexity
    <3>. QED
      BY <1>1, <2>1, <3>1, <3>2 DEF IInv, Progress, DetermineMode
  <2>3. CASE output = "none"
    <3>1. stages \in {<<>>, Analysed, Sketched}
      BY <1>1, <2>3 DEF Early
    <3>. QED
      BY <1>1, <3>1, Lists DEF Analysed, Sketched
  <2>4. CASE output # "none"
    <3>1. stages = Planned \/ stages = Checked
      BY <1>1, <2>2, <2>4 DEF IInv, Outcome, Modes
    <3>2. /\ stages[1] = "complexity_analysis" /\ stages[2] = "planning"
          /\ i \in 1..4
      BY <1>1, <3>1, Lists DEF Planned, Checked
    <3>3. i # 1 /\ i # 2
      BY <1>1, <3>2
    <3>. QED
      BY <3>2, <3>3
  <2>. QED
    BY <2>3, <2>4
<1>2. IInv /\ Early => ArchitectureIsPlanned
  BY <1>1 DEF ArchitectureIsPlanned, HasArchitectKeyword, ArchitectKeywords
<1>. QED
  BY <1>2, Inductive, PTL

-----------------------------------------------------------------------------
(* The executor of GraphQL.                                                *)

\* The fields whose null was counted.
Nulls ==
    {i \in GraphQL!Positions : fieldPc[i] = "done" /\ value[i] = "null"
                               /\ GraphQL!Type(i).nonNull}

FieldTypes ==
    /\ op \in Operations
    /\ fieldPc \in [GraphQL!Positions -> {"waiting", "resolving", "marshalling",
         "done"}]
    /\ pending \in [GraphQL!Positions -> 0..MaxElements]
    /\ value \in [GraphQL!Positions -> {"none", "value", "null"}]
    /\ failed \subseteq GraphQL!Positions /\ errors = failed
    /\ answer \in {"none", "null", "data"}

\* What is known of a field by how far it has come.
FieldFacts(i) ==
    /\ fieldPc[i] \in {"waiting", "resolving"} => value[i] = "none"
    /\ fieldPc[i] = "marshalling" => value[i] = "value"
    /\ fieldPc[i] = "done" => value[i] # "none"
    /\ i \in failed => fieldPc[i] = "done" /\ value[i] = "null"
    /\ value[i] = "null" => i \in failed \/ GraphQL!Name(i) = "me"
    /\ op.kind = "mutation" /\ fieldPc[i] # "waiting"
       => \A j \in 1..(i - 1) : fieldPc[j] = "done"

AnswerFacts ==
    answer # "none" =>
        /\ \A i \in GraphQL!Positions : fieldPc[i] = "done"
        /\ answer = IF invalids > 0 THEN "null" ELSE "data"

FieldInv ==
    /\ FieldTypes
    /\ \A i \in GraphQL!Positions : FieldFacts(i)
    /\ invalids = Cardinality(Nulls)
    /\ AnswerFacts

LEMMA PositionsFinite ==
    ASSUME GraphQL!OperationAssumption, op \in Operations
    PROVE  /\ GraphQL!Positions = 1..Len(op.fields) /\ Len(op.fields) \in Nat
           /\ IsFiniteSet(GraphQL!Positions)
           /\ Cardinality(GraphQL!Positions) = Len(op.fields)
<1>1. GraphQL!Positions = 1..Len(op.fields) /\ Len(op.fields) \in Nat
  BY DEF GraphQL!OperationAssumption, GraphQL!Positions
<1>2. IsFiniteSet(1..Len(op.fields))
        /\ Cardinality(1..Len(op.fields)) = Len(op.fields)
  BY <1>1, FS_Interval
<1>. QED
  BY <1>1, <1>2

\* No object of this schema is null for a field that the resolvers leave nil.
LEMMA ObjectsHaveValues ==
    ASSUME NEW type, NEW sel PROVE GraphQL!MarshalObject(type, sel) = "value"
BY DEF GraphQL!MarshalObject, GraphQL!Invalids, GraphQL!FieldValue, GraphQL!FieldsOf,
       GraphQL!RepositoryFields, GraphQL!Nullable

LEMMA FieldInit == GraphQL!OperationAssumption /\ GraphQL!Init => FieldInv
<1>. SUFFICES ASSUME GraphQL!OperationAssumption, GraphQL!Init PROVE FieldInv
  OBVIOUS
<1>. USE DEF GraphQL!Init
<1>1. FieldTypes
  BY DEF FieldTypes, GraphQL!OperationAssumption
<1>2. Nulls = {}
  BY DEF Nulls
<1>3. \A i \in GraphQL!Positions : FieldFacts(i)
  BY DEF FieldFacts
<1>. QED
  BY <1>1, <1>2, <1>3, FS_EmptySet DEF FieldInv, AnswerFacts

\* A field that ends adds its null to the count, if null is not allowed in it.
LEMMA NullCounted ==
    ASSUME FieldInv, GraphQL!OperationAssumption, NEW i \in GraphQL!Positions,
           fieldPc[i] # "done", NEW v, op' = op, GraphQL!Finish(i, v)
    PROVE  invalids' = Cardinality(Nulls')
<1>1. /\ fieldPc' = [fieldPc EXCEPT ![i] = "done"] /\ value' = [value EXCEPT ![i] = v]
      /\ invalids' = IF v = "null" /\ GraphQL!Type(i).nonNull
                     THEN invalids + 1 ELSE invalids
  BY DEF GraphQL!Finish, GraphQL!Goto, GraphQL!Counts
<1>2. /\ fieldPc \in [GraphQL!Positions -> {"waiting", "resolving", "marshalling",
           "done"}]
      /\ value \in [GraphQL!Positions -> {"none", "value", "null"}]
      /\ i \notin Nulls /\ invalids = Cardinality(Nulls)
  BY DEF FieldInv, FieldTypes, Nulls
<1>3. GraphQL!Positions' = GraphQL!Positions
      /\ \A k : GraphQL!Type(k)' = GraphQL!Type(k)
  BY DEF GraphQL!Positions, GraphQL!Type, GraphQL!Name
<1>4. IsFiniteSet(Nulls)
  <2>1. Nulls \subseteq GraphQL!Positions
    BY DEF Nulls
  <2>2. IsFiniteSet(GraphQL!Positions)
    BY PositionsFinite DEF FieldInv, FieldTypes
  <2>. QED
    BY <2>1, <2>2, FS_Subset
<1>5. CASE v = "null" /\ GraphQL!Type(i).nonNull
  <2>1. Nulls' = Nulls \cup {i}
    BY <1>1, <1>2, <1>3, <1>5 DEF Nulls
  <2>. QED
    BY <1>1, <1>2, <1>4, <1>5, <2>1, FS_AddElement
<1>6. CASE ~(v = "null" /\ GraphQL!Type(i).nonNull)
  <2>1. Nulls' = Nulls
    BY <1>1, <1>2, <1>3, <1>6 DEF Nulls
  <2>. QED
    BY <1>1, <1>2, <1>6, <2>1
<1>. QED
  BY <1>5, <1>6

\* A field that ends with a value or a null it can account for.
LEMMA FieldEnds ==
    ASSUME FieldInv, GraphQL!OperationAssumption, NEW i \in GraphQL!Positions,
           fieldPc[i] # "done", NEW v \in {"value", "null"},
           GraphQL!Finish(i, v), UNCHANGED <<op, answer>>,
           fieldPc[i] = "waiting" => GraphQL!MayBegin(i),
           pending' = pending,
           failed' \in {failed, failed \cup {i}}, errors' = failed',
           i \in failed' => v = "null",
           v = "null" => i \in failed' \/ GraphQL!Name(i) = "me"
    PROVE  FieldInv'
<1>1. /\ fieldPc' = [fieldPc EXCEPT ![i] = "done"] /\ value' = [value EXCEPT ![i] = v]
  BY DEF GraphQL!Finish, GraphQL!Goto
<1>2. GraphQL!Positions' = GraphQL!Positions
      /\ \A k : GraphQL!Name(k)' = GraphQL!Name(k)
  BY DEF GraphQL!Positions, GraphQL!Name
<1>3. FieldTypes'
  BY <1>1, <1>2 DEF FieldInv, FieldTypes
<1>4. ASSUME NEW k \in GraphQL!Positions PROVE FieldFacts(k)'
  <2>1. FieldFacts(k) /\ FieldFacts(i)
    BY DEF FieldInv
  <2>2. fieldPc'[k] = (IF k = i THEN "done" ELSE fieldPc[k])
        /\ value'[k] = IF k = i THEN v ELSE value[k]
    BY <1>1 DEF FieldInv, FieldTypes
  <2>3. op.kind = "mutation" /\ fieldPc'[k] # "waiting"
        => \A j \in 1..(k - 1) : fieldPc[j] = "done"
    BY <2>1, <2>2 DEF FieldFacts, GraphQL!MayBegin
  <2>4. \A j : fieldPc[j] = "done" => fieldPc'[j] = "done"
    BY <1>1 DEF FieldInv, FieldTypes
  <2>. QED
    BY <1>2, <2>1, <2>2, <2>3, <2>4 DEF FieldFacts
<1>5. invalids' = Cardinality(Nulls')
  BY NullCounted
<1>6. AnswerFacts'
  BY DEF FieldInv, AnswerFacts
<1>. QED
  BY <1>2, <1>3, <1>4, <1>5, <1>6 DEF FieldInv

\* A field that goes on adds nothing to the count.
LEMMA FieldGoesOn ==
    ASSUME FieldInv, NEW i \in GraphQL!Positions, fieldPc[i] # "done",
           NEW pc1 \in {"resolving", "marshalling"}, NEW v \in {"none", "value"},
           pc1 = "marshalling" <=> v = "value",
           fieldPc' = [fieldPc EXCEPT ![i] = pc1], value' = [value EXCEPT ![i] = v],
           fieldPc[i] = "waiting" => GraphQL!MayBegin(i),
           pending' \in [GraphQL!Positions -> 0..MaxElements],
           UNCHANGED <<op, failed, errors, invalids, answer>>
    PROVE  FieldInv'
<1>1. GraphQL!Positions' = GraphQL!Positions
      /\ (\A k : GraphQL!Name(k)' = GraphQL!Name(k))
      /\ \A k : GraphQL!Type(k)' = GraphQL!Type(k)
  BY DEF GraphQL!Positions, GraphQL!Name, GraphQL!Type
<1>2. FieldTypes'
  BY <1>1 DEF FieldInv, FieldTypes
<1>3. ASSUME NEW k \in GraphQL!Positions PROVE FieldFacts(k)'
  <2>1. FieldFacts(k) /\ FieldFacts(i)
    BY DEF FieldInv
  <2>2. fieldPc'[k] = (IF k = i THEN pc1 ELSE fieldPc[k])
        /\ value'[k] = IF k = i THEN v ELSE value[k]
    BY DEF FieldInv, FieldTypes
  <2>3. op.kind = "mutation" /\ fieldPc'[k] # "waiting"
        => \A j \in 1..(k - 1) : fieldPc[j] = "done"
    BY <2>1, <2>2 DEF FieldFacts, GraphQL!MayBegin
  <2>4. \A j : fieldPc[j] = "done" => fieldPc'[j] = "done"
    BY DEF FieldInv, FieldTypes
  <2>. QED
    BY <1>1, <2>1, <2>2, <2>3, <2>4 DEF FieldFacts
<1>4. Nulls' = Nulls
  BY <1>1 DEF Nulls, FieldInv, FieldTypes
<1>5. AnswerFacts'
  BY <1>1 DEF FieldInv, AnswerFacts
<1>. QED
  BY <1>1, <1>2, <1>3, <1>4, <1>5 DEF FieldInv

LEMMA FieldStep ==
    ASSUME FieldInv, GraphQL!OperationAssumption, [GraphQL!Next]_(GraphQL!vars)
    PROVE  FieldInv'
<1>1. CASE GraphQL!Respond
  <2>1. /\ \A i \in GraphQL!Positions : fieldPc[i] = "done"
        /\ answer' = IF invalids > 0 THEN "null" ELSE "data"
        /\ UNCHANGED <<op, fieldPc, pending, value, failed, errors, invalids>>
    BY <1>1 DEF GraphQL!Respond
  <2>2. AnswerFacts'
    BY <2>1 DEF AnswerFacts, GraphQL!Positions
  <2>3. FieldTypes'
    BY <2>1 DEF FieldInv, FieldTypes, GraphQL!Positions
  <2>4. \A i \in GraphQL!Positions' : FieldFacts(i)'
    BY <2>1 DEF FieldInv, FieldFacts, GraphQL!Positions, GraphQL!Name
  <2>5. Nulls' = Nulls
    BY <2>1 DEF Nulls, GraphQL!Positions, GraphQL!Type, GraphQL!Name
  <2>. QED
    BY <2>1, <2>2, <2>3, <2>4, <2>5 DEF FieldInv
<1>2. ASSUME NEW i \in GraphQL!Positions, GraphQL!Step(i) PROVE FieldInv'
  <2>0. FieldTypes /\ FieldFacts(i)
    BY DEF FieldInv
  <2>1. CASE GraphQL!Begin(i)
    <3>1. value' = [value EXCEPT ![i] = "none"]
      BY <2>0, <2>1 DEF GraphQL!Begin, GraphQL!MayBegin, FieldFacts, FieldTypes
    <3>. QED
      BY <2>0, <2>1, <3>1, FieldGoesOn
      DEF GraphQL!Begin, GraphQL!MayBegin, GraphQL!Goto, FieldTypes
  <2>2. CASE GraphQL!BadArgument(i)
    BY <2>0, <2>2, FieldEnds DEF GraphQL!BadArgument, GraphQL!MayBegin, FieldTypes
  <2>3. CASE GraphQL!Fails(i)
    BY <2>0, <2>3, FieldEnds DEF GraphQL!Fails, FieldTypes
  <2>4. CASE GraphQL!ReturnsNil(i)
    BY <2>0, <2>4, FieldEnds DEF GraphQL!ReturnsNil, FieldTypes, FieldFacts
  <2>5. CASE GraphQL!Returns(i)
    BY <2>0, <2>5, ObjectsHaveValues, FieldEnds
    DEF GraphQL!Returns, FieldTypes, FieldFacts
  <2>6. CASE GraphQL!ReturnsList(i)
    <3>1. /\ fieldPc[i] = "resolving"
          /\ fieldPc' = [fieldPc EXCEPT ![i] = "marshalling"]
          /\ value' = [value EXCEPT ![i] = "value"]
          /\ UNCHANGED <<op, failed, errors, invalids, answer>>
      BY <2>6 DEF GraphQL!ReturnsList, GraphQL!Goto
    <3>2. pending' \in [GraphQL!Positions -> 0..MaxElements]
      BY <2>0, <2>6 DEF GraphQL!ReturnsList, FieldTypes
    <3>. QED
      BY <3>1, <3>2, FieldGoesOn
  <2>7. CASE GraphQL!MarshalElement(i)
    <3>1. value' = [value EXCEPT ![i] = "value"]
      BY <2>0, <2>7, ObjectsHaveValues
      DEF GraphQL!MarshalElement, FieldFacts, FieldTypes
    <3>2. fieldPc' = [fieldPc EXCEPT ![i] = "marshalling"]
      BY <2>0, <2>7 DEF GraphQL!MarshalElement, FieldTypes
    <3>3. pending' \in [GraphQL!Positions -> 0..MaxElements]
      BY <2>0, <2>7
      DEF GraphQL!MarshalElement, FieldTypes, GraphQL!OperationAssumption
    <3>. QED
      BY <2>7, <3>1, <3>2, <3>3, FieldGoesOn DEF GraphQL!MarshalElement
  <2>8. CASE GraphQL!JoinList(i)
    BY <2>0, <2>8, FieldEnds DEF GraphQL!JoinList, FieldTypes, FieldFacts
  <2>. QED
    BY <1>2, <2>1, <2>2, <2>3, <2>4, <2>5, <2>6, <2>7, <2>8 DEF GraphQL!Step
<1>3. CASE UNCHANGED GraphQL!vars
  BY SMTT(40), <1>3
  DEF GraphQL!vars, FieldInv, FieldTypes, FieldFacts, AnswerFacts, Nulls,
      GraphQL!Positions, GraphQL!Type, GraphQL!Name
<1>. QED
  BY <1>1, <1>2, <1>3 DEF GraphQL!Next

LEMMA FieldInductive == GraphQL!Spec => []FieldInv
BY FieldInit, FieldStep, GraphQLAssumption, PTL DEF GraphQL!Spec

LEMMA NullsCount ==
    ASSUME FieldInv, GraphQL!OperationAssumption
    PROVE  /\ invalids \in 0..Len(op.fields)
           /\ invalids > 0 <=> Nulls # {}
<1>1. /\ Len(op.fields) \in Nat /\ IsFiniteSet(GraphQL!Positions)
      /\ Cardinality(GraphQL!Positions) = Len(op.fields)
  BY PositionsFinite DEF FieldInv, FieldTypes
<1>2. Nulls \subseteq GraphQL!Positions
  BY DEF Nulls
<1>3. IsFiniteSet(Nulls) /\ Cardinality(Nulls) <= Len(op.fields)
  BY <1>1, <1>2, FS_Subset
<1>4. Cardinality(Nulls) \in Nat
  BY <1>3, FS_CardinalityType
<1>5. Cardinality(Nulls) = 0 <=> Nulls = {}
  BY <1>3, FS_EmptySet
<1>. QED
  BY <1>1, <1>3, <1>4, <1>5 DEF FieldInv

\* An answer has data, nulls and errors as GraphQL prescribes, in whatever order
\* the fields and the elements of their lists end (Dispatch).
THEOREM AnswersAreAsPrescribed == GraphQL!Spec => []AnswerAsPrescribed
<1>1. ASSUME FieldInv PROVE GraphQL!TypeOK
  BY <1>1, NullsCount, GraphQLAssumption DEF FieldInv, FieldTypes, GraphQL!TypeOK
<1>2. ASSUME FieldInv, answer # "none"
      PROVE  answer = "null" <=> \E i \in failed : GraphQL!Type(i).nonNull
  <2>1. answer = "null" <=> Nulls # {}
    BY <1>2, NullsCount, GraphQLAssumption DEF FieldInv, AnswerFacts
  <2>2. ASSUME NEW i \in Nulls PROVE i \in failed
    <3>1. i \in GraphQL!Positions /\ FieldFacts(i) /\ GraphQL!Type(i).nonNull
          /\ value[i] = "null"
      BY <1>2 DEF FieldInv, Nulls
    <3>2. GraphQL!Name(i) # "me"
      BY <3>1, <1>2, GraphQLAssumption
      DEF FieldInv, FieldTypes, GraphQL!OperationAssumption, GraphQL!Positions,
          GraphQL!Type, GraphQL!Name, GraphQL!RootFields, GraphQL!QueryFields,
          GraphQL!MutationFields, GraphQL!Nullable
    <3>. QED
      BY <3>1, <3>2 DEF FieldFacts
  <2>3. ASSUME NEW i \in failed, GraphQL!Type(i).nonNull PROVE i \in Nulls
    BY <1>2, <2>3 DEF FieldInv, FieldTypes, FieldFacts, Nulls
  <2>. QED
    BY <2>1, <2>2, <2>3 DEF Nulls
<1>3. ASSUME FieldInv, answer = "data", NEW i \in GraphQL!Positions
      PROVE  /\ value[i] = "null" => i \in failed \/ GraphQL!Name(i) = "me"
             /\ GraphQL!Type(i).nonNull => value[i] = "value"
  <2>1. FieldFacts(i) /\ fieldPc[i] = "done" /\ value[i] \in {"none", "value", "null"}
    BY <1>3 DEF FieldInv, FieldTypes, AnswerFacts
  <2>2. Nulls = {}
    BY <1>3, NullsCount, GraphQLAssumption DEF FieldInv, AnswerFacts
  <2>. QED
    BY <2>1, <2>2 DEF FieldFacts, Nulls
<1>4. ASSUME FieldInv PROVE GraphQL!NullsAreExplained
  BY <1>2, <1>4 DEF FieldInv, FieldTypes, GraphQL!NullsAreExplained
<1>5. FieldInv => AnswerAsPrescribed
  BY <1>1, <1>2, <1>3, <1>4 DEF AnswerAsPrescribed, GraphQL!AnswerAsPrescribed
<1>. QED
  BY <1>5, FieldInductive, PTL

\* The fields of a mutation take effect in the order of the document, and all of
\* them before the answer.
THEOREM MutationsRunInOrder == GraphQL!Spec => InDocumentOrder
<1>. DEFINE Order ==
       op.kind = "mutation" =>
         /\ \A i, j \in GraphQL!Positions : j < i /\ fieldPc[i] # fieldPc'[i] =>
               value[j] # "none" /\ value'[j] = value[j]
         /\ answer' # answer => \A i \in GraphQL!Positions : value[i] # "none"
<1>1. ASSUME FieldInv, GraphQL!Next PROVE Order
  <2>1. CASE GraphQL!Respond
    BY <1>1, <2>1 DEF GraphQL!Respond, FieldInv, FieldFacts
  <2>2. ASSUME NEW k \in GraphQL!Positions, GraphQL!Step(k) PROVE Order
    <3>1. /\ answer' = answer
          /\ \A i \in GraphQL!Positions \ {k} :
               fieldPc'[i] = fieldPc[i] /\ value'[i] = value[i]
          /\ fieldPc[k] = "waiting" => GraphQL!MayBegin(k)
          /\ fieldPc[k] # "done"
      BY <1>1, <2>2
      DEF GraphQL!Step, GraphQL!Begin, GraphQL!BadArgument, GraphQL!Fails,
          GraphQL!ReturnsNil, GraphQL!Returns, GraphQL!ReturnsList,
          GraphQL!MarshalElement, GraphQL!JoinList, GraphQL!Finish, GraphQL!Goto,
          GraphQL!MayBegin, FieldInv, FieldTypes
    <3>2. ASSUME op.kind = "mutation", NEW j \in GraphQL!Positions, j < k
          PROVE  value[j] # "none" /\ value'[j] = value[j]
      <4>1. j \in 1..(k - 1) /\ j # k
        BY <1>1, <3>2, PositionsFinite, GraphQLAssumption DEF FieldInv, FieldTypes
      <4>2. fieldPc[j] = "done"
        BY <1>1, <3>1, <3>2, <4>1 DEF FieldInv, FieldFacts, GraphQL!MayBegin
      <4>. QED
        BY <1>1, <3>1, <4>1, <4>2 DEF FieldInv, FieldFacts
    <3>. QED
      BY <3>1, <3>2
  <2>. QED
    BY <1>1, <2>1, <2>2 DEF GraphQL!Next
<1>2. FieldInv /\ [GraphQL!Next]_(GraphQL!vars) => [Order]_(GraphQL!vars)
  BY <1>1
<1>. QED
  BY <1>2, FieldInductive, PTL
  DEF GraphQL!Spec, InDocumentOrder, GraphQL!InDocumentOrder

-----------------------------------------------------------------------------
(* The parts together, as the run checks them.                             *)

\* A behaviour of the parts is one of each of them.
THEOREM PartsAreComponents == PartsSpec => Spec /\ GraphQL!Spec
<1>1. PartsInit => Init /\ GraphQL!Init
  BY DEF PartsInit
<1>2. [PartsNext]_<<part, vars, fieldVars>> =>
        [Next]_vars /\ [GraphQL!Next]_(GraphQL!vars)
  <2>1. UNCHANGED fieldVars => UNCHANGED GraphQL!vars
    BY DEF fieldVars, GraphQL!vars
  <2>. QED
    BY <2>1 DEF PartsNext
<1>. QED
  BY <1>1, <1>2, PTL DEF PartsSpec, Spec, GraphQL!Spec

\* Whatever part a behaviour of the run explores, the properties of both hold.
THEOREM PartsAreSafe ==
    PartsSpec =>
      /\ [](WholePipeline /\ CodeIsNotLost /\ ArchitectureIsPlanned)
      /\ []AnswerAsPrescribed /\ InDocumentOrder
BY PartsAreComponents, PipelinesAreWhole, CodeReachesTheClient,
   ArchitectureGetsAPlan, AnswersAreAsPrescribed, MutationsRunInOrder, PTL
=============================================================================
