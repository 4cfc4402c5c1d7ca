--------------------------- MODULE GraphQLExecution ---------------------------
(***************************************************************************)
(* How the generated server executes one validated operation and what it   *)
(* answers.  The root fields of a query run concurrently, those of a       *)
(* mutation one after the other; the elements of a list of objects are     *)
(* marshalled by a goroutine each.  A field that fails becomes null; a     *)
(* null where the schema has a non-null type makes the object around it    *)
(* null, in the end the whole answer.                                      *)
(*                                                                         *)
(* A marshalled value is "value" or "null".  Operations do not meet in the *)
(* executor, so one stands for all; what the resolvers do to the stores is *)
(* the subject of the other modules.  No field of the schema is deferred:  *)
(* the map of deferred groups stays empty.                                 *)
(***************************************************************************)
EXTENDS Integers, Sequences

CONSTANTS
    Operations,   \* operations a client may send
    MaxElements   \* bound: elements of a list

-----------------------------------------------------------------------------
\* The schema: of each field its type and whether null is excluded (for a
\* list also for its elements, as in every list of this schema).
NonNull(type) == [type |-> type, list |-> FALSE, nonNull |-> TRUE]
Nullable(type) == [type |-> type, list |-> FALSE, nonNull |-> FALSE]
ListOf(type) == [type |-> type, list |-> TRUE, nonNull |-> TRUE]

AuthPayloadFields == [token |-> NonNull("String"), user |-> NonNull("User")]
LLMInfoFields ==
    [currentModel |-> NonNull("String"), availableModels |-> ListOf("String")]
RepositoryFields ==
    [id |-> NonNull("ID"), name |-> NonNull("String"), path |-> NonNull("String"),
     status |-> NonNull("String"), lastIndexed |-> Nullable("Time"),
     fileCount |-> NonNull("Int"), chunkCount |-> NonNull("Int"),
     errorMsg |-> Nullable("String")]
SearchResultFields ==
    [filePath |-> NonNull("String"), startLine |-> NonNull("Int"),
     endLine |-> NonNull("Int"), content |-> NonNull("String"),
     score |-> NonNull("Float"), signature |-> Nullable("String")]
UserFields ==
    [id |-> NonNull("ID"), username |-> NonNull("String"),
     role |-> NonNull("String")]

FieldsOf(type) == CASE type = "AuthPayload" -> AuthPayloadFields
                    [] type = "LLMInfo" -> LLMInfoFields
                    [] type = "Repository" -> RepositoryFields
                    [] type = "SearchResult" -> SearchResultFields
                    [] type = "User" -> UserFields

QueryFields ==
    [repositories |-> ListOf("Repository"), search |-> ListOf("SearchResult"),
     me |-> Nullable("User"), llmInfo |-> NonNull("LLMInfo")]
MutationFields ==
    [createRepository |-> NonNull("Repository"),
     reindexRepository |-> NonNull("Boolean"),
     deleteRepository |-> NonNull("Boolean"),
     uploadRepository |-> NonNull("Repository"),
     register |-> NonNull("AuthPayload"), login |-> NonNull("AuthPayload"),
     setEmbeddingModel |-> NonNull("Boolean")]

RootFields(kind) == IF kind = "query" THEN QueryFields ELSE MutationFields

\* Operations are validated against the schema before they are executed.
OperationAssumption ==
    /\ \A o \in Operations :
         /\ o.kind \in {"query", "mutation"}
         /\ DOMAIN o.fields = 1..Len(o.fields) /\ Len(o.fields) \in Nat
         /\ \A i \in DOMAIN o.fields : o.fields[i].name \in DOMAIN RootFields(o.kind)
    /\ MaxElements \in Nat

\* The arguments the server unmarshals before it calls a resolver.
Arguments ==
    [createRepository |-> {"name", "path"}, deleteRepository |-> {"id"},
     login |-> {"username", "password"}, register |-> {"username", "password"},
     reindexRepository |-> {"id"}, setEmbeddingModel |-> {"model"},
     uploadRepository |-> {"name", "file"}, search |-> {"query", "limit"}]

-----------------------------------------------------------------------------
\* What the resolvers put in the fields of an object: mapDomainRepoToModel
\* leaves LastIndexed nil; every other field has a value.
FieldValue(type, f) ==
    IF type = "Repository" /\ f = "lastIndexed" THEN "null" ELSE "value"

\* Mutant: nulls in nullable fields are counted as well.
InvalidsOfAll(type, sel) == {f \in sel : FieldValue(type, f) = "null"}

\* The selected fields in which null is not allowed and null was found.
Invalids(type, sel) ==
    {f \in sel : FieldsOf(type)[f].nonNull /\ FieldValue(type, f) = "null"}

\* An object with such a field is null itself; a scalar is its own value.
MarshalObject(type, sel) ==
    IF sel = {} \/ Invalids(type, sel) = {} THEN "value" ELSE "null"

-----------------------------------------------------------------------------
VARIABLES
    op,        \* the operation: its kind and its root fields, in order
    pc,        \* pc[i]: where root field i is
    pending,   \* pending[i]: elements of its list still being marshalled
    value,     \* value[i]: what it was marshalled to
    failed,    \* the fields whose resolver or arguments failed (history)
    errors,    \* the fields an error was reported for
    invalids,  \* nulls counted in non-null root fields
    answer     \* data of the response: "none" until it is sent

vars == <<op, pc, pending, value, failed, errors, invalids, answer>>

Positions == DOMAIN op.fields
Name(i) == op.fields[i].name
Selection(i) == op.fields[i].sel
Type(i) == RootFields(op.kind)[Name(i)]

Init ==
    /\ op \in Operations
    /\ pc = [i \in Positions |-> "waiting"]
    /\ pending = [i \in Positions |-> 0]
    /\ value = [i \in Positions |-> "none"]
    /\ failed = {}
    /\ errors = {}
    /\ invalids = 0
    /\ answer = "none"

Goto(i, label) == pc' = [pc EXCEPT ![i] = label]

\* The executors of Query and Mutation count the null of a non-null field.
Counts(i, v) ==
    invalids' = IF v = "null" /\ Type(i).nonNull THEN invalids + 1 ELSE invalids

Finish(i, v) ==
    /\ Goto(i, "done")
    /\ value' = [value EXCEPT ![i] = v]
    /\ Counts(i, v)

\* Mutant: the fields of a mutation run like those of a query.
MayBeginAtOnce(i) == pc[i] = "waiting"

\* A query starts all its fields, a mutation one at a time; it goes on to the
\* next one whatever became of the last.
MayBegin(i) ==
    /\ pc[i] = "waiting"
    /\ op.kind = "mutation" => \A j \in 1..(i - 1) : pc[j] = "done"

Begin(i) ==
    /\ MayBegin(i)
    /\ Goto(i, "resolving")
    /\ UNCHANGED <<op, pending, value, failed, errors, invalids, answer>>

\* An argument cannot be unmarshalled (a limit beyond 32 bits): the field's
\* context fails and the resolver is not called.
BadArgument(i) ==
    /\ MayBegin(i)
    /\ Name(i) \in DOMAIN Arguments
    /\ failed' = failed \cup {i}
    /\ errors' = errors \cup {i}
    /\ Finish(i, "null")
    /\ UNCHANGED <<op, pending, answer>>

\* The resolver returns an error, or panics, which ResolveField recovers.
Fails(i) ==
    /\ pc[i] = "resolving"
    /\ failed' = failed \cup {i}
    /\ errors' = errors \cup {i}
    /\ Finish(i, "null")
    /\ UNCHANGED <<op, pending, answer>>

\* Me of a request without a user: nil without an error.
ReturnsNil(i) ==
    /\ pc[i] = "resolving"
    /\ Name(i) = "me"
    /\ Finish(i, "null")
    /\ UNCHANGED <<op, pending, failed, errors, answer>>

\* The resolver returns a scalar or an object, marshalled in place.
Returns(i) ==
    /\ pc[i] = "resolving"
    /\ ~Type(i).list
    /\ Finish(i, MarshalObject(Type(i).type, Selection(i)))
    /\ UNCHANGED <<op, pending, failed, errors, answer>>

\* The resolver returns a list: a goroutine for each element.  A single
\* element is marshalled in place, which no other step can tell apart; a nil
\* slice is an empty list.
ReturnsList(i) ==
    /\ pc[i] = "resolving"
    /\ Type(i).list
    /\ \E n \in 0..MaxElements : pending' = [pending EXCEPT ![i] = n]
    /\ value' = [value EXCEPT ![i] = "value"]
    /\ Goto(i, "marshalling")
    /\ UNCHANGED <<op, failed, errors, invalids, answer>>

\* The goroutine of an element ends; a null element makes the list null.
MarshalElement(i) ==
    /\ pc[i] = "marshalling"
    /\ pending[i] > 0
    /\ pending' = [pending EXCEPT ![i] = @ - 1]
    /\ value' = [value EXCEPT ![i] =
                   IF MarshalObject(Type(i).type, Selection(i)) = "null"
                   THEN "null" ELSE @]
    /\ UNCHANGED <<op, pc, failed, errors, invalids, answer>>

\* wg.Wait returns.
JoinList(i) ==
    /\ pc[i] = "marshalling"
    /\ pending[i] = 0
    /\ Finish(i, value[i])
    /\ UNCHANGED <<op, pending, failed, errors, answer>>

\* Dispatch has waited for every field; the response is written once.
Respond ==
    /\ answer = "none"
    /\ \A i \in Positions : pc[i] = "done"
    /\ answer' = IF invalids > 0 THEN "null" ELSE "data"
    /\ UNCHANGED <<op, pc, pending, value, failed, errors, invalids>>

Step(i) == \/ Begin(i) \/ BadArgument(i) \/ Fails(i) \/ ReturnsNil(i)
           \/ Returns(i) \/ ReturnsList(i) \/ MarshalElement(i) \/ JoinList(i)

Next == Respond \/ \E i \in Positions : Step(i)

Spec == Init /\ [][Next]_vars

\* Every goroutine runs, and every call of a resolver returns.
FairSpec == Spec /\ WF_vars(Next)

-----------------------------------------------------------------------------
TypeOK ==
    /\ op \in Operations
    /\ pc \in [Positions -> {"waiting", "resolving", "marshalling", "done"}]
    /\ pending \in [Positions -> 0..MaxElements]
    /\ value \in [Positions -> {"none", "value", "null"}]
    /\ failed \subseteq Positions /\ errors \subseteq Positions
    /\ invalids \in 0..Len(op.fields)
    /\ answer \in {"none", "null", "data"}

\* What GraphQL prescribes: data is null exactly when a field that may not be
\* null failed, and in an answer with data the fields that are null are the
\* nullable ones that failed or had nothing to say.  So it is whatever the
\* order in which fields and elements end, and a null that is allowed (a user
\* who is not logged in, a repository's lastIndexed) spoils nothing else.
AnswerAsPrescribed ==
    answer # "none" =>
        /\ answer = "null" <=> \E i \in failed : Type(i).nonNull
        /\ answer = "data" => \A i \in Positions :
              /\ value[i] = "null" => i \in failed \/ Name(i) = "me"
              /\ Type(i).nonNull => value[i] = "value"

\* A client that gets no data, or no value for a field that failed, is told
\* of an error.
NullsAreExplained ==
    /\ answer = "null" => errors # {}
    /\ answer # "none" => failed = errors

\* The resolver of a mutation is not called before every one before it in the
\* document has ended and its value is settled, and all are called before the
\* answer, the ones after a failure too.
InDocumentOrder ==
    [][op.kind = "mutation" =>
         /\ \A i, j \in Positions : j < i /\ pc[i] # pc'[i] =>
               value[j] # "none" /\ value'[j] = value[j]
         /\ answer' # answer => \A i \in Positions : value[i] # "none"]_vars

\* Every operation is answered.
OperationsAreAnswered == <>(answer # "none")
=============================================================================
