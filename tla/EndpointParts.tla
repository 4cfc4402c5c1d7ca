---------------------------- MODULE EndpointParts ----------------------------
(***************************************************************************)
(* The two ways a request of the API is worked on, beside each other:      *)
(* AgentPipeline (POST /chat) and GraphQLExecution (POST /query).  They    *)
(* share no state, so a behaviour takes steps of one part, with the other  *)
(* at rest.                                                                *)
(***************************************************************************)
EXTENDS AgentPipeline

CONSTANTS Operations, MaxElements

VARIABLES part, op, fieldPc, pending, value, failed, errors, invalids, answer

fieldVars == <<op, fieldPc, pending, value, failed, errors, invalids, answer>>

GraphQL == INSTANCE GraphQLExecution WITH pc <- fieldPc

ASSUME GraphQLAssumption == GraphQL!OperationAssumption

-----------------------------------------------------------------------------
PartsInit ==
    \/ part = "chat" /\ Init /\ GraphQL!Init
       /\ op = CHOOSE o \in Operations : TRUE
    \/ part = "graphql" /\ GraphQL!Init /\ Init

PartsNext ==
    \/ part = "chat" /\ Next /\ UNCHANGED <<part, fieldVars>>
    \/ part = "graphql" /\ GraphQL!Next /\ UNCHANGED <<part, vars>>

PartsSpec == PartsInit /\ [][PartsNext]_<<part, vars, fieldVars>>

\* The fairness of both.
FairPartsSpec ==
    /\ PartsSpec
    /\ WF_vars(part = "chat" /\ Work)
    /\ WF_fieldVars(part = "graphql" /\ GraphQL!Next)

\* The answer has data, nulls and errors as GraphQL prescribes, in whatever
\* order fields and elements end (executionContext, FieldSet.Dispatch).
AnswerAsPrescribed ==
    GraphQL!TypeOK /\ GraphQL!AnswerAsPrescribed /\ GraphQL!NullsAreExplained

\* The fields of a mutation take effect one after the other.
InDocumentOrder == GraphQL!InDocumentOrder

\* Every request that was taken is answered in the end, by the agent and by
\* the executor: no goroutine of an element or a field keeps it waiting.
AllAnswered ==
    Answered /\ (part = "graphql" => GraphQL!OperationsAreAnswered)
=============================================================================
