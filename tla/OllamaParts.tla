----------------------------- MODULE OllamaParts -----------------------------
(***************************************************************************)
(* What the server does with the models of Ollama, part beside part:       *)
(* EmbeddingModel (the model it embeds with) and ModelDiscovery (the       *)
(* models it recommends).  They share no state, so a behaviour takes steps *)
(* of one part, with the other at rest.                                    *)
(***************************************************************************)
EXTENDS EmbeddingModel

CONSTANTS Library, Words, Unit, MaxChanges

VARIABLES part, installed, changes, recommended, known

discoveryVars == <<installed, changes, recommended, known>>

Discovery == INSTANCE ModelDiscovery WITH Models <- Library

ASSUME DiscoveryAssumption == Discovery!NamesAssumption

-----------------------------------------------------------------------------
DiscoveryAtRest ==
    /\ installed = {} /\ changes = 0 /\ known = {}
    /\ recommended = Discovery!NoRecommendations

PartsInit ==
    \/ part = "change" /\ Init /\ DiscoveryAtRest
    \/ part = "discovery" /\ Discovery!Init /\ Init

PartsNext ==
    \/ part = "change" /\ Next /\ UNCHANGED <<part, discoveryVars>>
    \/ part = "discovery" /\ Discovery!Next /\ UNCHANGED <<part, vars>>

PartsSpec == PartsInit /\ [][PartsNext]_<<part, vars, discoveryVars>>

\* The fairness of EmbeddingModel.
FairPartsSpec ==
    /\ PartsSpec
    /\ \A c \in Calls : WF_vars(part = "change" /\ CallStep(c))
    /\ \A j \in Jobs : WF_vars(part = "change" /\ JobStep(j))

-----------------------------------------------------------------------------
\* Pulling more models never makes a recommendation worse, except for the
\* first planner or coder (GenerateRecommendations).
MoreModelsNoWorse == Discovery!MoreModelsNoWorse
=============================================================================
