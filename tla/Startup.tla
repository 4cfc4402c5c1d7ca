------------------------------- MODULE Startup -------------------------------
(***************************************************************************)
(* Processes of the server that start over the same databases: main() from *)
(* the configuration to the listening socket.  The cache is the only part  *)
(* whose failure is only logged; every other one ends the process.  Both   *)
(* Weaviate stores make sure of their class in two requests, one that asks *)
(* whether it exists and one that creates it.                              *)
(***************************************************************************)
EXTENDS Integers, FiniteSets

CONSTANTS
    Servers,    \* processes, of one deployment or of several
    MaxStarts   \* bound: times each is started

StartAssumption == Servers # {} /\ MaxStarts \in Nat

\* The classes in the order they are ensured: the index, then Repository.
Classes == {1, 2}

VARIABLES
    stage,      \* what each process is about to do
    class,      \* the class it is ensuring, or has ensured last
    exit,       \* why it ended last
    starts,     \* times it has been started
    refused,    \* times it ended because a class had been created meanwhile
    classes     \* classes of the Weaviate schema

vars == <<stage, class, exit, starts, refused, classes>>

Stages == {"off", "config", "cache", "tracer", "postgres", "check", "create",
           "embedder", "listen", "up"}
Reasons == {"none", "config", "tracer", "postgres", "refused", "schema",
            "embedder", "listen", "killed"}

\* The databases may be new or have been used before.
Init ==
    /\ stage = [s \in Servers |-> "off"]
    /\ class = [s \in Servers |-> 1]
    /\ exit = [s \in Servers |-> "none"]
    /\ starts = [s \in Servers |-> 0]
    /\ refused = [s \in Servers |-> 0]
    /\ classes \in SUBSET Classes

Start(s) ==
    /\ stage[s] = "off" /\ starts[s] < MaxStarts
    /\ stage' = [stage EXCEPT ![s] = "config"]
    /\ class' = [class EXCEPT ![s] = 1]
    /\ exit' = [exit EXCEPT ![s] = "none"]
    /\ starts' = [starts EXCEPT ![s] = @ + 1]
    /\ UNCHANGED <<refused, classes>>

To(s, next) ==
    /\ stage' = [stage EXCEPT ![s] = next]
    /\ UNCHANGED <<class, exit, starts, refused>>

\* log.Fatal, or panic for the configuration.
Exit(s, reason) ==
    /\ stage' = [stage EXCEPT ![s] = "off"]
    /\ exit' = [exit EXCEPT ![s] = reason]
    /\ refused' = IF reason = "refused" THEN [refused EXCEPT ![s] = @ + 1]
                  ELSE refused
    /\ UNCHANGED <<class, starts>>

LoadConfig(s) ==
    /\ stage[s] = "config"
    /\ To(s, "cache") \/ Exit(s, "config")
    /\ UNCHANGED classes

\* No Redis leaves the memory cache, a bad URL no cache at all.
NewHybridCache(s) ==
    /\ stage[s] = "cache"
    /\ To(s, "tracer")
    /\ UNCHANGED classes

InitTracer(s) ==
    /\ stage[s] = "tracer"
    /\ To(s, "postgres") \/ Exit(s, "tracer")
    /\ UNCHANGED classes

\* Connect pings the database and looks at none of its tables.
ConnectPostgres(s) ==
    /\ stage[s] = "postgres"
    /\ To(s, "check") \/ Exit(s, "postgres")
    /\ UNCHANGED classes

-----------------------------------------------------------------------------
\* The class is there: on to the next one, or to the services.
Ensured(s) ==
    /\ IF class[s] = 1
       THEN /\ stage' = [stage EXCEPT ![s] = "check"]
            /\ class' = [class EXCEPT ![s] = 2]
       ELSE /\ stage' = [stage EXCEPT ![s] = "embedder"]
            /\ UNCHANGED class
    /\ UNCHANGED <<exit, starts, refused>>

\* Mutant: the class is created without asking whether it exists.
CheckNothing(s) ==
    /\ stage[s] = "check"
    /\ To(s, "create") \/ Exit(s, "schema")
    /\ UNCHANGED classes

CheckClass(s) ==
    /\ stage[s] = "check"
    /\ \/ class[s] \in classes /\ Ensured(s)
       \/ class[s] \notin classes /\ To(s, "create")
       \/ Exit(s, "schema")
    /\ UNCHANGED classes

\* Weaviate refuses a class that another process has created since it was
\* asked; an answer that is lost is an error as well.
CreateClass(s) ==
    /\ stage[s] = "create"
    /\ \/ /\ class[s] \notin classes
          /\ classes' = classes \cup {class[s]}
          /\ Ensured(s) \/ Exit(s, "schema")
       \/ class[s] \in classes /\ Exit(s, "refused") /\ UNCHANGED classes
       \/ Exit(s, "schema") /\ UNCHANGED classes

-----------------------------------------------------------------------------
\* A URL or a model the client does not take.
NewServices(s) ==
    /\ stage[s] = "embedder"
    /\ To(s, "listen") \/ Exit(s, "embedder")
    /\ UNCHANGED classes

Run(s) ==
    /\ stage[s] = "listen"
    /\ To(s, "up") \/ Exit(s, "listen")
    /\ UNCHANGED classes

\* There is no shutdown: a process that is to end is killed, at any stage.
Kill(s) ==
    /\ stage[s] # "off"
    /\ Exit(s, "killed")
    /\ UNCHANGED classes

Step(s) ==
    \/ LoadConfig(s) \/ NewHybridCache(s) \/ InitTracer(s)
    \/ ConnectPostgres(s) \/ CheckClass(s) \/ CreateClass(s)
    \/ NewServices(s) \/ Run(s)

Next == \E s \in Servers : Start(s) \/ Step(s) \/ Kill(s)
Spec == Init /\ [][Next]_vars

-----------------------------------------------------------------------------
TypeOK ==
    /\ stage \in [Servers -> Stages] /\ class \in [Servers -> Classes]
    /\ exit \in [Servers -> Reasons]
    /\ starts \in [Servers -> 0..MaxStarts]
    /\ refused \in [Servers -> Nat]
    /\ classes \subseteq Classes

\* A process takes requests only when both classes exist, whoever created
\* them: no request is the one that makes Weaviate invent a schema of its own
\* (NewWeaviateVectorStore, NewRepoStore).
ServesWithSchema == \A s \in Servers : stage[s] = "up" => classes = Classes

\* Processes that start at the same time do not all fall to the race between
\* asking for a class and creating it: whoever lost, lost to one that went on
\* (ensureSchema).
NotAllRefused == ~\A s \in Servers : exit[s] = "refused"

\* And one that is started again finds what it lost: it loses at most once
\* for each class, however often it is started.
RefusedOncePerClass == \A s \in Servers : refused[s] <= Cardinality(Classes)

\* Processes that start together end up with one schema: none takes requests
\* without it, they do not all fall to the race for a class, and each falls to
\* it at most once per class (ensureSchema).
OneSchema ==
    TypeOK /\ ServesWithSchema /\ NotAllRefused /\ RefusedOncePerClass
=============================================================================
