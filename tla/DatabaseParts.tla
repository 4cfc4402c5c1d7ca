---------------------------- MODULE DatabaseParts ----------------------------
(***************************************************************************)
(* What reads and writes the databases and the configuration, beside each  *)
(* other: Registration (Postgres), RepositoryStore (Weaviate), Startup and *)
(* Configuration.  They share no state, so a behaviour takes steps of one  *)
(* part, with the others at rest.                                          *)
(***************************************************************************)
EXTENDS Registration

CONSTANTS
    Calls, Ids, Records, MaxOps, ListLimit,
    Servers, MaxStarts,
    Files, Environments

VARIABLES
    part,
    objects, storePc, op, storeReply, done,
    stage, class, exit, starts, refused, classes,
    env, cwdFile, pathFile, config, status

storeVars == <<objects, storePc, op, storeReply, done>>
startVars == <<stage, class, exit, starts, refused, classes>>
configVars == <<env, cwdFile, pathFile, config, status>>

Store == INSTANCE RepositoryStore WITH pc <- storePc, reply <- storeReply
Launch == INSTANCE Startup
Loader == INSTANCE Configuration

ASSUME StoreAssumption == Store!RecordsAssumption
ASSUME LaunchAssumption == Launch!StartAssumption

-----------------------------------------------------------------------------
StartAtRest == Launch!Init /\ classes = {}
ConfigAtRest ==
    /\ Loader!Init
    /\ env = Loader!Nothing
    /\ cwdFile = Loader!NoFile /\ pathFile = Loader!NoFile

PartsInit ==
    \/ part = "users" /\ Init /\ Store!Init /\ StartAtRest /\ ConfigAtRest
    \/ part = "store" /\ Store!Init /\ Init /\ StartAtRest /\ ConfigAtRest
    \/ part = "start" /\ Launch!Init /\ Init /\ Store!Init /\ ConfigAtRest
    \/ part = "config" /\ Loader!Init /\ Init /\ Store!Init /\ StartAtRest

PartsNext ==
    \/ /\ part = "users" /\ Next
       /\ UNCHANGED <<part, storeVars, startVars, configVars>>
    \/ /\ part = "store" /\ Store!Next
       /\ UNCHANGED <<part, vars, startVars, configVars>>
    \/ /\ part = "start" /\ Launch!Next
       /\ UNCHANGED <<part, vars, storeVars, configVars>>
    \/ /\ part = "config" /\ Loader!Next
       /\ UNCHANGED <<part, vars, storeVars, startVars>>

PartsSpec ==
    /\ PartsInit
    /\ [][PartsNext]_<<part, vars, storeVars, startVars, configVars>>

-----------------------------------------------------------------------------
\* The store of repositories is a register that is read and written as a
\* whole (RepoStore).
ImplementsRegister == Store!ImplementsRegister

\* Processes that start together end up with one schema (ensureSchema).
OneSchema == Launch!OneSchema

\* No server in production falls back to the default database or secret
\* (LoadConfig).
NothingFallsBack == Loader!TypeOK /\ Loader!NothingFallsBack
=============================================================================
