---------------------------- MODULE Configuration ----------------------------
(***************************************************************************)
(* LoadConfig: which value each key of the configuration gets, and when a  *)
(* server refuses to start.                                                *)
(*                                                                         *)
(* A key has a value from the environment, from the one configuration file *)
(* that is read, from a default registered with SetDefault, or the zero    *)
(* value.  Viper looks in the environment only for keys that it knows from *)
(* the file or from a default.  The keys here stand for the others:        *)
(* "source", "jwt_secret" and "environment" for all keys with a registered *)
(* default, "coder_model" for the keys of llm.agent, which have none.      *)
(***************************************************************************)
EXTENDS Naturals

CONSTANTS
    Files,         \* contents a configuration file may have
    Environments   \* environment variables that may be set

Keys == {"environment", "source", "jwt_secret", "coder_model"}

\* A variable, a file entry or a field that is not set; Unmarshal leaves such
\* a field empty.
Unset == "unset"
Nothing == [k \in Keys |-> Unset]

Good(entries) == [kind |-> "good", entries |-> entries]
NoFile == [kind |-> "none", entries |-> Nothing]
Malformed == [kind |-> "malformed", entries |-> Nothing]
AnyFile == {Good(f) : f \in Files} \cup {NoFile, Malformed}

\* NewDefault: a database source with "secret@localhost" and a secret that is
\* known to everybody.
Default ==
    [environment |-> "dev", source |-> "default", jwt_secret |-> "default",
     coder_model |-> "qwen"]

\* The keys with a SetDefault.
Registered == Keys \ {"coder_model"}

VARIABLES
    env,       \* env[key]: the variable with the prefix REFINERY_ for key
    cwdFile,   \* config.yaml of the working directory
    pathFile,  \* config.yaml of LoadConfig's path
    config,    \* the configuration unmarshalled
    status     \* "loading", "unmarshalled", "running" or "refused"

vars == <<env, cwdFile, pathFile, config, status>>

Init ==
    /\ env \in Environments
    /\ cwdFile \in AnyFile
    /\ pathFile \in AnyFile
    /\ config = Nothing
    /\ status = "loading"

\* The working directory is searched first, and only one file is read.
File == IF cwdFile # NoFile THEN cwdFile ELSE pathFile

InFile(k) == File.entries[k] # Unset

\* The replacer makes REFINERY_AUTH_JWT_SECRET of auth.jwt_secret.
Environment(k) == env[k]

\* AutomaticEnv: a variable counts when viper knows its key and, as empty
\* variables are not allowed, when it is not empty.
FromEnvironment(k) ==
    /\ k \in Registered \/ InFile(k)
    /\ Environment(k) \notin {Unset, ""}

Value(k) == CASE FromEnvironment(k) -> Environment(k)
              [] ~FromEnvironment(k) /\ InFile(k) -> File.entries[k]
              [] OTHER -> IF k \in Registered THEN Default[k] ELSE Unset

-----------------------------------------------------------------------------
ReadFails ==
    /\ status = "loading"
    /\ File = Malformed
    /\ status' = "refused"
    /\ UNCHANGED <<env, cwdFile, pathFile, config>>

Unmarshal ==
    /\ status = "loading"
    /\ File # Malformed
    /\ config' = [k \in Keys |-> Value(k)]
    /\ status' = "unmarshalled"
    /\ UNCHANGED <<env, cwdFile, pathFile>>

\* The validate tags: required, oneof, and min=32 for the secret.
Valid(c) == /\ c.environment \in {"dev", "staging", "production"}
            /\ c.source \notin {Unset, ""}
            /\ c.jwt_secret \notin {Unset, "", "short"}

\* Sources that contain "secret@localhost": the default, and others like it.
DefaultCredentials == {Default.source, "local"}

\* Mutant: what the file says is looked at instead of the outcome.
FileIsSafe(c) == /\ File.entries.jwt_secret # Default.jwt_secret
                 /\ File.entries.source \notin DefaultCredentials

\* The checks for production.  Whatever else the repository publishes passes:
\* the credentials of docker-compose.yaml, the secret of config.yaml.
SafeForProduction(c) == /\ c.jwt_secret # Default.jwt_secret
                        /\ c.source \notin DefaultCredentials

Accepted(c) ==
    Valid(c) /\ (c.environment = "production" => SafeForProduction(c))

Validate ==
    /\ status = "unmarshalled"
    /\ status' = IF Accepted(config) THEN "running" ELSE "refused"
    /\ UNCHANGED <<env, cwdFile, pathFile, config>>

Next == ReadFails \/ Unmarshal \/ Validate
Spec == Init /\ [][Next]_vars

-----------------------------------------------------------------------------
TypeOK ==
    /\ env \in Environments
    /\ cwdFile \in AnyFile
    /\ pathFile \in AnyFile
    /\ DOMAIN config = Keys
    /\ status \in {"loading", "unmarshalled", "running", "refused"}

\* Viper looks at the key in a place where the operator has set it.
Set(k) == FromEnvironment(k) \/ InFile(k)

\* A server that runs in production has a database and a secret that somebody has
\* set, in its environment or in the file that is read: neither a variable that
\* is empty nor a file that is not the one meant makes it fall back to a default
\* unnoticed.  What has been set need not be private (LoadConfig).
NothingFallsBack ==
    status = "running" /\ config.environment = "production" =>
        Set("source") /\ Set("jwt_secret")
=============================================================================
