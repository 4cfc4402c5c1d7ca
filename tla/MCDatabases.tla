----------------------------- MODULE MCDatabases -----------------------------
(***************************************************************************)
(* Records, configuration files and environments for DatabaseParts, and    *)
(* its symmetry.                                                           *)
(***************************************************************************)
EXTENDS DatabaseParts, TLC

\* A record whose indexing failed, and one that is ready.
Record(state, text, time, map) ==
    [status |-> state, error_msg |-> text, last_indexed |-> time,
     index_config |-> map]

SampleRecords == {
    Record("error", "text", "zero", "nil"),
    Record("ready", "zero", "time", "map") }

\* Files and environments with the values that the loader tells apart.
Entries(e, src, jwt, coder) ==
    [environment |-> e, source |-> src, jwt_secret |-> jwt, coder_model |-> coder]

SampleFiles ==
    {Entries(e, src, jwt, IF src = "unset" THEN "unset" ELSE "own") :
        e \in {"unset", "production"}, src \in {"unset", "own", "local"},
        jwt \in {"unset", "published", "default"}}

SampleEnvironments ==
    {Entries(e, src, jwt, coder) :
        e \in {"unset", "production", "unknown"}, src \in {"unset", "", "compose"},
        jwt \in {"unset", "", "other", "short"}, coder \in {"unset", "other"}}

Symmetry ==
    Permutations(Calls) \cup Permutations(Ids) \cup Permutations(Clients)
=============================================================================
