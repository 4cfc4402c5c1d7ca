------------------------- MODULE RepositoryCatalog -------------------------
(***************************************************************************)
(* What the repository API promises its clients, without requests, files   *)
(* or chunks: each repository has a record with a status, and is worked on *)
(* by at least one indexing job or by none.  RepositoryService implements  *)
(* this specification.                                                     *)
(***************************************************************************)
CONSTANT Repos

VARIABLES
    record,     \* status of each record, or "absent"
    working,    \* repositories with an indexing job
    known,      \* repositories whose registration has been decided
    lost        \* unfinished records whose job is known to be lost

vars == <<record, working, known, lost>>
Unfinished == {"pending", "indexing"}

Init ==
    /\ record = [r \in Repos |-> "absent"]
    /\ working = {} /\ known = {} /\ lost = {}

\* A new repository gets a record and a job.
Register(r) ==
    /\ r \notin known
    /\ known' = known \cup {r}
    /\ record' = [record EXCEPT ![r] = "pending"]
    /\ working' = working \cup {r}
    /\ UNCHANGED lost

\* A registration is refused: the record may exist, but no job does.
Refuse(r) ==
    /\ r \notin known
    /\ known' = known \cup {r}
    /\ \/ UNCHANGED <<record, lost>>
       \/ /\ record' = [record EXCEPT ![r] = "pending"]
          /\ lost' = lost \cup {r}
    /\ UNCHANGED working

\* A reindex request is accepted.
Request(r) ==
    /\ record[r] # "absent"
    /\ working' = working \cup {r}
    /\ UNCHANGED <<record, known, lost>>

\* A job stores the status indexing, even for a record that was removed.
Begin(r) ==
    /\ r \in working
    /\ record' = [record EXCEPT ![r] = "indexing"]
    /\ UNCHANGED <<working, known, lost>>

\* A job stores the status ready and ends; another job may still be at work.
Finish(r) ==
    /\ r \in working
    /\ record' = [record EXCEPT ![r] = "ready"]
    /\ lost' = lost \ {r}
    /\ working' \in {working, working \ {r}}
    /\ UNCHANGED known

\* A job ends without storing its outcome.
GiveUp(r) ==
    /\ r \in working
    /\ lost' = IF record[r] \in Unfinished THEN lost \cup {r} ELSE lost
    /\ working' \in {working, working \ {r}}
    /\ UNCHANGED <<record, known>>

\* The record is removed, while jobs go on.
Remove(r) ==
    /\ r \in known
    /\ record' = [record EXCEPT ![r] = "absent"]
    /\ lost' = lost \ {r}
    /\ UNCHANGED <<working, known>>

\* The server dies; registrations in flight are lost with the jobs.
Die ==
    /\ working' = {}
    /\ lost' = lost \cup {r \in Repos : record[r] \in Unfinished}
    /\ known' \in SUBSET Repos
    /\ known \subseteq known'
    /\ UNCHANGED record

Next ==
    \/ \E r \in Repos :
         \/ Register(r) \/ Refuse(r) \/ Request(r) \/ Begin(r)
         \/ Finish(r) \/ GiveUp(r) \/ Remove(r)
    \/ Die

Spec == Init /\ [][Next]_vars
=============================================================================
