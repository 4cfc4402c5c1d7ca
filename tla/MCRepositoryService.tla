------------------------ MODULE MCRepositoryService ------------------------
(***************************************************************************)
(* Small instances of RepositoryService: an uploaded repository in a       *)
(* directory of its own, and two that are registered for a directory and   *)
(* for one inside it.                                                      *)
(***************************************************************************)
EXTENDS RepositoryService, TLC

CONSTANTS upload, local, inner, uploadDir, outerDir, innerDir, zipped, upper, lower

Directories ==
    [r \in Repos |-> CASE r = upload -> uploadDir
                       [] r = local  -> outerDir
                       [] r = inner  -> innerDir]

Walks ==
    [p \in Paths |-> CASE p = uploadDir -> <<zipped>>
                       [] p = outerDir  -> <<upper, lower>>
                       [] p = innerDir  -> <<lower>>]

Contents ==
    [p \in Paths |-> CASE p = uploadDir -> {uploadDir, zipped}
                       [] p = outerDir  -> {outerDir, upper, innerDir, lower}
                       [] p = innerDir  -> {innerDir, lower}]

\* The slots of requests and of goroutines are interchangeable.
Symmetry == Permutations(Calls) \cup Permutations(Jobs)

\* Bound: a behaviour is about the upload, with one fault or one crash, or about
\* the registered repositories, without either: two of their requests and jobs
\* at a time, no two of which are jobs of one repository.
UploadAlone == issued' \subseteq {upload} /\ faults' + crashes' <= 1

BusyCalls == {c \in Calls : callPc'[c] # "idle"}
BusyJobs == {j \in Jobs : jobPc'[j] # "idle"}
RegisteredAlone ==
    /\ upload \notin issued'
    /\ faults' = 0 /\ crashes' = 0 /\ expired' = {}
    /\ Cardinality(BusyCalls) + Cardinality(BusyJobs) <= 2
    /\ \A j, k \in BusyJobs : jobRepo'[j] = jobRepo'[k] => j = k

Bound == UploadAlone \/ RegisteredAlone
=============================================================================
