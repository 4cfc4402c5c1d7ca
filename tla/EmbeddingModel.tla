--------------------------- MODULE EmbeddingModel ---------------------------
(***************************************************************************)
(* Changing the embedding model of a running server: SetEmbeddingModel     *)
(* swaps the embedder's client, its model name and the configuration one   *)
(* after the other and without a lock, "deletes" all indices, and starts a *)
(* reindexing job for every repository.  Jobs read the client anew for     *)
(* every file, so they overlap with changes and with each other.           *)
(*                                                                         *)
(* A call is one request and runs once: a change of the model or a         *)
(* reindexRepository.  Its job for repository r is <<call, r>>.  Every     *)
(* repository has a directory of its own and the same number of files; a   *)
(* file's chunk is the model that computed its vector.                     *)
(***************************************************************************)
EXTENDS Integers, FiniteSets

CONSTANTS
    Models,      \* the names ListModels returns
    Configured,  \* llm.embedding_model of the configuration file
    Dim,         \* length of each model's vectors
    Repos,       \* the registered repositories
    ListLimit,   \* how many of them FindAll asks for
    NumFiles,    \* indexable files of a repository
    Calls,       \* requests served in a behaviour
    MaxFaults,   \* bound: failing remote calls in a behaviour
    MaxRestarts  \* bound: restarts of the server in a behaviour

ASSUME ModelAssumption == Configured \in Models /\ Dim \in [Models -> Nat]
ASSUME ListAssumption == IsFiniteSet(Repos) /\ ListLimit \in Nat
ASSUME BoundAssumption ==
    NumFiles \in Nat /\ MaxFaults \in Nat /\ MaxRestarts \in Nat

Files == 1..NumFiles
Chunks == Repos \X Files
Jobs == Calls \X Repos

\* Weaviate fixes the length of a class's vectors with the first one, and
\* rejects others from then on.
IndexDim == Dim[Configured]

VARIABLES
    client,   \* model of OllamaEmbedder.client
    model,    \* OllamaEmbedder.model
    config,   \* Config.LLM.EmbeddingModel
    vector,   \* the model behind each stored vector
    callPc, target,
    jobPc,
    jobNext,  \* the file each job is at
    jobVec,   \* the model behind the vector in the job's hands
    faults, restarts,
    \* history, read by properties only:
    torn,     \* a change overlapped the two assignments of another
    excused   \* chunks whose recomputation is known to be lost

callVars == <<callPc, target>>
jobVars == <<jobPc, jobNext, jobVec>>
budget == <<faults, restarts>>
vars == <<client, model, config, vector, callVars, jobVars, budget, torn,
          excused>>

\* The server has been running with the configured model.
Init ==
    /\ client = Configured /\ model = Configured /\ config = Configured
    /\ vector = [ch \in Chunks |-> Configured]
    /\ callPc = [c \in Calls |-> "idle"]
    /\ target = [c \in Calls |-> Configured]
    /\ jobPc = [j \in Jobs |-> "none"]
    /\ jobNext = [j \in Jobs |-> 1]
    /\ jobVec = [j \in Jobs |-> Configured]
    /\ faults = 0 /\ restarts = 0
    /\ torn = FALSE /\ excused = {}

Fault == faults < MaxFaults /\ faults' = faults + 1
StepCall(c, pc) == callPc' = [callPc EXCEPT ![c] = pc]
StepJob(j, pc) == jobPc' = [jobPc EXCEPT ![j] = pc]

-----------------------------------------------------------------------------
(* SetEmbeddingModel.                                                      *)

\* Between the two assignments of SetModel.
Writers == {c \in Calls : callPc[c] = "set_model"}

\* GetCurrentModel: a read that races the assignment may see either name or
\* parts of both.
CurrentModel == IF Writers = {} THEN {model} ELSE Models

\* The model is the current one already: nothing to do, the answer is true.
Keep(c, m) ==
    /\ callPc[c] = "idle"
    /\ m \in CurrentModel
    /\ StepCall(c, "ok")
    /\ target' = [target EXCEPT ![c] = m]
    /\ UNCHANGED <<client, model, config, vector, jobVars, budget, torn, excused>>

\* ListModels knows the model and it is not the current one.
Change(c, m) ==
    /\ callPc[c] = "idle"
    /\ \E current \in CurrentModel : current # m
    /\ StepCall(c, "set_client")
    /\ target' = [target EXCEPT ![c] = m]
    /\ UNCHANGED <<client, model, config, vector, jobVars, budget, torn, excused>>

\* ListModels fails, or does not know the model.
Refuse(c) ==
    /\ callPc[c] = "idle"
    /\ StepCall(c, "failed")
    /\ UNCHANGED <<client, model, config, vector, target, jobVars, budget,
                   torn, excused>>

\* Mutant: SetModel only renames.
SetClientForgotten(c) ==
    /\ callPc[c] = "set_client"
    /\ torn' = (Writers # {})
    /\ excused' = {}
    /\ StepCall(c, "set_model")
    /\ UNCHANGED <<client, model, config, vector, target, jobVars, budget>>

\* SetModel: `o.client = llm`.  From here on this call owes every chunk.
SetClient(c) ==
    /\ callPc[c] = "set_client"
    /\ client' = target[c]
    /\ torn' = (Writers # {})
    /\ excused' = {}
    /\ StepCall(c, "set_model")
    /\ UNCHANGED <<model, config, vector, target, jobVars, budget>>

\* SetModel: `o.model = newModel`; two writers at once may mix their names.
SetName(c) ==
    /\ callPc[c] = "set_model"
    /\ model' \in IF Writers = {c} THEN {target[c]} ELSE Models
    /\ StepCall(c, "config")
    /\ UNCHANGED <<client, config, vector, target, jobVars, budget, torn, excused>>

\* DeleteAllIndices logs a warning and deletes nothing; then the configuration
\* in memory is changed.
SetConfig(c) ==
    /\ callPc[c] = "config"
    /\ config' = target[c]
    /\ StepCall(c, "list")
    /\ UNCHANGED <<client, model, vector, target, jobVars, budget, torn, excused>>

\* What FindAll may return: every repository, or as many as its limit, in no
\* order it asks for.
Lists ==
    IF Cardinality(Repos) <= ListLimit THEN {Repos}
    ELSE {listed \in SUBSET Repos : Cardinality(listed) = ListLimit}

\* One goroutine for each of the repositories.
StartJobs(c, repos) ==
    jobPc' = [j \in Jobs |->
                IF j[1] = c /\ j[2] \in repos THEN "find" ELSE jobPc[j]]

\* Mutant: one of the listed repositories is left out.
ReindexAllButOne(c) ==
    /\ callPc[c] = "list"
    /\ StepCall(c, "ok")
    /\ \E listed \in Lists :
         /\ \E s \in listed : StartJobs(c, listed \ {s})
         /\ excused' = excused \cup {ch \in Chunks : ch[1] \notin listed}
    /\ UNCHANGED <<client, model, config, vector, target, jobNext, jobVec,
                   budget, torn>>

\* List succeeds: a job for each repository in its answer, and the answer of
\* the call is true.  Repositories beyond the limit get no job.
ReindexAll(c) ==
    /\ callPc[c] = "list"
    /\ StepCall(c, "ok")
    /\ \E listed \in Lists :
         /\ StartJobs(c, listed)
         /\ excused' = excused \cup {ch \in Chunks : ch[1] \notin listed}
    /\ UNCHANGED <<client, model, config, vector, target, jobNext, jobVec,
                   budget, torn>>

\* List fails: the model stays changed and no job is started.
ListFails(c) ==
    /\ callPc[c] = "list"
    /\ Fault
    /\ StepCall(c, "failed")
    /\ excused' = Chunks
    /\ UNCHANGED <<client, model, config, vector, target, jobVars, restarts, torn>>

\* The other request that starts a job: reindexRepository.
Reindex(c, r) ==
    /\ callPc[c] = "idle"
    /\ StepCall(c, "reindex")
    /\ StepJob(<<c, r>>, "files")
    /\ UNCHANGED <<client, model, config, vector, target, jobNext, jobVec,
                   budget, torn, excused>>

-----------------------------------------------------------------------------
(* Jobs.                                                                   *)

\* Reindex in the goroutine: FindByID.
Find(j) ==
    /\ jobPc[j] = "find"
    /\ StepJob(j, "files")
    /\ UNCHANGED <<client, model, config, vector, callVars, jobNext, jobVec,
                   budget, torn, excused>>

\* Its error is dropped: `_ = r.RepoService.Reindex(...)`.
FindFails(j) ==
    /\ jobPc[j] = "find"
    /\ Fault
    /\ StepJob(j, "done")
    /\ excused' = excused \cup {ch \in Chunks : ch[1] = j[2]}
    /\ UNCHANGED <<client, model, config, vector, callVars, jobNext, jobVec,
                   restarts, torn>>

\* EmbedBatch uses the client of this moment.
Embed(j) ==
    /\ jobPc[j] = "files" /\ jobNext[j] \in Files
    /\ jobVec' = [jobVec EXCEPT ![j] = client]
    /\ StepJob(j, "upsert")
    /\ UNCHANGED <<client, model, config, vector, callVars, jobNext, budget,
                   torn, excused>>

NextFile(j) ==
    /\ StepJob(j, "files")
    /\ jobNext' = [jobNext EXCEPT ![j] = @ + 1]
    /\ UNCHANGED <<client, model, config, callVars, jobVec, restarts, torn>>

AtChunk(j) == <<j[2], jobNext[j]>>

\* BatchUpsert replaces the chunk, by a vector that may be older than the one
\* it finds.
Upsert(j) ==
    /\ jobPc[j] = "upsert"
    /\ Dim[jobVec[j]] = IndexDim
    /\ vector' = [vector EXCEPT ![AtChunk(j)] = jobVec[j]]
    /\ excused' = IF jobVec[j] = client THEN excused \ {AtChunk(j)}
                                        ELSE excused \cup {AtChunk(j)}
    /\ NextFile(j)
    /\ UNCHANGED faults

\* Weaviate rejects a vector of another length; the job logs it and goes on.
Rejected(j) ==
    /\ jobPc[j] = "upsert"
    /\ Dim[jobVec[j]] # IndexDim
    /\ excused' = excused \cup {AtChunk(j)}
    /\ NextFile(j)
    /\ UNCHANGED <<vector, faults>>

\* Any other failure of processFile is logged too.
SkipFile(j) ==
    /\ \/ jobPc[j] = "files" /\ jobNext[j] \in Files
       \/ jobPc[j] = "upsert"
    /\ Fault
    /\ excused' = excused \cup {AtChunk(j)}
    /\ NextFile(j)
    /\ UNCHANGED vector

End(j) ==
    /\ jobPc[j] = "files" /\ jobNext[j] \notin Files
    /\ StepJob(j, "done")
    /\ UNCHANGED <<client, model, config, vector, callVars, jobNext, jobVec,
                   budget, torn, excused>>

\* A restart reads the configuration file, which SetEmbeddingModel does not
\* write: the server is back to the configured model.
Restart ==
    /\ restarts < MaxRestarts
    /\ restarts' = restarts + 1
    /\ client' = Configured /\ model' = Configured /\ config' = Configured
    /\ callPc' = [c \in Calls |->
                    IF callPc[c] = "idle" THEN "idle" ELSE "failed"]
    /\ jobPc' = [j \in Jobs |-> IF jobPc[j] = "none" THEN "none" ELSE "done"]
    /\ torn' = FALSE
    /\ excused' = Chunks
    /\ UNCHANGED <<vector, target, jobNext, jobVec, faults>>

-----------------------------------------------------------------------------
CallStep(c) ==
    \/ SetClient(c) \/ SetName(c) \/ SetConfig(c)
    \/ ReindexAll(c) \/ ListFails(c)

JobStep(j) ==
    \/ Find(j) \/ FindFails(j) \/ Embed(j) \/ Upsert(j) \/ Rejected(j)
    \/ SkipFile(j) \/ End(j)

Next ==
    \/ \E c \in Calls :
         \/ \E m \in Models : Keep(c, m) \/ Change(c, m)
         \/ Refuse(c)
         \/ \E r \in Repos : Reindex(c, r)
         \/ CallStep(c)
    \/ \E j \in Jobs : JobStep(j)
    \/ Restart

Spec == Init /\ [][Next]_vars

\* Goroutines run, and the requests they make return.
FairSpec ==
    /\ Spec
    /\ \A c \in Calls : WF_vars(CallStep(c))
    /\ \A j \in Jobs : WF_vars(JobStep(j))

-----------------------------------------------------------------------------
(* Properties.                                                             *)

\* Type invariant.
TypeOK ==
    /\ client \in Models /\ model \in Models /\ config \in Models
    /\ vector \in [Chunks -> Models]
    /\ callPc \in [Calls -> {"idle", "set_client", "set_model", "config",
                             "list", "ok", "failed", "reindex"}]
    /\ target \in [Calls -> Models]
    /\ jobPc \in [Jobs -> {"none", "find", "files", "upsert", "done"}]
    /\ jobNext \in [Jobs -> 1..(NumFiles + 1)]
    /\ jobVec \in [Jobs -> Models]
    /\ faults \in 0..MaxFaults /\ restarts \in 0..MaxRestarts
    /\ torn \in BOOLEAN
    /\ excused \subseteq Chunks

\* A call that has changed the client and will still start its jobs.
Owes(c) == callPc[c] \in {"set_model", "config", "list"}

\* A job that will still compute the chunk with the client as it is, unless
\* that changes again.
Covers(j, ch) ==
    /\ j[2] = ch[1]
    /\ \/ jobPc[j] = "find"
       \/ jobPc[j] = "files" /\ jobNext[j] <= ch[2]
       \/ jobPc[j] = "upsert" /\ jobNext[j] < ch[2]
       \/ jobPc[j] = "upsert" /\ jobNext[j] = ch[2] /\ jobVec[j] = client

\* A vector of another model than the one queries are embedded with is about
\* to be replaced, or is one of the known losses since the last change: a
\* failed List, a repository beyond the limit of its answer, a failed FindByID
\* or file, a rejected vector, an older vector stored by a job that had
\* computed it before the change, a restart.  However many changes and jobs
\* overlap, no other chunk is forgotten.
NoForgottenChunk ==
    \A ch \in Chunks :
        vector[ch] # client =>
            \/ \E c \in Calls : Owes(c)
            \/ \E j \in Jobs : Covers(j, ch)
            \/ ch \in excused

\* GetCurrentModel names the model queries are embedded with, except between
\* the two assignments and after two changes have overlapped there.
NameMatchesClient == model = client \/ Writers # {} \/ torn

\* After a change, every vector of the old model comes to be replaced, the
\* known losses apart.
Replaced ==
    \A ch \in Chunks :
        vector[ch] # client ~> vector[ch] = client \/ ch \in excused

\* What the README says of setEmbeddingModel: all indices are deleted and all
\* repositories reindexed.  When an answered call's jobs are done, vectors of
\* the old model are still there when the new one's are of another length, as
\* nothing was deleted and every upsert is rejected.
Quiet ==
    /\ \A c \in Calls : callPc[c] \in {"idle", "ok"}
    /\ \A j \in Jobs : jobPc[j] \in {"none", "done"}
IndicesAreReplaced ==
    Quiet /\ (\E c \in Calls : callPc[c] = "ok") =>
        \A ch \in Chunks : vector[ch] = client
=============================================================================
