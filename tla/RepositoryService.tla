------------------------- MODULE RepositoryService -------------------------
(***************************************************************************)
(* The life of a repository: upload or registration, background indexing,  *)
(* reindexing and deletion, over the two Weaviate classes (repository      *)
(* records and code chunks) and the upload directories on disk.            *)
(*                                                                         *)
(* A call is one GraphQL request being served (upload, create or delete);  *)
(* a job is one `go s.runIndexing(repo)` goroutine.  Calls and jobs are    *)
(* slots: a finished one is idle again.  Each call to the database or the  *)
(* disk is one step, so that requests and goroutines interleave between    *)
(* them, and each remote call has a variant that fails.                    *)
(***************************************************************************)
EXTENDS Integers, FiniteSets, Sequences

CONSTANTS
    Repos,       \* the repository ids uuid.New() may issue
    Calls,       \* slots for requests being served
    Jobs,        \* slots for indexing goroutines
    Paths,       \* directories on the server
    PathOf,      \* the directory of each repository
    Managed,     \* the repositories that come from an upload (is_managed)
    Files,       \* paths of files, as a walk spells them, one chunk each
    FilesIn,     \* the indexable files a walk of each directory comes to
    Under,       \* each directory, and the directories and files inside it
    MaxDelete,   \* external: objects that Weaviate removes per batch delete
    NoRepo,      \* the owner of a chunk that is not stored
    MaxFaults,   \* bound: failing remote or disk calls in a behaviour
    MaxCrashes,  \* bound: crashes of the server process in a behaviour
    Deadline     \* whether a job may outlive its 30-minute context

ASSUME PathAssumption == PathOf \in [Repos -> Paths]
ASSUME ManagedAssumption == Managed \subseteq Repos
\* Directories may be inside each other, and then walks come to the same files.
ASSUME FilesAssumption == IsFiniteSet(Files) /\ FilesIn \in [Paths -> Seq(Files)]
ASSUME UnderAssumption ==
    /\ Under \in [Paths -> SUBSET (Paths \cup Files)]
    /\ \A p \in Paths : p \in Under[p]
\* An upload directory is named after a fresh uuid, beside the others.
ASSUME UploadDirAssumption ==
    \A r, s \in Managed : PathOf[s] \in Under[PathOf[r]] => r = s
ASSUME OwnerAssumption == NoRepo \notin Repos
ASSUME BoundAssumption ==
    MaxDelete \in Nat /\ MaxFaults \in Nat /\ MaxCrashes \in Nat
ASSUME DeadlineAssumption == Deadline \in BOOLEAN

Status == {"absent", "pending", "indexing", "ready"}
Unfinished == {"pending", "indexing"}
CallPC == {"idle", "unpack", "save", "drop_index", "rm_files", "drop_record"}
JobPC == {"idle", "mark", "mark_update", "walk", "files", "upsert",
          "final", "final_update"}

VARIABLES
    store,       \* status of each repository record, or "absent"
    vstore,      \* owner (repo_id) of each file's chunk; its id hashes the path
    disk,        \* the directories and files that exist
    callPc, callRepo,
    jobPc, jobRepo,
    jobNext,     \* the file of filesToProcess the job is at
    expired,     \* jobs whose context has passed its deadline
    issued,      \* ids handed out by uuid.New()
    faults, crashes,
    \* history, read by properties only:
    stranded,    \* unfinished records whose job is known to be lost
    litter,      \* managed directories a failed or crashed call left behind
    overlapped,  \* deleting calls that a job of the same repository overlapped
    deleted,     \* repositories whose record a delete call removed
    settled,     \* those of them whose deletion no job overlapped
    excess,      \* repositories with more chunks than their deletion may remove
    full,        \* jobs that have stored every chunk they came to
    complete     \* repositories fully indexed since their index was dropped

callVars == <<callPc, callRepo>>
jobVars == <<jobPc, jobRepo, jobNext, expired>>
budget == <<faults, crashes>>
history ==
    <<stranded, litter, overlapped, deleted, settled, excess, full, complete>>
vars == <<store, vstore, disk, callVars, jobVars, issued, budget, history>>

-----------------------------------------------------------------------------
JobsOf(r) == {j \in Jobs : jobRepo[j] = r}
Tree(r) == FilesIn[PathOf[r]]
FilesOf(r) == {Tree(r)[i] : i \in DOMAIN Tree(r)}
Owned(r) == {f \in Files : vstore[f] = r}
\* The job's place in the loop over filesToProcess, and the file there.
InLoop(j) == jobNext[j] \in DOMAIN Tree(jobRepo[j])
File(j) == Tree(jobRepo[j])[jobNext[j]]
Idle(c) == callPc[c] = "idle"
IsUpload(c) == callPc[c] \in {"unpack", "save"}
\* A remote or disk call fails: a connection error, a cancelled request
\* context, a full disk.
Faults(n) == faults + n <= MaxFaults /\ faults' = faults + n
Fault == Faults(1)
NoFault == Faults(0)

EndCall(c) ==
    /\ callPc' = [callPc EXCEPT ![c] = "idle"]
    /\ callRepo' = [callRepo EXCEPT ![c] = NoRepo]
    /\ overlapped' = overlapped \ {c}

StepCall(c, pc) ==
    /\ callPc' = [callPc EXCEPT ![c] = pc]
    /\ UNCHANGED callRepo

BeginCall(c, r, pc) ==
    /\ Idle(c)
    /\ callPc' = [callPc EXCEPT ![c] = pc]
    /\ callRepo' = [callRepo EXCEPT ![c] = r]

\* `go s.runIndexing(repo)`: the goroutine has its own 30-minute context.
Spawn(j, r) ==
    /\ jobPc[j] = "idle"
    /\ jobPc' = [jobPc EXCEPT ![j] = "mark"]
    /\ jobRepo' = [jobRepo EXCEPT ![j] = r]
    /\ jobNext' = [jobNext EXCEPT ![j] = 1]
    /\ expired' = expired \ {j}
    /\ full' = full \cup {j}

StepJob(j, pc) ==
    /\ jobPc' = [jobPc EXCEPT ![j] = pc]
    /\ UNCHANGED <<jobRepo, jobNext, expired>>

EndJob(j) ==
    /\ jobPc' = [jobPc EXCEPT ![j] = "idle"]
    /\ jobRepo' = [jobRepo EXCEPT ![j] = NoRepo]
    /\ jobNext' = [jobNext EXCEPT ![j] = 1]
    /\ expired' = expired \ {j}
    /\ full' = full \ {j}

Init ==
    /\ store = [r \in Repos |-> "absent"]
    /\ vstore = [f \in Files |-> NoRepo]
    /\ disk = (Paths \cup Files) \ UNION {Under[PathOf[r]] : r \in Managed}
    /\ callPc = [c \in Calls |-> "idle"]
    /\ callRepo = [c \in Calls |-> NoRepo]
    /\ jobPc = [j \in Jobs |-> "idle"]
    /\ jobRepo = [j \in Jobs |-> NoRepo]
    /\ jobNext = [j \in Jobs |-> 1]
    /\ expired = {}
    /\ issued = {}
    /\ faults = 0 /\ crashes = 0
    /\ stranded = {} /\ litter = {} /\ overlapped = {} /\ deleted = {}
    /\ settled = {} /\ excess = {} /\ full = {} /\ complete = {}

-----------------------------------------------------------------------------
(* Requests that bring a repository in.                                    *)

\* UploadRepository: MkdirAll(uploadDir/uuid), before the zip is unpacked.
UploadStart(c, r) ==
    /\ r \in Managed \ issued
    /\ BeginCall(c, r, "unpack")
    /\ issued' = issued \cup {r}
    /\ disk' = disk \cup {PathOf[r]}
    /\ UNCHANGED <<store, vstore, jobVars, budget, history>>

\* unzipFile succeeded; RepoService.Create is called.
Unpacked(c) ==
    /\ callPc[c] = "unpack"
    /\ disk' = disk \cup Under[PathOf[callRepo[c]]]
    /\ StepCall(c, "save")
    /\ UNCHANGED <<store, vstore, jobVars, issued, budget, history>>

\* CreateRepository: Create with a path that os.Stat finds, is_managed false.
CreateStart(c, r) ==
    /\ r \in Repos \ (Managed \cup issued)
    /\ PathOf[r] \in disk
    /\ BeginCall(c, r, "save")
    /\ issued' = issued \cup {r}
    /\ UNCHANGED <<store, vstore, disk, jobVars, budget, history>>

\* `_ = os.RemoveAll(targetDir)`, after n other failures.  Its own failure is
\* ignored, and leaves the directory with some of its contents.
RemoveUpload(r, n) ==
    LET inside == Under[PathOf[r]]
    IN  IF r \notin Managed
        THEN Faults(n) /\ UNCHANGED <<disk, litter>>
        ELSE \/ Faults(n) /\ disk' = disk \ inside /\ UNCHANGED litter
             \/ /\ Faults(n + 1)
                /\ litter' = litter \cup {r}
                /\ \E gone \in SUBSET (inside \ {PathOf[r]}) : disk' = disk \ gone

\* Mutant: an error path of UploadRepository forgets os.RemoveAll.
UploadFailsKeepsDir(c) ==
    /\ callPc[c] = "unpack"
    /\ EndCall(c)
    /\ UNCHANGED <<store, vstore, disk, jobVars, issued, budget, stranded,
                   litter, deleted, settled, excess, full, complete>>

\* The copy, the unzip or Create's validation fails.
UploadFails(c) ==
    /\ callPc[c] = "unpack"
    /\ RemoveUpload(callRepo[c], 0)
    /\ EndCall(c)
    /\ UNCHANGED <<store, vstore, jobVars, issued, crashes, stranded,
                   deleted, settled, excess, full, complete>>

\* Save stores the record, Create starts the job and returns.
CreateSaved(c, j) ==
    /\ callPc[c] = "save"
    /\ store' = [store EXCEPT ![callRepo[c]] = "pending"]
    /\ Spawn(j, callRepo[c])
    /\ EndCall(c)
    /\ UNCHANGED <<vstore, disk, issued, budget, stranded, litter,
                   deleted, settled, excess, complete>>

\* Mutant: the job is started before Save's error is looked at.
CreateFailsAfterSpawn(c) ==
    /\ callPc[c] = "save"
    /\ Fault
    /\ \E j \in Jobs : Spawn(j, callRepo[c])
    /\ EndCall(c)
    /\ UNCHANGED <<store, vstore, disk, issued, crashes, stranded, litter,
                   deleted, settled, excess, complete>>

\* Save returns an error: no job is started, and an upload's directory is
\* removed.  Weaviate may have stored the record all the same (lost answer).
CreateFails(c) ==
    /\ callPc[c] = "save"
    /\ \E applied \in BOOLEAN :
         IF applied
         THEN /\ store' = [store EXCEPT ![callRepo[c]] = "pending"]
              /\ stranded' = stranded \cup {callRepo[c]}
         ELSE UNCHANGED <<store, stranded>>
    /\ RemoveUpload(callRepo[c], 1)
    /\ EndCall(c)
    /\ UNCHANGED <<vstore, jobVars, issued, crashes, deleted, settled, excess,
                   full, complete>>

-----------------------------------------------------------------------------
(* Delete: index first, then files, then the record; the first two steps   *)
(* only log their errors.                                                  *)

\* FindByID returned the record.
DeleteStart(c, r) ==
    /\ store[r] # "absent"
    /\ BeginCall(c, r, "drop_index")
    /\ UNCHANGED <<store, vstore, disk, jobVars, issued, budget, history>>

\* What one batch delete removes of a repository's chunks: all of them, or as
\* many as the server's limit.
Removable(r) ==
    IF Cardinality(Owned(r)) <= MaxDelete THEN {Owned(r)}
    ELSE {gone \in SUBSET Owned(r) : Cardinality(gone) = MaxDelete}

Unstore(gone) ==
    vstore' = [f \in Files |-> IF f \in gone THEN NoRepo ELSE vstore[f]]

IndexDropped(c) ==
    /\ full' = full \ JobsOf(callRepo[c])
    /\ complete' = complete \ {callRepo[c]}
    /\ StepCall(c, "rm_files")
    /\ UNCHANGED <<store, disk, jobVars, issued, crashes, stranded, litter,
                   deleted, settled>>

\* Mutant: chunks are deleted by file path instead of repo_id.
DropIndexByPath(c) ==
    /\ callPc[c] = "drop_index"
    /\ Unstore(FilesOf(callRepo[c]))
    /\ NoFault
    /\ overlapped' = IF JobsOf(callRepo[c]) = {} THEN overlapped
                                                 ELSE overlapped \cup {c}
    /\ UNCHANGED excess
    /\ IndexDropped(c)

\* DeleteByRepoID: a batch delete by repo_id.
DropIndex(c) ==
    /\ callPc[c] = "drop_index"
    /\ \E gone \in Removable(callRepo[c]) : Unstore(gone)
    /\ NoFault
    /\ overlapped' = IF JobsOf(callRepo[c]) = {} THEN overlapped
                                                 ELSE overlapped \cup {c}
    /\ excess' = IF Cardinality(Owned(callRepo[c])) <= MaxDelete
                 THEN excess \ {callRepo[c]} ELSE excess \cup {callRepo[c]}
    /\ IndexDropped(c)

\* The batch delete fails, or fails for some of the objects, which only the
\* response would tell.  Some may be gone; Delete goes on in any case.
DropIndexFails(c) ==
    /\ callPc[c] = "drop_index"
    /\ \E all \in Removable(callRepo[c]) : \E gone \in SUBSET all : Unstore(gone)
    /\ Fault
    /\ overlapped' = overlapped \cup {c}
    /\ UNCHANGED excess
    /\ IndexDropped(c)

\* os.RemoveAll for a managed repository; its failure is only printed.
RmFiles(c) ==
    /\ callPc[c] = "rm_files"
    /\ RemoveUpload(callRepo[c], 0)
    /\ StepCall(c, "drop_record")
    /\ UNCHANGED <<store, vstore, jobVars, issued, crashes, stranded,
                   overlapped, deleted, settled, excess, full, complete>>

RecordDropped(c) ==
    /\ store' = [store EXCEPT ![callRepo[c]] = "absent"]
    /\ stranded' = stranded \ {callRepo[c]}
    /\ deleted' = deleted \cup {callRepo[c]}
    /\ settled' = IF c \in overlapped THEN settled
                                      ELSE settled \cup {callRepo[c]}

\* store.Delete; a record that is already gone is no error.
DropRecord(c) ==
    /\ callPc[c] = "drop_record"
    /\ RecordDropped(c)
    /\ EndCall(c)
    /\ UNCHANGED <<vstore, disk, jobVars, issued, budget, litter, excess, full,
                   complete>>

\* store.Delete fails, before or after Weaviate removed the record.  It says so
\* or not: an error's text that speaks of "not found" makes it answer nil.
DropRecordFails(c) ==
    /\ callPc[c] = "drop_record"
    /\ Fault
    /\ \/ RecordDropped(c)
       \/ UNCHANGED <<store, stranded, deleted, settled>>
    /\ EndCall(c)
    /\ UNCHANGED <<vstore, disk, jobVars, issued, crashes, litter, excess, full,
                   complete>>

\* Mutant: Reindex does not look the repository up.
ReindexUnseen(r, j) ==
    /\ r \in issued
    /\ Spawn(j, r)
    /\ overlapped' = overlapped \cup {c \in Calls : callRepo[c] = r}
    /\ UNCHANGED <<store, vstore, disk, callVars, issued, budget, stranded,
                   litter, deleted, settled, excess, complete>>

\* Reindex: FindByID, then `go s.runIndexing(repo)`.
Reindex(r, j) ==
    /\ store[r] # "absent"
    /\ Spawn(j, r)
    /\ overlapped' = overlapped \cup {c \in Calls : callRepo[c] = r}
    /\ UNCHANGED <<store, vstore, disk, callVars, issued, budget, stranded,
                   litter, deleted, settled, excess, complete>>

-----------------------------------------------------------------------------
(* runIndexing.  Save first tries to create the object and, when it is     *)
(* there already, replaces it: two requests, with room for others between. *)

MarkCreate(j) ==
    /\ jobPc[j] = "mark"
    /\ IF store[jobRepo[j]] = "absent"
       THEN /\ store' = [store EXCEPT ![jobRepo[j]] = "indexing"]
            /\ StepJob(j, "walk")
       ELSE UNCHANGED store /\ StepJob(j, "mark_update")
    /\ UNCHANGED <<vstore, disk, callVars, issued, budget, history>>

\* Replacing an object that is gone is an error, which runIndexing ignores.
MarkUpdate(j) ==
    /\ jobPc[j] = "mark_update"
    /\ store' = IF store[jobRepo[j]] = "absent" THEN store
                ELSE [store EXCEPT ![jobRepo[j]] = "indexing"]
    /\ StepJob(j, "walk")
    /\ UNCHANGED <<vstore, disk, callVars, issued, budget, history>>

\* `_ = s.store.Save(ctx, repo)`: a lost Save does not stop the job.
MarkFails(j) ==
    /\ jobPc[j] \in {"mark", "mark_update"}
    /\ Fault
    /\ StepJob(j, "walk")
    /\ UNCHANGED <<store, vstore, disk, callVars, issued, crashes, history>>

\* Mutant: the loop over the files starts at the second one.
WalkFromSecond(j) ==
    /\ jobPc[j] = "walk"
    /\ jobPc' = [jobPc EXCEPT ![j] = "files"]
    /\ jobNext' = [jobNext EXCEPT ![j] =
                     IF PathOf[jobRepo[j]] \in disk THEN 2
                     ELSE Len(Tree(jobRepo[j])) + 1]
    /\ full' = IF PathOf[jobRepo[j]] \in disk THEN full ELSE full \ {j}
    /\ UNCHANGED <<store, vstore, disk, callVars, jobRepo, expired, issued,
                   budget, stranded, litter, overlapped, deleted, settled,
                   excess,
                   complete>>

\* filepath.Walk collects the files; a missing directory has none.
Walk(j) ==
    /\ jobPc[j] = "walk"
    /\ jobPc' = [jobPc EXCEPT ![j] = "files"]
    /\ jobNext' = [jobNext EXCEPT ![j] =
                     IF PathOf[jobRepo[j]] \in disk THEN 1
                     ELSE Len(Tree(jobRepo[j])) + 1]
    /\ full' = IF PathOf[jobRepo[j]] \in disk THEN full ELSE full \ {j}
    /\ UNCHANGED <<store, vstore, disk, callVars, jobRepo, expired, issued,
                   budget, stranded, litter, overlapped, deleted, settled,
                   excess,
                   complete>>

\* processFile has read, parsed and embedded the file.
Embed(j) ==
    /\ jobPc[j] = "files" /\ InLoop(j)
    /\ File(j) \in disk
    /\ j \notin expired
    /\ StepJob(j, "upsert")
    /\ UNCHANGED <<store, vstore, disk, callVars, issued, budget, history>>

\* BatchUpsert stores the chunk under the hash of its path: whichever
\* repository owned that chunk before, it is this one's now.
Upsert(j) ==
    /\ jobPc[j] = "upsert"
    /\ j \notin expired
    /\ vstore' = [vstore EXCEPT ![File(j)] = jobRepo[j]]
    /\ jobPc' = [jobPc EXCEPT ![j] = "files"]
    /\ jobNext' = [jobNext EXCEPT ![j] = @ + 1]
    /\ UNCHANGED <<store, disk, callVars, jobRepo, expired, issued, budget,
                   history>>

\* Mutants: a failing file is tried again for ever; the loop has no end.
SkipFileRetries(j) ==
    /\ \/ jobPc[j] = "files" /\ InLoop(j)
       \/ jobPc[j] = "upsert"
    /\ jobPc' = [jobPc EXCEPT ![j] = "files"]
    /\ full' = full \ {j}
    /\ UNCHANGED <<store, vstore, disk, callVars, jobRepo, jobNext, expired,
                   issued, budget, stranded, litter, overlapped, deleted,
                   settled, excess, complete>>
SkipFileUnbounded(j) ==
    /\ jobPc[j] \in {"files", "upsert"}
    /\ jobPc' = [jobPc EXCEPT ![j] = "files"]
    /\ jobNext' = [jobNext EXCEPT ![j] = @ + 1]
    /\ full' = full \ {j}
    /\ UNCHANGED <<store, vstore, disk, callVars, jobRepo, expired, issued,
                   budget, stranded, litter, overlapped, deleted, settled,
                   excess,
                   complete>>

\* processFile fails (unreadable file, parser, embedder or batch error): the
\* error is logged and the loop goes on with the next file.  So does a file
\* that was not there to be walked, and a batch whose answer alone was lost.
SkipFile(j) ==
    /\ \/ jobPc[j] = "files" /\ InLoop(j) /\ UNCHANGED vstore
       \/ jobPc[j] = "upsert" /\ UNCHANGED vstore
       \/ jobPc[j] = "upsert" /\ vstore' = [vstore EXCEPT ![File(j)] = jobRepo[j]]
    /\ jobPc' = [jobPc EXCEPT ![j] = "files"]
    /\ jobNext' = [jobNext EXCEPT ![j] = @ + 1]
    /\ full' = full \ {j}
    /\ UNCHANGED <<store, disk, callVars, jobRepo, expired, issued,
                   budget, stranded, litter, overlapped, deleted, settled,
                   excess,
                   complete>>

\* Index returns nil whatever was skipped, so the status becomes ready.
IndexDone(j) ==
    /\ jobPc[j] = "files" /\ ~InLoop(j)
    /\ StepJob(j, "final")
    /\ UNCHANGED <<store, vstore, disk, callVars, issued, budget, history>>

FinalStored(j) ==
    /\ store' = [store EXCEPT ![jobRepo[j]] = "ready"]
    /\ stranded' = stranded \ {jobRepo[j]}
    /\ complete' = IF j \in full THEN complete \cup {jobRepo[j]} ELSE complete
    /\ EndJob(j)

FinalCreate(j) ==
    /\ jobPc[j] = "final"
    /\ j \notin expired
    /\ IF store[jobRepo[j]] = "absent"
       THEN FinalStored(j)
       ELSE /\ StepJob(j, "final_update")
            /\ UNCHANGED <<store, stranded, full, complete>>
    /\ UNCHANGED <<vstore, disk, callVars, issued, budget, litter, overlapped,
                   deleted, settled, excess>>

\* Mutant: Save takes a conflict for success and does not update.
FinalUpdateDropped(j) ==
    /\ jobPc[j] = "final_update"
    /\ j \notin expired
    /\ EndJob(j)
    /\ UNCHANGED <<store, vstore, disk, callVars, issued, budget, stranded,
                   litter, overlapped, deleted, settled, excess, complete>>

FinalUpdate(j) ==
    /\ jobPc[j] = "final_update"
    /\ j \notin expired
    /\ IF store[jobRepo[j]] = "absent"
       THEN EndJob(j) /\ UNCHANGED <<store, stranded, complete>>
       ELSE FinalStored(j)
    /\ UNCHANGED <<vstore, disk, callVars, issued, budget, litter, overlapped,
                   deleted, settled, excess>>

\* The last Save uses the job's context too: once that has expired, or when
\* the request fails, the outcome is lost and the error is ignored.
FinalFails(j) ==
    /\ jobPc[j] \in {"final", "final_update"}
    /\ \/ j \in expired /\ NoFault
       \/ j \notin expired /\ Fault
    /\ stranded' = IF store[jobRepo[j]] \in Unfinished
                   THEN stranded \cup {jobRepo[j]} ELSE stranded
    /\ EndJob(j)
    /\ UNCHANGED <<store, vstore, disk, callVars, issued, crashes, litter,
                   overlapped, deleted, settled, excess, complete>>

\* context.WithTimeout(context.Background(), 30*time.Minute) runs out.
Expire(j) ==
    /\ Deadline
    /\ jobPc[j] \in {"files", "upsert", "final", "final_update"}
    /\ j \notin expired
    /\ expired' = expired \cup {j}
    /\ UNCHANGED <<store, vstore, disk, callVars, jobPc, jobRepo, jobNext,
                   issued, budget, history>>

\* The process dies: requests and goroutines are gone, and nothing resumes
\* them when main starts again.
Crash ==
    /\ crashes < MaxCrashes
    /\ crashes' = crashes + 1
    /\ callPc' = [c \in Calls |-> "idle"]
    /\ callRepo' = [c \in Calls |-> NoRepo]
    /\ jobPc' = [j \in Jobs |-> "idle"]
    /\ jobRepo' = [j \in Jobs |-> NoRepo]
    /\ jobNext' = [j \in Jobs |-> 1]
    /\ expired' = {} /\ full' = {} /\ overlapped' = {}
    /\ stranded' = stranded \cup {r \in Repos : store[r] \in Unfinished}
    /\ litter' = litter \cup
                   {r \in Managed : \E c \in Calls : IsUpload(c) /\ callRepo[c] = r}
    /\ UNCHANGED <<store, vstore, disk, issued, faults, deleted,
                   settled, excess, complete>>

-----------------------------------------------------------------------------
CallStep(c) ==
    \/ Unpacked(c) \/ UploadFails(c) \/ CreateFails(c)
    \/ \E j \in Jobs : CreateSaved(c, j)
    \/ DropIndex(c) \/ DropIndexFails(c) \/ RmFiles(c)
    \/ DropRecord(c) \/ DropRecordFails(c)

JobStep(j) ==
    \/ MarkCreate(j) \/ MarkUpdate(j) \/ MarkFails(j)
    \/ Walk(j) \/ Embed(j) \/ Upsert(j) \/ SkipFile(j) \/ IndexDone(j)
    \/ FinalCreate(j) \/ FinalUpdate(j) \/ FinalFails(j)

Next ==
    \/ \E c \in Calls, r \in Repos :
         UploadStart(c, r) \/ CreateStart(c, r) \/ DeleteStart(c, r)
    \/ \E c \in Calls : CallStep(c)
    \/ \E r \in Repos, j \in Jobs : Reindex(r, j)
    \/ \E j \in Jobs : JobStep(j) \/ Expire(j)
    \/ Crash

Spec == Init /\ [][Next]_vars

\* The Go scheduler runs every goroutine, and each remote call of a job
\* answers, fails or is cut off by the job's context.
FairSpec == Spec /\ \A j \in Jobs : WF_vars(JobStep(j))

-----------------------------------------------------------------------------
(* Properties.                                                             *)

\* Type invariant.
TypeOK ==
    /\ store \in [Repos -> Status]
    /\ vstore \in [Files -> Repos \cup {NoRepo}]
    /\ disk \subseteq Paths \cup Files
    /\ callPc \in [Calls -> CallPC]
    /\ callRepo \in [Calls -> Repos \cup {NoRepo}]
    /\ jobPc \in [Jobs -> JobPC]
    /\ jobRepo \in [Jobs -> Repos \cup {NoRepo}]
    /\ jobNext \in [Jobs -> Nat \ {0}]
    /\ \A j \in Jobs : jobRepo[j] \in Repos =>
         jobNext[j] <= Len(Tree(jobRepo[j])) + 1
    /\ expired \subseteq Jobs
    /\ issued \subseteq Repos
    /\ faults \in 0..MaxFaults /\ crashes \in 0..MaxCrashes
    /\ stranded \subseteq Repos /\ litter \subseteq Repos
    /\ overlapped \subseteq Calls
    /\ deleted \subseteq Repos /\ settled \subseteq Repos
    /\ excess \subseteq Repos
    /\ full \subseteq Jobs /\ complete \subseteq Repos

\* A record says pending or indexing only while a goroutine is working on the
\* repository, except after one of the three known losses: a crash, a Create
\* whose Save answer was lost, a job whose last Save failed.
NoStuck ==
    \A r \in Repos :
        store[r] \in Unfinished => JobsOf(r) # {} \/ r \in stranded

\* A deletion that no indexing job overlapped and no error met is final:
\* neither the record nor a chunk of the repository ever comes back.  Chunks
\* are left only when there were more than one batch delete may remove.
SettledStaysGone ==
    \A r \in settled :
        /\ store[r] = "absent"
        /\ r \notin excess => Owned(r) = {}

\* An upload directory exists only while an upload is being served or a
\* record points to it, except for the ones a failed RemoveAll or a crash in
\* mid-upload left.  It holds because Delete removes the files before the
\* record and every error path of UploadRepository cleans up.
NoOrphanDirs ==
    \A r \in Managed :
        PathOf[r] \in disk =>
            \/ store[r] # "absent"
            \/ \E c \in Calls : IsUpload(c) /\ callRepo[c] = r
            \/ r \in litter

\* No other repository's walk comes to the file, by the same path.
Sole(r, f) == \A s \in Repos : f \in FilesOf(s) => s = r

\* When a job that skipped no file has recorded its outcome and the index was
\* not dropped since, the chunk of every file that is in no other repository's
\* directory is stored under that repository, whatever other jobs and deletions
\* did meanwhile.  A repository of a directory above, below or equal takes over
\* the chunks of the files it shares, and may take them away.
CompleteIndexed ==
    \A r \in complete : \A f \in FilesOf(r) : Sole(r, f) => vstore[f] = r

\* A stored chunk is given up only to a repository whose walk comes to the same
\* file (BatchUpsert under the same chunk id) or to the deletion of its own
\* repository (DeleteByRepoID): no other request or job removes or takes it.
ChunkHandover(f) ==
    vstore[f] \in Repos /\ vstore'[f] # vstore[f] =>
        \/ vstore'[f] \in Repos /\ f \in FilesOf(vstore'[f])
        \/ /\ vstore'[f] = NoRepo
           /\ \E c \in Calls :
                callPc[c] = "drop_index" /\ callRepo[c] = vstore[f]
ChunksKept == [][\A f \in Files : ChunkHandover(f)]_vars

\* Every repository that waits for indexing ends up ready or deleted, unless
\* its job was lost in one of the ways NoStuck names.
Settles ==
    \A r \in Repos :
        store[r] \in Unfinished ~>
            store[r] \in {"ready", "absent"} \/ r \in stranded

\* The requests, goroutines, files and chunks above implement the catalog of
\* repositories that clients see: which statuses a record can take, and which
\* step of which actor gives it each of them.
Working == {r \in Repos : JobsOf(r) # {}}
Known == {r \in issued : \A c \in Calls : IsUpload(c) => callRepo[c] # r}
Catalog == INSTANCE RepositoryCatalog WITH
    record <- store, working <- Working, known <- Known, lost <- stranded
ImplementsCatalog == Catalog!Spec

\* What the tests expect of a deletion: FindByID no longer finds the record
\* and a search in the repository finds no chunk.  The code does not keep it
\* when a job is running: its Save creates the record again and BatchUpsert
\* goes on storing chunks.
DeletedStaysDeleted ==
    \A r \in deleted :
        store[r] = "absent" /\ Owned(r) = {}

\* What the README's sequence diagram shows: when the loop over the files has
\* ended, the status becomes ready.  The code loses that write when the job's
\* 30 minutes are over, and the record stays in status indexing.
OutcomeIsRecorded == stranded = {}

=============================================================================
