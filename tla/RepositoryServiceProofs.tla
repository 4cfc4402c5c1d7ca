---------------------- MODULE RepositoryServiceProofs ----------------------
(***************************************************************************)
(* Proofs about RepositoryService, for any number of repositories,         *)
(* requests, goroutines and files, and any bound on faults and crashes.    *)
(***************************************************************************)
EXTENDS RepositoryService, TLAPS

USE PathAssumption, ManagedAssumption, OwnerAssumption, BoundAssumption
USE DEF Faults

\* What a walk of a repository's directory comes to.
LEMMA Walks ==
    ASSUME NEW r \in Repos
    PROVE  /\ Len(Tree(r)) \in Nat /\ DOMAIN Tree(r) = 1..Len(Tree(r))
           /\ \A i \in DOMAIN Tree(r) : Tree(r)[i] \in Files /\ Tree(r)[i] \in FilesOf(r)
           /\ \A f \in FilesOf(r) : \E i \in DOMAIN Tree(r) : f = Tree(r)[i]
           /\ FilesOf(r) \subseteq Files
BY FilesAssumption DEF Tree, FilesOf

\* A slot has a repository exactly when it is busy, and a job that is about to
\* store a chunk is at one of the files it collected.
Slots ==
    /\ \A c \in Calls : callPc[c] = "idle" <=> callRepo[c] = NoRepo
    /\ \A j \in Jobs : jobPc[j] = "idle" <=> jobRepo[j] = NoRepo
    /\ \A j \in Jobs : jobPc[j] = "upsert" => InLoop(j)

TypeInv == TypeOK /\ Slots

-----------------------------------------------------------------------------
(* What the steps do that touch the index.                                 *)

\* The chunk of a file that no other repository's walk comes to.
Stored(r, f) == Sole(r, f) => vstore[f] = r

LEMMA JobsFile ==
    ASSUME TypeInv, NEW j \in Jobs, jobRepo[j] \in Repos
    PROVE  /\ jobNext[j] \in Nat \ {0} /\ jobNext[j] <= Len(Tree(jobRepo[j])) + 1
           /\ InLoop(j) <=> jobNext[j] <= Len(Tree(jobRepo[j]))
           /\ InLoop(j) => File(j) \in Files /\ File(j) \in FilesOf(jobRepo[j])
BY Walks DEF TypeInv, TypeOK, InLoop, File

\* Two kinds of step touch the index: a batch delete and a batch upsert.
Stores(j) == jobPc[j] = "upsert" /\ vstore' = [vstore EXCEPT ![File(j)] = jobRepo[j]]
Drops(c) ==
    /\ callPc[c] = "drop_index"
    /\ \E all \in Removable(callRepo[c]) : \E gone \in SUBSET all : Unstore(gone)

\* A batch delete removes chunks of its repository only, and either all of
\* them or some of too many.
LEMMA Deletion ==
    ASSUME TypeInv, NEW r \in Repos, NEW all \in Removable(r), NEW gone \in SUBSET all,
           Unstore(gone)
    PROVE  /\ vstore' \in [Files -> Repos \cup {NoRepo}]
           /\ \A f \in Files : vstore'[f] # vstore[f] => vstore[f] = r /\ vstore'[f] = NoRepo
           /\ Cardinality(Owned(r)) <= MaxDelete /\ gone = all
                => \A f \in Files : vstore'[f] # r
BY DEF TypeInv, TypeOK, Removable, Unstore, Owned

\* A chunk passes to the job's repository, and only from those that have the
\* same file.
LEMMA Storing ==
    ASSUME TypeInv, NEW j \in Jobs, jobPc[j] = "upsert",
           vstore' = [vstore EXCEPT ![File(j)] = jobRepo[j]]
    PROVE  /\ jobRepo[j] \in Repos /\ File(j) \in Files /\ File(j) \in FilesOf(jobRepo[j])
           /\ vstore' \in [Files -> Repos \cup {NoRepo}]
           /\ \A f \in Files : vstore'[f] # vstore[f]
                                => f = File(j) /\ vstore'[f] = jobRepo[j]
           /\ \A s \in Repos, f \in Files : Stored(s, f) => Stored(s, f)'
           /\ vstore'[File(j)] = jobRepo[j]
<1>1. jobRepo[j] \in Repos /\ InLoop(j)
  BY DEF TypeInv, TypeOK, Slots
<1>2. File(j) \in Files /\ File(j) \in FilesOf(jobRepo[j])
  BY <1>1, JobsFile
<1>3. /\ vstore' \in [Files -> Repos \cup {NoRepo}]
      /\ \A f \in Files : vstore'[f] = IF f = File(j) THEN jobRepo[j] ELSE vstore[f]
  BY <1>1, <1>2 DEF TypeInv, TypeOK
<1>4. \A s \in Repos, f \in Files : Stored(s, f) => Stored(s, f)'
  BY <1>1, <1>2, <1>3 DEF Stored, Sole
<1>. QED
  BY <1>1, <1>2, <1>3, <1>4

-----------------------------------------------------------------------------
LEMMA TypeInit == Init => TypeInv
BY DEF Init, TypeInv, Slots, TypeOK, Status, CallPC, JobPC, InLoop

LEMMA TypeStep == TypeInv /\ [Next]_vars => TypeInv'
<1>. SUFFICES ASSUME TypeInv, [Next]_vars PROVE TypeInv'
  OBVIOUS
<1>. USE DEF TypeInv, Slots, TypeOK, Status, CallPC, JobPC, InLoop, Tree
<1>1. ASSUME NEW c \in Calls, NEW r \in Repos, UploadStart(c, r) PROVE TypeInv'
  BY <1>1, TypeInv
  DEF UploadStart, BeginCall, callVars, jobVars, budget, history, JobsOf
<1>2. ASSUME NEW c \in Calls, NEW r \in Repos, CreateStart(c, r) PROVE TypeInv'
  BY <1>2, TypeInv
  DEF CreateStart, BeginCall, callVars, jobVars, budget, history, JobsOf
<1>3. ASSUME NEW c \in Calls, NEW r \in Repos, DeleteStart(c, r) PROVE TypeInv'
  BY <1>3, TypeInv
  DEF DeleteStart, BeginCall, callVars, jobVars, budget, history, JobsOf
<1>4. ASSUME NEW c \in Calls, Unpacked(c) PROVE TypeInv'
  BY <1>4, TypeInv, UnderAssumption
  DEF Unpacked, StepCall, callVars, jobVars, budget, history, JobsOf
<1>5. ASSUME NEW c \in Calls, UploadFails(c) PROVE TypeInv'
  BY <1>5, TypeInv
  DEF UploadFails, RemoveUpload, EndCall, Fault, NoFault, callVars, jobVars,
      budget, history, JobsOf
<1>6. ASSUME NEW c \in Calls, CreateFails(c) PROVE TypeInv'
  <2>1. callRepo[c] \in Repos
    BY <1>6 DEF CreateFails
  <2>2. store' \in [Repos -> Status] /\ stranded' \subseteq Repos
    BY <1>6, <2>1 DEF CreateFails
  <2>3. disk' \subseteq Paths \cup Files /\ litter' \subseteq Repos /\ faults' \in 0..MaxFaults
    BY <1>6, <2>1 DEF CreateFails, RemoveUpload
  <2>. QED
    BY <1>6, <2>1, <2>2, <2>3 DEF CreateFails, EndCall, jobVars
<1>7. ASSUME NEW c \in Calls, NEW j \in Jobs, CreateSaved(c, j) PROVE TypeInv'
  BY <1>7, TypeInv
  DEF CreateSaved, Spawn, EndCall, callVars, jobVars, budget, history, JobsOf
<1>8. ASSUME NEW c \in Calls, DropIndex(c) PROVE TypeInv'
  BY <1>8, TypeInv
  DEF DropIndex, IndexDropped, Unstore, NoFault, StepCall, jobVars, JobsOf
<1>9. ASSUME NEW c \in Calls, DropIndexFails(c) PROVE TypeInv'
  BY <1>9, TypeInv
  DEF DropIndexFails, IndexDropped, Unstore, StepCall, Fault, callVars, jobVars, budget, history,
      JobsOf
<1>10. ASSUME NEW c \in Calls, RmFiles(c) PROVE TypeInv'
  BY <1>10, TypeInv
  DEF RmFiles, RemoveUpload, StepCall, Fault, NoFault, callVars, jobVars,
      budget, history, JobsOf
<1>11. ASSUME NEW c \in Calls, DropRecord(c) PROVE TypeInv'
  BY <1>11, TypeInv
  DEF DropRecord, RecordDropped, EndCall, callVars, jobVars, budget, history,
      JobsOf
<1>12. ASSUME NEW c \in Calls, DropRecordFails(c) PROVE TypeInv'
  BY <1>12, TypeInv
  DEF DropRecordFails, RecordDropped, EndCall, Fault, callVars, jobVars,
      budget, history, JobsOf
<1>13. ASSUME NEW r \in Repos, NEW j \in Jobs, Reindex(r, j) PROVE TypeInv'
  BY <1>13, TypeInv
  DEF Reindex, Spawn, callVars, jobVars, budget, history, JobsOf
<1>14. ASSUME NEW j \in Jobs, MarkCreate(j) PROVE TypeInv'
  <2>1. CASE store[jobRepo[j]] = "absent"
    <3>1. store' = [store EXCEPT ![jobRepo[j]] = "indexing"] /\ StepJob(j, "walk")
      BY <1>14, <2>1 DEF MarkCreate
    <3>2. store' \in [Repos -> Status]
      BY <3>1
    <3>. QED
      BY <1>14, <3>1, <3>2 DEF MarkCreate, StepJob, callVars, budget, history
  <2>2. CASE store[jobRepo[j]] # "absent"
    BY ZenonT(60), <1>14, <2>2 DEF MarkCreate, StepJob, callVars, budget, history
  <2>. QED
    BY <2>1, <2>2
<1>15. ASSUME NEW j \in Jobs, MarkUpdate(j) PROVE TypeInv'
  BY <1>15, TypeInv
  DEF MarkUpdate, StepJob, callVars, jobVars, budget, history, JobsOf
<1>16. ASSUME NEW j \in Jobs, MarkFails(j) PROVE TypeInv'
  BY <1>16, TypeInv
  DEF MarkFails, StepJob, Fault, callVars, jobVars, budget, history, JobsOf
<1>17. ASSUME NEW j \in Jobs, Walk(j) PROVE TypeInv'
  BY <1>17, TypeInv
  DEF Walk, callVars, jobVars, budget, history, JobsOf
<1>18. ASSUME NEW j \in Jobs, Embed(j) PROVE TypeInv'
  BY <1>18, TypeInv
  DEF Embed, StepJob, callVars, jobVars, budget, history, JobsOf
<1>19. ASSUME NEW j \in Jobs, Upsert(j) PROVE TypeInv'
  <2>1. vstore' \in [Files -> Repos \cup {NoRepo}]
    BY <1>19, Storing DEF Upsert
  <2>2. jobRepo[j] \in Repos /\ InLoop(j)
    BY <1>19 DEF Upsert
  <2>3. jobNext[j] + 1 \in Nat \ {0} /\ jobNext[j] + 1 <= Len(Tree(jobRepo[j])) + 1
    BY <2>2, Walks, JobsFile
  <2>. QED
    BY <1>19, <2>1, <2>2, <2>3 DEF Upsert, callVars, budget, history
<1>20. ASSUME NEW j \in Jobs, SkipFile(j) PROVE TypeInv'
  <2>1. vstore' \in [Files -> Repos \cup {NoRepo}]
    BY <1>20, Storing DEF SkipFile
  <2>2. jobRepo[j] \in Repos /\ InLoop(j)
    BY <1>20 DEF SkipFile
  <2>3. jobNext[j] + 1 \in Nat \ {0} /\ jobNext[j] + 1 <= Len(Tree(jobRepo[j])) + 1
    BY <2>2, Walks, JobsFile
  <2>. QED
    BY <1>20, <2>1, <2>2, <2>3 DEF SkipFile, callVars, budget
<1>21. ASSUME NEW j \in Jobs, IndexDone(j) PROVE TypeInv'
  BY <1>21, TypeInv
  DEF IndexDone, StepJob, callVars, jobVars, budget, history, JobsOf
<1>22. ASSUME NEW j \in Jobs, FinalCreate(j) PROVE TypeInv'
  <2>1. jobRepo[j] \in Repos
    BY <1>22 DEF FinalCreate
  <2>2. CASE store[jobRepo[j]] = "absent"
    <3>1. FinalStored(j)
      BY <1>22, <2>2 DEF FinalCreate
    <3>2. /\ store' \in [Repos -> Status] /\ stranded' \subseteq Repos
          /\ complete' \subseteq Repos
      BY <2>1, <3>1 DEF FinalStored
    <3>. QED
      BY <1>22, <3>1, <3>2 DEF FinalCreate, FinalStored, EndJob, callVars, budget
  <2>3. CASE store[jobRepo[j]] # "absent"
    BY ZenonT(60), <1>22, <2>1, <2>3 DEF FinalCreate, StepJob, callVars, budget
  <2>. QED
    BY <2>2, <2>3
<1>23. ASSUME NEW j \in Jobs, FinalUpdate(j) PROVE TypeInv'
  <2>1. jobRepo[j] \in Repos
    BY <1>23 DEF FinalUpdate
  <2>2. CASE store[jobRepo[j]] = "absent"
    <3>1. EndJob(j) /\ UNCHANGED <<store, stranded, complete>>
      BY <1>23, <2>2 DEF FinalUpdate
    <3>. QED
      BY <1>23, <3>1 DEF FinalUpdate, EndJob, callVars, budget
  <2>3. CASE store[jobRepo[j]] # "absent"
    <3>1. FinalStored(j)
      BY <1>23, <2>3 DEF FinalUpdate
    <3>2. /\ store' \in [Repos -> Status] /\ stranded' \subseteq Repos
          /\ complete' \subseteq Repos
      BY <2>1, <3>1 DEF FinalStored
    <3>. QED
      BY <1>23, <3>1, <3>2 DEF FinalUpdate, FinalStored, EndJob, callVars, budget
  <2>. QED
    BY <2>2, <2>3
<1>24. ASSUME NEW j \in Jobs, FinalFails(j) PROVE TypeInv'
  BY <1>24, TypeInv
  DEF FinalFails, EndJob, Fault, NoFault, callVars, jobVars, budget, history,
      JobsOf
<1>25. ASSUME NEW j \in Jobs, Expire(j) PROVE TypeInv'
  BY <1>25, TypeInv
  DEF Expire, callVars, jobVars, budget, history, JobsOf
<1>26. ASSUME Crash PROVE TypeInv'
  BY <1>26, TypeInv
  DEF Crash, callVars, jobVars, budget, history, JobsOf
<1>27. CASE UNCHANGED vars
  BY <1>27, TypeInv
  DEF vars, callVars, jobVars, budget, history, JobsOf
<1>. QED
  BY <1>1, <1>2, <1>3, <1>4, <1>5, <1>6, <1>7, <1>8, <1>9, <1>10, <1>11,
      <1>12, <1>13, <1>14, <1>15, <1>16, <1>17, <1>18, <1>19, <1>20, <1>21,
      <1>22, <1>23, <1>24, <1>25, <1>26, <1>27 DEF Next, CallStep, JobStep

-----------------------------------------------------------------------------
(* The inductive invariants.                                               *)

\* A repository that is not registered yet is touched by nobody, except by
\* the one request that uploads or creates it.
Untouched(r) ==
    /\ store[r] = "absent"
    /\ \A j \in Jobs : jobRepo[j] # r
    /\ r \notin settled /\ r \notin complete
    /\ \A f \in Files : vstore[f] # r
Fresh ==
    /\ \A r \in Repos \ issued :
         Untouched(r) /\ \A c \in Calls : callRepo[c] # r
    /\ \A c \in Calls : IsUpload(c) =>
         /\ Untouched(callRepo[c])
         /\ callRepo[c] \in issued
         /\ \A d \in Calls : callRepo[d] = callRepo[c] => d = c

\* Nobody can bring a repository back, and nothing is left of it but what
\* exceeded the server's limit.
Gone(r) ==
    /\ \A j \in Jobs : jobRepo[j] # r
    /\ r \notin excess => \A f \in Files : vstore[f] # r
SettledInv ==
    /\ \A r \in settled : store[r] = "absent" /\ Gone(r)
    /\ \A c \in Calls :
         callPc[c] \in {"rm_files", "drop_record"} /\ c \notin overlapped
           => Gone(callRepo[c])

\* The files of a repository are gone before its record is.
DirsInv ==
    /\ NoOrphanDirs
    /\ \A c \in Calls : callPc[c] = "unpack" => callRepo[c] \in Managed
    /\ \A c \in Calls :
         callPc[c] = "drop_record" /\ callRepo[c] \in Managed
           => PathOf[callRepo[c]] \notin disk \/ callRepo[c] \in litter

\* What a job that skipped nothing has stored so far is still there.
FullSoFar(j) ==
    /\ jobPc[j] \in {"files", "upsert"} =>
         \A i \in DOMAIN Tree(jobRepo[j]) :
           i < jobNext[j] => Stored(jobRepo[j], Tree(jobRepo[j])[i])
    /\ jobPc[j] \in {"final", "final_update"} =>
         \A f \in FilesOf(jobRepo[j]) : Stored(jobRepo[j], f)
FullInv ==
    /\ CompleteIndexed
    /\ \A j \in full : jobRepo[j] \in Repos => FullSoFar(j)

-----------------------------------------------------------------------------
LEMMA StuckStep == TypeInv /\ NoStuck /\ [Next]_vars => NoStuck'
<1>. SUFFICES ASSUME TypeInv, NoStuck, [Next]_vars PROVE NoStuck'
  OBVIOUS
<1>. USE DEF TypeInv, Slots, TypeOK, NoStuck, JobsOf, Unfinished
<1>1. ASSUME NEW c \in Calls, NEW r \in Repos, UploadStart(c, r) PROVE NoStuck'
  BY <1>1, TypeInv, NoStuck
  DEF UploadStart, BeginCall, callVars, jobVars, budget, history
<1>2. ASSUME NEW c \in Calls, NEW r \in Repos, CreateStart(c, r) PROVE NoStuck'
  BY <1>2, TypeInv, NoStuck
  DEF CreateStart, BeginCall, callVars, jobVars, budget, history
<1>3. ASSUME NEW c \in Calls, NEW r \in Repos, DeleteStart(c, r) PROVE NoStuck'
  BY <1>3, TypeInv, NoStuck
  DEF DeleteStart, BeginCall, callVars, jobVars, budget, history
<1>4. ASSUME NEW c \in Calls, Unpacked(c) PROVE NoStuck'
  BY <1>4, TypeInv, NoStuck
  DEF Unpacked, StepCall, callVars, jobVars, budget, history
<1>5. ASSUME NEW c \in Calls, UploadFails(c) PROVE NoStuck'
  BY <1>5, TypeInv, NoStuck
  DEF UploadFails, RemoveUpload, EndCall, Fault, NoFault, callVars, jobVars,
      budget, history
<1>6. ASSUME NEW c \in Calls, CreateFails(c) PROVE NoStuck'
  BY <1>6, TypeInv, NoStuck
  DEF CreateFails, RemoveUpload, EndCall, Fault, callVars, jobVars, budget, history
<1>7. ASSUME NEW c \in Calls, NEW j \in Jobs, CreateSaved(c, j) PROVE NoStuck'
  BY <1>7, TypeInv, NoStuck
  DEF CreateSaved, Spawn, EndCall, callVars, jobVars, budget, history
<1>8. ASSUME NEW c \in Calls, DropIndex(c) PROVE NoStuck'
  BY <1>8, TypeInv, NoStuck
  DEF DropIndex, IndexDropped, Unstore, NoFault, StepCall, callVars, jobVars, budget, history
<1>9. ASSUME NEW c \in Calls, DropIndexFails(c) PROVE NoStuck'
  BY <1>9, TypeInv, NoStuck
  DEF DropIndexFails, IndexDropped, Unstore, StepCall, Fault, callVars, jobVars, budget, history
<1>10. ASSUME NEW c \in Calls, RmFiles(c) PROVE NoStuck'
  BY <1>10, TypeInv, NoStuck
  DEF RmFiles, RemoveUpload, StepCall, Fault, NoFault, callVars, jobVars,
      budget, history
<1>11. ASSUME NEW c \in Calls, DropRecord(c) PROVE NoStuck'
  BY <1>11, TypeInv, NoStuck
  DEF DropRecord, RecordDropped, EndCall, callVars, jobVars, budget, history
<1>12. ASSUME NEW c \in Calls, DropRecordFails(c) PROVE NoStuck'
  BY <1>12, TypeInv, NoStuck
  DEF DropRecordFails, RecordDropped, EndCall, Fault, callVars, jobVars,
      budget, history
<1>13. ASSUME NEW r \in Repos, NEW j \in Jobs, Reindex(r, j) PROVE NoStuck'
  BY <1>13, TypeInv, NoStuck
  DEF Reindex, Spawn, callVars, jobVars, budget, history
<1>14. ASSUME NEW j \in Jobs, MarkCreate(j) PROVE NoStuck'
  BY <1>14, TypeInv, NoStuck
  DEF MarkCreate, StepJob, callVars, jobVars, budget, history
<1>15. ASSUME NEW j \in Jobs, MarkUpdate(j) PROVE NoStuck'
  BY <1>15, TypeInv, NoStuck
  DEF MarkUpdate, StepJob, callVars, jobVars, budget, history
<1>16. ASSUME NEW j \in Jobs, MarkFails(j) PROVE NoStuck'
  BY <1>16, TypeInv, NoStuck
  DEF MarkFails, StepJob, Fault, callVars, jobVars, budget, history
<1>17. ASSUME NEW j \in Jobs, Walk(j) PROVE NoStuck'
  BY <1>17, TypeInv, NoStuck
  DEF Walk, callVars, jobVars, budget, history
<1>18. ASSUME NEW j \in Jobs, Embed(j) PROVE NoStuck'
  BY <1>18, TypeInv, NoStuck
  DEF Embed, StepJob, callVars, jobVars, budget, history
<1>19. ASSUME NEW j \in Jobs, Upsert(j) PROVE NoStuck'
  BY <1>19, TypeInv, NoStuck
  DEF Upsert, callVars, jobVars, budget, history
<1>20. ASSUME NEW j \in Jobs, SkipFile(j) PROVE NoStuck'
  BY <1>20, TypeInv, NoStuck
  DEF SkipFile, callVars, jobVars, budget, history
<1>21. ASSUME NEW j \in Jobs, IndexDone(j) PROVE NoStuck'
  BY <1>21, TypeInv, NoStuck
  DEF IndexDone, StepJob, callVars, jobVars, budget, history
<1>22. ASSUME NEW j \in Jobs, FinalCreate(j) PROVE NoStuck'
  BY <1>22, TypeInv, NoStuck
  DEF FinalCreate, StepJob, FinalStored, EndJob, callVars, jobVars, budget,
      history
<1>23. ASSUME NEW j \in Jobs, FinalUpdate(j) PROVE NoStuck'
  BY <1>23, TypeInv, NoStuck
  DEF FinalUpdate, FinalStored, EndJob, callVars, jobVars, budget, history
<1>24. ASSUME NEW j \in Jobs, FinalFails(j) PROVE NoStuck'
  BY <1>24, TypeInv, NoStuck
  DEF FinalFails, EndJob, Fault, NoFault, callVars, jobVars, budget, history
<1>25. ASSUME NEW j \in Jobs, Expire(j) PROVE NoStuck'
  BY <1>25, TypeInv, NoStuck
  DEF Expire, callVars, jobVars, budget, history
<1>26. ASSUME Crash PROVE NoStuck'
  BY <1>26, TypeInv, NoStuck
  DEF Crash, callVars, jobVars, budget, history
<1>27. CASE UNCHANGED vars
  BY <1>27, TypeInv, NoStuck
  DEF vars, callVars, jobVars, budget, history
<1>. QED
  BY <1>1, <1>2, <1>3, <1>4, <1>5, <1>6, <1>7, <1>8, <1>9, <1>10, <1>11,
      <1>12, <1>13, <1>14, <1>15, <1>16, <1>17, <1>18, <1>19, <1>20, <1>21,
      <1>22, <1>23, <1>24, <1>25, <1>26, <1>27 DEF Next, CallStep, JobStep

LEMMA FreshStep == TypeInv /\ Fresh /\ [Next]_vars => Fresh'
<1>. SUFFICES ASSUME TypeInv, Fresh, [Next]_vars PROVE Fresh'
  OBVIOUS
<1>. USE DEF TypeInv, Slots, TypeOK, Fresh, Untouched, IsUpload
<1>1. ASSUME NEW c \in Calls, NEW r \in Repos, UploadStart(c, r) PROVE Fresh'
  BY <1>1, TypeInv, Fresh
  DEF UploadStart, BeginCall, callVars, jobVars, budget, history, Idle
<1>2. ASSUME NEW c \in Calls, NEW r \in Repos, CreateStart(c, r) PROVE Fresh'
  BY <1>2, TypeInv, Fresh
  DEF CreateStart, BeginCall, callVars, jobVars, budget, history, Idle
<1>3. ASSUME NEW c \in Calls, NEW r \in Repos, DeleteStart(c, r) PROVE Fresh'
  BY <1>3, TypeInv, Fresh
  DEF DeleteStart, BeginCall, callVars, jobVars, budget, history, Idle
<1>4. ASSUME NEW c \in Calls, Unpacked(c) PROVE Fresh'
  BY <1>4, TypeInv, Fresh
  DEF Unpacked, StepCall, callVars, jobVars, budget, history, Idle
<1>5. ASSUME NEW c \in Calls, UploadFails(c) PROVE Fresh'
  BY <1>5, TypeInv, Fresh
  DEF UploadFails, RemoveUpload, EndCall, Fault, NoFault, callVars, jobVars,
      budget, history, Idle
<1>6. ASSUME NEW c \in Calls, CreateFails(c) PROVE Fresh'
  BY <1>6, TypeInv, Fresh
  DEF CreateFails, RemoveUpload, EndCall, Fault, callVars, jobVars, budget, history, Idle
<1>7. ASSUME NEW c \in Calls, NEW j \in Jobs, CreateSaved(c, j) PROVE Fresh'
  BY <1>7, TypeInv, Fresh
  DEF CreateSaved, Spawn, EndCall, callVars, jobVars, budget, history, Idle
<1>8. ASSUME NEW c \in Calls, DropIndex(c) PROVE Fresh'
  BY <1>8, TypeInv, Fresh
  DEF DropIndex, IndexDropped, Unstore, NoFault, StepCall, callVars, jobVars, budget, history, Idle
<1>9. ASSUME NEW c \in Calls, DropIndexFails(c) PROVE Fresh'
  BY <1>9, TypeInv, Fresh
  DEF DropIndexFails, IndexDropped, Unstore, StepCall, Fault, callVars, jobVars, budget, history,
      Idle
<1>10. ASSUME NEW c \in Calls, RmFiles(c) PROVE Fresh'
  BY <1>10, TypeInv, Fresh
  DEF RmFiles, RemoveUpload, StepCall, Fault, NoFault, callVars, jobVars,
      budget, history, Idle
<1>11. ASSUME NEW c \in Calls, DropRecord(c) PROVE Fresh'
  BY <1>11, TypeInv, Fresh
  DEF DropRecord, RecordDropped, EndCall, callVars, jobVars, budget, history,
      Idle
<1>12. ASSUME NEW c \in Calls, DropRecordFails(c) PROVE Fresh'
  BY <1>12, TypeInv, Fresh
  DEF DropRecordFails, RecordDropped, EndCall, Fault, callVars, jobVars,
      budget, history, Idle
<1>13. ASSUME NEW r \in Repos, NEW j \in Jobs, Reindex(r, j) PROVE Fresh'
  BY <1>13, TypeInv, Fresh
  DEF Reindex, Spawn, callVars, jobVars, budget, history, Idle
<1>14. ASSUME NEW j \in Jobs, MarkCreate(j) PROVE Fresh'
  BY <1>14, TypeInv, Fresh
  DEF MarkCreate, StepJob, callVars, jobVars, budget, history, Idle
<1>15. ASSUME NEW j \in Jobs, MarkUpdate(j) PROVE Fresh'
  BY <1>15, TypeInv, Fresh
  DEF MarkUpdate, StepJob, callVars, jobVars, budget, history, Idle
<1>16. ASSUME NEW j \in Jobs, MarkFails(j) PROVE Fresh'
  BY <1>16, TypeInv, Fresh
  DEF MarkFails, StepJob, Fault, callVars, jobVars, budget, history, Idle
<1>17. ASSUME NEW j \in Jobs, Walk(j) PROVE Fresh'
  BY <1>17, TypeInv, Fresh
  DEF Walk, callVars, jobVars, budget, history, Idle
<1>18. ASSUME NEW j \in Jobs, Embed(j) PROVE Fresh'
  BY <1>18, TypeInv, Fresh
  DEF Embed, StepJob, callVars, jobVars, budget, history, Idle
<1>19. ASSUME NEW j \in Jobs, Upsert(j) PROVE Fresh'
  BY <1>19, TypeInv, Fresh
  DEF Upsert, callVars, jobVars, budget, history, Idle
<1>20. ASSUME NEW j \in Jobs, SkipFile(j) PROVE Fresh'
  BY <1>20, TypeInv, Fresh
  DEF SkipFile, callVars, jobVars, budget, history, Idle
<1>21. ASSUME NEW j \in Jobs, IndexDone(j) PROVE Fresh'
  BY <1>21, TypeInv, Fresh
  DEF IndexDone, StepJob, callVars, jobVars, budget, history, Idle
<1>22. ASSUME NEW j \in Jobs, FinalCreate(j) PROVE Fresh'
  BY <1>22, TypeInv, Fresh
  DEF FinalCreate, StepJob, FinalStored, EndJob, callVars, jobVars, budget,
      history, Idle
<1>23. ASSUME NEW j \in Jobs, FinalUpdate(j) PROVE Fresh'
  BY <1>23, TypeInv, Fresh
  DEF FinalUpdate, FinalStored, EndJob, callVars, jobVars, budget, history,
      Idle
<1>24. ASSUME NEW j \in Jobs, FinalFails(j) PROVE Fresh'
  BY <1>24, TypeInv, Fresh
  DEF FinalFails, EndJob, Fault, NoFault, callVars, jobVars, budget, history,
      Idle
<1>25. ASSUME NEW j \in Jobs, Expire(j) PROVE Fresh'
  BY <1>25, TypeInv, Fresh
  DEF Expire, callVars, jobVars, budget, history, Idle
<1>26. ASSUME Crash PROVE Fresh'
  BY <1>26, TypeInv, Fresh
  DEF Crash, callVars, jobVars, budget, history, Idle
<1>27. CASE UNCHANGED vars
  BY <1>27, TypeInv, Fresh
  DEF vars, callVars, jobVars, budget, history, Idle
<1>. QED
  BY <1>1, <1>2, <1>3, <1>4, <1>5, <1>6, <1>7, <1>8, <1>9, <1>10, <1>11,
      <1>12, <1>13, <1>14, <1>15, <1>16, <1>17, <1>18, <1>19, <1>20, <1>21,
      <1>22, <1>23, <1>24, <1>25, <1>26, <1>27 DEF Next, CallStep, JobStep

LEMMA SettledStep == TypeInv /\ Fresh /\ SettledInv /\ [Next]_vars => SettledInv'
<1>. SUFFICES ASSUME TypeInv, Fresh, SettledInv, [Next]_vars PROVE SettledInv'
  OBVIOUS
<1>. USE DEF TypeInv, Slots, TypeOK, SettledInv, Gone, Fresh,
             Untouched, IsUpload, JobsOf
<1>1. ASSUME NEW c \in Calls, NEW r \in Repos, UploadStart(c, r) PROVE SettledInv'
  BY <1>1, TypeInv, Fresh, SettledInv
  DEF UploadStart, BeginCall, callVars, jobVars, budget, history, Idle
<1>2. ASSUME NEW c \in Calls, NEW r \in Repos, CreateStart(c, r) PROVE SettledInv'
  BY <1>2, TypeInv, Fresh, SettledInv
  DEF CreateStart, BeginCall, callVars, jobVars, budget, history, Idle
<1>3. ASSUME NEW c \in Calls, NEW r \in Repos, DeleteStart(c, r) PROVE SettledInv'
  BY <1>3, TypeInv, Fresh, SettledInv
  DEF DeleteStart, BeginCall, callVars, jobVars, budget, history, Idle
<1>4. ASSUME NEW c \in Calls, Unpacked(c) PROVE SettledInv'
  BY <1>4, TypeInv, Fresh, SettledInv
  DEF Unpacked, StepCall, callVars, jobVars, budget, history, Idle
<1>5. ASSUME NEW c \in Calls, UploadFails(c) PROVE SettledInv'
  BY <1>5, TypeInv, Fresh, SettledInv
  DEF UploadFails, RemoveUpload, EndCall, Fault, NoFault, callVars, jobVars,
      budget, history, Idle
<1>6. ASSUME NEW c \in Calls, CreateFails(c) PROVE SettledInv'
  BY <1>6, TypeInv, Fresh, SettledInv
  DEF CreateFails, RemoveUpload, EndCall, Fault, callVars, jobVars, budget, history, Idle
<1>7. ASSUME NEW c \in Calls, NEW j \in Jobs, CreateSaved(c, j) PROVE SettledInv'
  BY <1>7, TypeInv, Fresh, SettledInv
  DEF CreateSaved, Spawn, EndCall, callVars, jobVars, budget, history, Idle
<1>8. ASSUME NEW c \in Calls, DropIndex(c) PROVE SettledInv'
  <2>1. PICK q \in Repos : q = callRepo[c]
    BY <1>8 DEF DropIndex
  <2>2. PICK gone \in Removable(q) : Unstore(gone)
    BY <1>8, <2>1 DEF DropIndex
  <2>3. \A f \in Files : vstore'[f] # vstore[f] => vstore'[f] = NoRepo
    BY <2>2, Deletion
  <2>4. /\ callPc' = [callPc EXCEPT ![c] = "rm_files"] /\ callRepo' = callRepo
        /\ UNCHANGED <<store, settled, jobRepo>>
        /\ overlapped \subseteq overlapped'
        /\ \A r \in Repos : r # q => (r \in excess' <=> r \in excess)
    BY <1>8, <2>1 DEF DropIndex, IndexDropped, StepCall, jobVars
  <2>5. q \notin excess' => \A f \in Files : vstore'[f] # q
    <3>1. ASSUME q \notin excess' PROVE Cardinality(Owned(q)) <= MaxDelete /\ gone = Owned(q)
      BY <1>8, <2>1, <2>2, <3>1 DEF DropIndex, Removable
    <3>. QED
      BY <2>2, <3>1, Deletion
  <2>6. \A r \in Repos : Gone(r) => Gone(r)'
    BY <2>3, <2>4, <2>5
  <2>7. c \notin overlapped' => Gone(q)'
    <3>1. c \notin overlapped' => \A j \in Jobs : jobRepo[j] # q
      BY <1>8, <2>1 DEF DropIndex
    <3>. QED
      BY <2>4, <2>5, <3>1
  <2>8. ASSUME NEW d \in Calls, callPc'[d] \in {"rm_files", "drop_record"}, d \notin overlapped'
        PROVE  Gone(callRepo[d])'
    <3>1. CASE d = c
      BY <2>1, <2>4, <2>7, <2>8, <3>1
    <3>2. CASE d # c
      <4>1. PICK r \in Repos : r = callRepo[d]
        BY <2>4, <2>8, <3>2
      <4>2. Gone(r)
        BY <2>4, <2>8, <3>2, <4>1
      <4>. QED
        BY <2>4, <2>6, <4>1, <4>2
    <3>. QED
      BY <3>1, <3>2
  <2>9. \A r \in settled' : store'[r] = "absent" /\ Gone(r)'
    BY <2>4, <2>6
  <2>. QED
    BY <2>8, <2>9
<1>9. ASSUME NEW c \in Calls, DropIndexFails(c) PROVE SettledInv'
  BY <1>9, TypeInv, Fresh, SettledInv
  DEF DropIndexFails, IndexDropped, Unstore, StepCall, Fault, callVars, jobVars, budget, history,
      Idle
<1>10. ASSUME NEW c \in Calls, RmFiles(c) PROVE SettledInv'
  BY <1>10, TypeInv, Fresh, SettledInv
  DEF RmFiles, RemoveUpload, StepCall, Fault, NoFault, callVars, jobVars,
      budget, history, Idle
<1>11. ASSUME NEW c \in Calls, DropRecord(c) PROVE SettledInv'
  BY <1>11, TypeInv, Fresh, SettledInv
  DEF DropRecord, RecordDropped, EndCall, callVars, jobVars, budget, history,
      Idle
<1>12. ASSUME NEW c \in Calls, DropRecordFails(c) PROVE SettledInv'
  BY <1>12, TypeInv, Fresh, SettledInv
  DEF DropRecordFails, RecordDropped, EndCall, Fault, callVars, jobVars,
      budget, history, Idle
<1>13. ASSUME NEW r \in Repos, NEW j \in Jobs, Reindex(r, j) PROVE SettledInv'
  BY <1>13, TypeInv, Fresh, SettledInv
  DEF Reindex, Spawn, callVars, jobVars, budget, history, Idle
<1>14. ASSUME NEW j \in Jobs, MarkCreate(j) PROVE SettledInv'
  BY <1>14, TypeInv, Fresh, SettledInv
  DEF MarkCreate, StepJob, callVars, jobVars, budget, history, Idle
<1>15. ASSUME NEW j \in Jobs, MarkUpdate(j) PROVE SettledInv'
  BY <1>15, TypeInv, Fresh, SettledInv
  DEF MarkUpdate, StepJob, callVars, jobVars, budget, history, Idle
<1>16. ASSUME NEW j \in Jobs, MarkFails(j) PROVE SettledInv'
  BY <1>16, TypeInv, Fresh, SettledInv
  DEF MarkFails, StepJob, Fault, callVars, jobVars, budget, history, Idle
<1>17. ASSUME NEW j \in Jobs, Walk(j) PROVE SettledInv'
  BY <1>17, TypeInv, Fresh, SettledInv
  DEF Walk, callVars, jobVars, budget, history, Idle
<1>18. ASSUME NEW j \in Jobs, Embed(j) PROVE SettledInv'
  BY <1>18, TypeInv, Fresh, SettledInv
  DEF Embed, StepJob, callVars, jobVars, budget, history, Idle
<1>19. ASSUME NEW j \in Jobs, Upsert(j) PROVE SettledInv'
  BY <1>19, TypeInv, Fresh, SettledInv
  DEF Upsert, callVars, jobVars, budget, history, Idle
<1>20. ASSUME NEW j \in Jobs, SkipFile(j) PROVE SettledInv'
  BY <1>20, TypeInv, Fresh, SettledInv
  DEF SkipFile, callVars, jobVars, budget, history, Idle
<1>21. ASSUME NEW j \in Jobs, IndexDone(j) PROVE SettledInv'
  BY <1>21, TypeInv, Fresh, SettledInv
  DEF IndexDone, StepJob, callVars, jobVars, budget, history, Idle
<1>22. ASSUME NEW j \in Jobs, FinalCreate(j) PROVE SettledInv'
  BY <1>22, TypeInv, Fresh, SettledInv
  DEF FinalCreate, StepJob, FinalStored, EndJob, callVars, jobVars, budget,
      history, Idle
<1>23. ASSUME NEW j \in Jobs, FinalUpdate(j) PROVE SettledInv'
  BY <1>23, TypeInv, Fresh, SettledInv
  DEF FinalUpdate, FinalStored, EndJob, callVars, jobVars, budget, history,
      Idle
<1>24. ASSUME NEW j \in Jobs, FinalFails(j) PROVE SettledInv'
  BY <1>24, TypeInv, Fresh, SettledInv
  DEF FinalFails, EndJob, Fault, NoFault, callVars, jobVars, budget, history,
      Idle
<1>25. ASSUME NEW j \in Jobs, Expire(j) PROVE SettledInv'
  BY <1>25, TypeInv, Fresh, SettledInv
  DEF Expire, callVars, jobVars, budget, history, Idle
<1>26. ASSUME Crash PROVE SettledInv'
  BY <1>26, TypeInv, Fresh, SettledInv
  DEF Crash, callVars, jobVars, budget, history, Idle
<1>27. CASE UNCHANGED vars
  BY <1>27, TypeInv, Fresh, SettledInv
  DEF vars, callVars, jobVars, budget, history, Idle
<1>. QED
  BY <1>1, <1>2, <1>3, <1>4, <1>5, <1>6, <1>7, <1>8, <1>9, <1>10, <1>11,
      <1>12, <1>13, <1>14, <1>15, <1>16, <1>17, <1>18, <1>19, <1>20, <1>21,
      <1>22, <1>23, <1>24, <1>25, <1>26, <1>27 DEF Next, CallStep, JobStep

\* An upload directory is in no other, and RemoveAll removes no other.
LEMMA UploadDirs ==
    \A r, s \in Managed : PathOf[s] \in Under[PathOf[r]] <=> r = s
BY UnderAssumption, UploadDirAssumption

LEMMA Removing ==
    ASSUME NEW r \in Repos, NEW n \in Nat, RemoveUpload(r, n)
    PROVE  /\ disk' \subseteq disk /\ litter \subseteq litter'
           /\ r \in Managed => PathOf[r] \notin disk' \/ r \in litter'
BY UploadDirs DEF RemoveUpload

LEMMA DirsStep == TypeInv /\ Fresh /\ DirsInv /\ [Next]_vars => DirsInv'
<1>. SUFFICES ASSUME TypeInv, Fresh, DirsInv, [Next]_vars PROVE DirsInv'
  OBVIOUS
<1>. USE DEF TypeInv, Slots, TypeOK, DirsInv, NoOrphanDirs, Fresh,
             Untouched, IsUpload
<1>1. ASSUME NEW c \in Calls, NEW r \in Repos, UploadStart(c, r) PROVE DirsInv'
  BY <1>1, TypeInv, Fresh, DirsInv, UploadDirs
  DEF UploadStart, BeginCall, callVars, jobVars, budget, history, Idle
<1>2. ASSUME NEW c \in Calls, NEW r \in Repos, CreateStart(c, r) PROVE DirsInv'
  BY <1>2, TypeInv, Fresh, DirsInv
  DEF CreateStart, BeginCall, callVars, jobVars, budget, history, Idle
<1>3. ASSUME NEW c \in Calls, NEW r \in Repos, DeleteStart(c, r) PROVE DirsInv'
  BY <1>3, TypeInv, Fresh, DirsInv
  DEF DeleteStart, BeginCall, callVars, jobVars, budget, history, Idle
<1>4. ASSUME NEW c \in Calls, Unpacked(c) PROVE DirsInv'
  BY <1>4, TypeInv, Fresh, DirsInv, UploadDirs
  DEF Unpacked, StepCall, callVars, jobVars, budget, history, Idle
<1>5. ASSUME NEW c \in Calls, UploadFails(c) PROVE DirsInv'
  BY <1>5, TypeInv, Fresh, DirsInv, Removing
  DEF UploadFails, EndCall, callVars, jobVars
<1>6. ASSUME NEW c \in Calls, CreateFails(c) PROVE DirsInv'
  BY <1>6, TypeInv, Fresh, DirsInv, Removing
  DEF CreateFails, EndCall, callVars, jobVars
<1>7. ASSUME NEW c \in Calls, NEW j \in Jobs, CreateSaved(c, j) PROVE DirsInv'
  BY <1>7, TypeInv, Fresh, DirsInv
  DEF CreateSaved, Spawn, EndCall, callVars, jobVars, budget, history, Idle
<1>8. ASSUME NEW c \in Calls, DropIndex(c) PROVE DirsInv'
  BY <1>8, TypeInv, Fresh, DirsInv
  DEF DropIndex, IndexDropped, StepCall, jobVars
<1>9. ASSUME NEW c \in Calls, DropIndexFails(c) PROVE DirsInv'
  BY <1>9, TypeInv, Fresh, DirsInv
  DEF DropIndexFails, IndexDropped, Unstore, StepCall, Fault, callVars, jobVars, budget, history,
      Idle
<1>10. ASSUME NEW c \in Calls, RmFiles(c) PROVE DirsInv'
  BY <1>10, TypeInv, Fresh, DirsInv, Removing
  DEF RmFiles, StepCall, callVars, jobVars
<1>11. ASSUME NEW c \in Calls, DropRecord(c) PROVE DirsInv'
  BY <1>11, TypeInv, Fresh, DirsInv
  DEF DropRecord, RecordDropped, EndCall, callVars, jobVars, budget, history,
      Idle
<1>12. ASSUME NEW c \in Calls, DropRecordFails(c) PROVE DirsInv'
  BY <1>12, TypeInv, Fresh, DirsInv
  DEF DropRecordFails, RecordDropped, EndCall, Fault, callVars, jobVars,
      budget, history, Idle
<1>13. ASSUME NEW r \in Repos, NEW j \in Jobs, Reindex(r, j) PROVE DirsInv'
  BY <1>13, TypeInv, Fresh, DirsInv
  DEF Reindex, Spawn, callVars, jobVars, budget, history, Idle
<1>14. ASSUME NEW j \in Jobs, MarkCreate(j) PROVE DirsInv'
  BY <1>14, TypeInv, Fresh, DirsInv
  DEF MarkCreate, StepJob, callVars, jobVars, budget, history, Idle
<1>15. ASSUME NEW j \in Jobs, MarkUpdate(j) PROVE DirsInv'
  BY <1>15, TypeInv, Fresh, DirsInv
  DEF MarkUpdate, StepJob, callVars, jobVars, budget, history, Idle
<1>16. ASSUME NEW j \in Jobs, MarkFails(j) PROVE DirsInv'
  BY <1>16, TypeInv, Fresh, DirsInv
  DEF MarkFails, StepJob, Fault, callVars, jobVars, budget, history, Idle
<1>17. ASSUME NEW j \in Jobs, Walk(j) PROVE DirsInv'
  BY <1>17, TypeInv, Fresh, DirsInv
  DEF Walk, callVars, jobVars, budget, history, Idle
<1>18. ASSUME NEW j \in Jobs, Embed(j) PROVE DirsInv'
  BY <1>18, TypeInv, Fresh, DirsInv
  DEF Embed, StepJob, callVars, jobVars, budget, history, Idle
<1>19. ASSUME NEW j \in Jobs, Upsert(j) PROVE DirsInv'
  BY <1>19, TypeInv, Fresh, DirsInv
  DEF Upsert, callVars, jobVars, budget, history, Idle
<1>20. ASSUME NEW j \in Jobs, SkipFile(j) PROVE DirsInv'
  BY <1>20, TypeInv, Fresh, DirsInv
  DEF SkipFile, callVars, jobVars, budget, history, Idle
<1>21. ASSUME NEW j \in Jobs, IndexDone(j) PROVE DirsInv'
  BY <1>21, TypeInv, Fresh, DirsInv
  DEF IndexDone, StepJob, callVars, jobVars, budget, history, Idle
<1>22. ASSUME NEW j \in Jobs, FinalCreate(j) PROVE DirsInv'
  BY SMTT(40), <1>22, TypeInv, Fresh, DirsInv
  DEF FinalCreate, StepJob, FinalStored, EndJob, callVars, jobVars, budget,
      history, Idle
<1>23. ASSUME NEW j \in Jobs, FinalUpdate(j) PROVE DirsInv'
  BY <1>23, TypeInv, Fresh, DirsInv
  DEF FinalUpdate, FinalStored, EndJob, callVars, jobVars, budget, history,
      Idle
<1>24. ASSUME NEW j \in Jobs, FinalFails(j) PROVE DirsInv'
  BY <1>24, TypeInv, Fresh, DirsInv
  DEF FinalFails, EndJob, Fault, NoFault, callVars, jobVars, budget, history,
      Idle
<1>25. ASSUME NEW j \in Jobs, Expire(j) PROVE DirsInv'
  BY <1>25, TypeInv, Fresh, DirsInv
  DEF Expire, callVars, jobVars, budget, history, Idle
<1>26. ASSUME Crash PROVE DirsInv'
  BY <1>26, TypeInv, Fresh, DirsInv
  DEF Crash, callVars, jobVars, budget, history, Idle
<1>27. CASE UNCHANGED vars
  BY <1>27, TypeInv, Fresh, DirsInv
  DEF vars, callVars, jobVars, budget, history, Idle
<1>. QED
  BY <1>1, <1>2, <1>3, <1>4, <1>5, <1>6, <1>7, <1>8, <1>9, <1>10, <1>11,
      <1>12, <1>13, <1>14, <1>15, <1>16, <1>17, <1>18, <1>19, <1>20, <1>21,
      <1>22, <1>23, <1>24, <1>25, <1>26, <1>27 DEF Next, CallStep, JobStep

\* A step keeps the invariant when the chunks of the repositories concerned
\* stay, each job that counts has not moved, or what it stored is there anyway,
\* and so for the repositories that count as complete.
Unmoved(j) ==
    /\ j \in full
    /\ jobPc'[j] = jobPc[j] /\ jobRepo'[j] = jobRepo[j] /\ jobNext'[j] = jobNext[j]
ChunksStay(r) == \A f \in Files : Stored(r, f) => Stored(r, f)'
LEMMA FullKept ==
    ASSUME TypeInv, FullInv, full' \subseteq Jobs, complete' \subseteq Repos,
           \A j \in full' : jobRepo'[j] \in Repos =>
              FullSoFar(j)' \/ (Unmoved(j) /\ ChunksStay(jobRepo[j])),
           \A r \in complete' :
              \/ \A f \in FilesOf(r) : Stored(r, f)'
              \/ r \in complete /\ ChunksStay(r)
    PROVE  FullInv'
<1>1. ASSUME NEW r \in complete', NEW f \in FilesOf(r) PROVE Stored(r, f)'
  BY <1>1, Walks DEF FullInv, CompleteIndexed, ChunksStay, Stored
<1>2. CompleteIndexed'
  BY <1>1 DEF CompleteIndexed, Stored, FilesOf, Tree
<1>3. ASSUME NEW j \in full', jobRepo'[j] \in Repos, Unmoved(j), ChunksStay(jobRepo[j])
      PROVE  FullSoFar(j)'
  <2>1. FullSoFar(j) /\ jobRepo[j] \in Repos
    BY <1>3 DEF Unmoved, FullInv
  <2>. QED
    BY <1>3, <2>1, Walks DEF Unmoved, ChunksStay, FullSoFar
<1>. QED
  BY <1>2, <1>3 DEF FullInv

LEMMA FullStep == TypeInv /\ FullInv /\ [Next]_vars => FullInv'
<1>0. SUFFICES ASSUME TypeInv, FullInv, [Next]_vars PROVE FullInv'
  OBVIOUS
<1>a. /\ full \subseteq Jobs /\ complete \subseteq Repos
      /\ \A j \in Jobs : jobPc[j] # "idle" => jobRepo[j] \in Repos
  BY <1>0 DEF TypeInv, TypeOK, Slots
<1>b. /\ vstore \in [Files -> Repos \cup {NoRepo}] /\ jobPc \in [Jobs -> JobPC]
      /\ jobRepo \in [Jobs -> Repos \cup {NoRepo}] /\ jobNext \in [Jobs -> Nat \ {0}]
  BY <1>0 DEF TypeInv, TypeOK
<1>1. vstore' = vstore => \A r \in Repos : ChunksStay(r)
  BY DEF ChunksStay, Stored, Sole, FilesOf, Tree
<1>2. ASSUME UNCHANGED <<vstore, jobPc, jobRepo, jobNext, full, complete>> PROVE FullInv'
  BY <1>1, <1>2, <1>0, <1>a, FullKept DEF Unmoved
<1>3. ASSUME NEW j \in Jobs,
             UNCHANGED <<vstore, complete>>,
             full' = full \/ full' = full \cup {j} \/ full' = full \ {j},
             \A i \in Jobs \ {j} : /\ jobPc'[i] = jobPc[i]
                                   /\ jobRepo'[i] = jobRepo[i]
                                   /\ jobNext'[i] = jobNext[i],
             j \in full' /\ jobRepo'[j] \in Repos => FullSoFar(j)'
      PROVE  FullInv'
  <2>1. full' \subseteq Jobs /\ complete' \subseteq Repos
    BY <1>0, <1>a, <1>b, <1>3
  <2>2. ASSUME NEW i \in full', jobRepo'[i] \in Repos
        PROVE  FullSoFar(i)' \/ (Unmoved(i) /\ ChunksStay(jobRepo[i]))
    <3>1. CASE i = j
      BY <1>3, <2>2, <3>1
    <3>2. CASE i # j
      <4>1. Unmoved(i)
        BY <1>3, <2>1, <2>2, <3>2 DEF Unmoved
      <4>. QED
        BY <1>1, <1>3, <2>2, <4>1 DEF Unmoved
    <3>. QED
      BY <3>1, <3>2
  <2>3. \A r \in complete' : r \in complete /\ ChunksStay(r)
    BY <1>0, <1>a, <1>b, <1>1, <1>3
  <2>. QED
    BY <2>1, <2>2, <2>3, <1>0, <1>a, FullKept
<1>4. ASSUME NEW j \in Jobs, NEW r, Spawn(j, r), UNCHANGED <<vstore, complete>> PROVE FullInv'
  <2>1. FullSoFar(j)'
    BY <1>4 DEF Spawn, FullSoFar
  <2>. QED
    BY <1>3, <1>4, <2>1 DEF Spawn
<1>5. ASSUME NEW c \in Calls, DropIndex(c) \/ DropIndexFails(c) PROVE FullInv'
  <2>1. callRepo[c] \in Repos
    BY <1>0, <1>5 DEF TypeInv, TypeOK, Slots, DropIndex, DropIndexFails
  <2>2. /\ full' = full \ JobsOf(callRepo[c]) /\ complete' = complete \ {callRepo[c]}
        /\ UNCHANGED <<jobPc, jobRepo, jobNext>>
    BY <1>5 DEF DropIndex, DropIndexFails, IndexDropped, jobVars
  <2>3. \A f \in Files : vstore'[f] # vstore[f] => vstore[f] = callRepo[c]
    BY <1>0, <1>a, <1>b, <1>5, <2>1, Deletion DEF DropIndex, DropIndexFails
  <2>4. \A r \in Repos \ {callRepo[c]} : ChunksStay(r)
    BY <2>3 DEF ChunksStay, Stored, Sole, FilesOf, Tree
  <2>5. \A j \in full' : Unmoved(j) /\ jobRepo[j] # callRepo[c]
    BY <1>0, <1>a, <1>b, <2>2 DEF Unmoved, JobsOf
  <2>. QED
    BY <2>2, <2>4, <2>5, <1>0, <1>a, FullKept
<1>6. ASSUME NEW j \in Jobs, MarkCreate(j) \/ MarkUpdate(j) \/ MarkFails(j) PROVE FullInv'
  <2>1. /\ \E pc \in {"walk", "mark_update"} : StepJob(j, pc)
        /\ UNCHANGED <<vstore, full, complete>>
    BY <1>6 DEF MarkCreate, MarkUpdate, MarkFails, history
  <2>2. FullSoFar(j)'
    BY <1>0, <1>a, <1>b, <2>1 DEF StepJob, FullSoFar
  <2>. QED
    BY <1>3, <2>1, <2>2 DEF StepJob
<1>7. ASSUME NEW j \in Jobs, Walk(j) PROVE FullInv'
  <2>1. ASSUME j \in full', jobRepo'[j] \in Repos PROVE FullSoFar(j)'
    <3>1. jobPc'[j] = "files" /\ jobNext'[j] = 1
      BY <1>0, <1>a, <1>b, <1>7, <2>1 DEF Walk
    <3>2. \A i \in DOMAIN Tree(jobRepo'[j]) : ~(i < 1)
      BY <2>1, Walks
    <3>. QED
      BY <3>1, <3>2 DEF FullSoFar
  <2>. QED
    BY <1>3, <1>7, <2>1 DEF Walk
<1>8. ASSUME NEW j \in Jobs, Embed(j) PROVE FullInv'
  <2>1. ASSUME j \in full', jobRepo'[j] \in Repos PROVE FullSoFar(j)'
    <3>1. j \in full /\ jobPc[j] = "files" /\ jobPc'[j] = "upsert"
          /\ UNCHANGED <<vstore, jobRepo, jobNext>>
      BY <1>0, <1>a, <1>b, <1>8, <2>1 DEF Embed, StepJob, history
    <3>2. FullSoFar(j)
      BY <1>0, <1>a, <1>b, <2>1, <3>1 DEF FullInv
    <3>. QED
      BY <1>1, <2>1, <3>1, <3>2, Walks DEF FullSoFar, ChunksStay
  <2>. QED
    BY <1>3, <1>8, <2>1 DEF Embed, StepJob, history
<1>9. ASSUME NEW j \in Jobs, Upsert(j) \/ SkipFile(j) PROVE FullInv'
  <2>1. \A r \in Repos : ChunksStay(r)
    BY <1>0, <1>a, <1>b, <1>1, <1>9, Storing DEF Upsert, SkipFile, ChunksStay
  <2>2. /\ full' \subseteq full /\ complete' = complete
        /\ \A i \in Jobs \ {j} : /\ jobPc'[i] = jobPc[i]
                                 /\ jobRepo'[i] = jobRepo[i]
                                 /\ jobNext'[i] = jobNext[i]
    BY <1>0, <1>a, <1>b, <1>9 DEF Upsert, SkipFile, history
  <2>3. ASSUME j \in full' PROVE FullSoFar(j)'
    <3>1. Upsert(j) /\ j \in full
      BY <1>9, <2>3 DEF SkipFile, Upsert, history
    <3>2. jobPc'[j] = "files" /\ jobNext'[j] = jobNext[j] + 1 /\ jobRepo'[j] = jobRepo[j]
      BY <1>0, <1>a, <1>b, <3>1 DEF Upsert
    <3>3. PICK s \in Repos, f \in Files : s = jobRepo[j] /\ f = File(j)
      BY <1>0, <1>a, <1>b, <3>1, Storing DEF Upsert
    <3>4. Stored(s, f)'
      BY <1>0, <1>a, <1>b, <3>1, <3>3, Storing DEF Upsert, Stored
    <3>5. FullSoFar(j) /\ ChunksStay(s)
      BY <1>0, <1>a, <1>b, <2>1, <3>1, <3>3 DEF FullInv
    <3>6. ASSUME NEW k \in DOMAIN Tree(s), k < jobNext[j] + 1
          PROVE  Stored(s, Tree(s)[k])'
      <4>1. CASE k = jobNext[j]
        BY <3>3, <3>4, <4>1 DEF File
      <4>2. CASE k # jobNext[j]
        <5>1. k < jobNext[j]
          BY <1>0, <1>a, <1>b, <3>3, <3>6, <4>2, Walks
        <5>2. Stored(s, Tree(s)[k])
          BY <3>1, <3>3, <3>5, <5>1 DEF FullSoFar, Upsert
        <5>. QED
          BY <3>5, <5>2, Walks DEF ChunksStay
      <4>. QED
        BY <4>1, <4>2
    <3>. QED
      BY <3>2, <3>3, <3>6 DEF FullSoFar
  <2>4. ASSUME NEW i \in full', jobRepo'[i] \in Repos
        PROVE  FullSoFar(i)' \/ (Unmoved(i) /\ ChunksStay(jobRepo[i]))
    <3>1. CASE i = j
      BY <2>3, <2>4, <3>1
    <3>2. CASE i # j
      <4>1. Unmoved(i)
        BY <1>0, <1>a, <1>b, <2>2, <2>4, <3>2 DEF Unmoved
      <4>. QED
        BY <2>1, <2>4, <4>1 DEF Unmoved
    <3>. QED
      BY <3>1, <3>2
  <2>. QED
    BY <2>1, <2>2, <2>4, <1>0, <1>a, FullKept
<1>10. ASSUME NEW j \in Jobs, IndexDone(j) PROVE FullInv'
  <2>1. ASSUME j \in full', jobRepo'[j] \in Repos PROVE FullSoFar(j)'
    <3>1. j \in full /\ jobPc[j] = "files" /\ jobPc'[j] = "final" /\ ~InLoop(j)
          /\ UNCHANGED <<vstore, jobRepo, jobNext>>
      BY <1>0, <1>a, <1>b, <1>10, <2>1 DEF IndexDone, StepJob, history
    <3>2. FullSoFar(j)
      BY <1>0, <1>a, <1>b, <2>1, <3>1 DEF FullInv
    <3>3. \A i \in DOMAIN Tree(jobRepo[j]) : i < jobNext[j]
      BY <1>0, <1>a, <1>b, <2>1, <3>1, Walks, JobsFile
    <3>4. \A f \in FilesOf(jobRepo[j]) : Stored(jobRepo[j], f)
      BY <1>0, <1>a, <1>b, <2>1, <3>1, <3>2, <3>3, Walks DEF FullSoFar
    <3>. QED
      BY <1>1, <2>1, <3>1, <3>4, Walks DEF FullSoFar, ChunksStay
  <2>. QED
    BY <1>3, <1>10, <2>1 DEF IndexDone, StepJob, history
<1>11. ASSUME NEW j \in Jobs, FinalStored(j), jobPc[j] \in {"final", "final_update"},
              UNCHANGED vstore
       PROVE  FullInv'
  <2>1. PICK s \in Repos : s = jobRepo[j]
    BY <1>0, <1>a, <1>b, <1>11
  <2>2. /\ full' \subseteq Jobs /\ complete' \subseteq Repos
        /\ \A i \in full' : Unmoved(i)
    BY <1>0, <1>a, <1>b, <1>11, <2>1 DEF FinalStored, EndJob, Unmoved
  <2>3. ASSUME j \in full PROVE \A f \in FilesOf(s) : Stored(s, f)'
    <3>1. \A f \in FilesOf(s) : Stored(s, f)
      BY <1>0, <1>a, <1>b, <1>11, <2>1, <2>3 DEF FullInv, FullSoFar
    <3>. QED
      BY <1>1, <1>11, <3>1, Walks DEF ChunksStay
  <2>4. \A r \in complete' : r \in complete \/ (r = s /\ j \in full)
    <3>1. CASE j \in full
      <4>1. complete' = complete \cup {s}
        BY <1>11, <2>1, <3>1 DEF FinalStored
      <4>. QED
        BY <3>1, <4>1, Zenon
    <3>2. CASE j \notin full
      <4>1. complete' = complete
        BY <1>11, <3>2 DEF FinalStored
      <4>. QED
        BY <4>1
    <3>. QED
      BY <3>1, <3>2
  <2>5. \A r \in complete' : \/ \A f \in FilesOf(r) : Stored(r, f)'
                             \/ r \in complete /\ ChunksStay(r)
    BY <1>0, <1>a, <1>b, <1>1, <1>11, <2>3, <2>4
  <2>6. \A i \in full' : jobRepo'[i] \in Repos => Unmoved(i) /\ ChunksStay(jobRepo[i])
    BY <1>1, <1>11, <2>2 DEF Unmoved
  <2>. QED
    BY <2>2, <2>5, <2>6, <1>0, <1>a, FullKept
<1>12. ASSUME NEW j \in Jobs, EndJob(j), UNCHANGED <<vstore, complete>> PROVE FullInv'
  BY <1>3, <1>12 DEF EndJob
<1>13. ASSUME NEW j \in Jobs, FinalCreate(j) PROVE FullInv'
  <2>1. CASE FinalStored(j)
    BY <1>11, <1>13, <2>1 DEF FinalCreate
  <2>2. CASE StepJob(j, "final_update") /\ UNCHANGED <<full, complete>>
    <3>1. ASSUME j \in full', jobRepo'[j] \in Repos PROVE FullSoFar(j)'
      <4>1. j \in full /\ jobPc[j] = "final" /\ jobPc'[j] = "final_update"
            /\ UNCHANGED <<vstore, jobRepo>>
        BY <1>0, <1>a, <1>b, <1>13, <2>2, <3>1 DEF FinalCreate, StepJob
      <4>. QED
        BY <1>0, <1>a, <1>b, <1>1, <3>1, <4>1, Walks DEF FullInv, FullSoFar, ChunksStay
    <3>. QED
      BY <1>3, <1>13, <2>2, <3>1 DEF FinalCreate, StepJob
  <2>. QED
    BY <1>13, <2>1, <2>2 DEF FinalCreate
<1>14. ASSUME NEW j \in Jobs, FinalUpdate(j) \/ FinalFails(j) PROVE FullInv'
  BY <1>11, <1>12, <1>14 DEF FinalUpdate, FinalFails
<1>15. ASSUME Crash PROVE FullInv'
  BY <1>1, <1>15, <1>0, <1>a, FullKept DEF Crash
<1>16. ASSUME NEW c \in Calls, NEW j \in Jobs, CreateSaved(c, j) PROVE FullInv'
  BY <1>4, <1>16 DEF CreateSaved
<1>17. ASSUME NEW r \in Repos, NEW j \in Jobs, Reindex(r, j) PROVE FullInv'
  BY <1>4, <1>17 DEF Reindex
<1>18. ASSUME NEW c \in Calls, NEW r \in Repos,
              UploadStart(c, r) \/ CreateStart(c, r) \/ DeleteStart(c, r)
       PROVE  FullInv'
  BY <1>2, <1>18 DEF UploadStart, CreateStart, DeleteStart, jobVars, history, BeginCall
<1>19. ASSUME NEW c \in Calls,
              \/ Unpacked(c) \/ UploadFails(c) \/ CreateFails(c)
              \/ RmFiles(c) \/ DropRecord(c) \/ DropRecordFails(c)
       PROVE  FullInv'
  BY <1>2, <1>19 DEF Unpacked, UploadFails, CreateFails, RmFiles, DropRecord,
                     DropRecordFails, jobVars, history
<1>20. ASSUME NEW j \in Jobs, Expire(j) PROVE FullInv'
  BY <1>2, <1>20 DEF Expire, history
<1>21. CASE UNCHANGED vars
  BY <1>2, <1>21 DEF vars, jobVars, history
<1>. QED
  BY <1>0, <1>5, <1>6, <1>7, <1>8, <1>9, <1>10, <1>13, <1>14, <1>15, <1>16, <1>17,
     <1>18, <1>19, <1>20, <1>21 DEF Next, CallStep, JobStep

-----------------------------------------------------------------------------
(* The theorems.                                                           *)

Inv == TypeInv /\ NoStuck /\ Fresh /\ SettledInv /\ DirsInv /\ FullInv

LEMMA InvInit == Init => Inv
<1>. SUFFICES ASSUME Init PROVE Inv
  OBVIOUS
<1>1. TypeInv
  BY TypeInit
<1>2. NoStuck /\ Fresh /\ SettledInv /\ FullInv
  BY DEF Init, NoStuck, Unfinished, Fresh, Untouched, IsUpload, SettledInv,
    FullInv, CompleteIndexed
<1>3. \A r \in Managed : PathOf[r] \notin disk
  BY UploadDirs DEF Init
<1>4. DirsInv
  BY <1>3 DEF Init, DirsInv, NoOrphanDirs
<1>. QED
  BY <1>1, <1>2, <1>4 DEF Inv

LEMMA InvStep == Inv /\ [Next]_vars => Inv'
BY TypeStep, StuckStep, FreshStep, SettledStep, DirsStep, FullStep DEF Inv

THEOREM Invariant == Spec => []Inv
BY InvInit, InvStep, PTL DEF Spec

\* Every variable keeps its type.
THEOREM TypeCorrect == Spec => []TypeOK
<1>1. Inv => TypeOK
  BY DEF Inv, TypeInv
<1>. QED
  BY <1>1, Invariant, PTL

\* A record says pending or indexing only while a goroutine works on the
\* repository, or after a crash, a lost Create answer or a lost last Save.
THEOREM NeverStuck == Spec => []NoStuck
<1>1. Inv => NoStuck
  BY DEF Inv
<1>. QED
  BY <1>1, Invariant, PTL

\* A repository deleted without an error and while no job of it was running
\* never comes back: no record, and no chunk unless there were more of them
\* than one batch delete may remove.
THEOREM SettledDeletionIsFinal == Spec => []SettledStaysGone
<1>1. Inv => SettledStaysGone
  BY DEF Inv, SettledInv, Gone, SettledStaysGone, Owned
<1>. QED
  BY <1>1, Invariant, PTL

\* Delete and the error paths of UploadRepository leave no upload directory
\* without a record, unless a RemoveAll failed or the server crashed.
THEOREM NoDirectoryIsOrphaned == Spec => []NoOrphanDirs
<1>1. Inv => NoOrphanDirs
  BY DEF Inv, DirsInv
<1>. QED
  BY <1>1, Invariant, PTL

\* What a complete indexing run has stored of the files that no other
\* repository's walk comes to stays stored until the repository's own deletion,
\* whatever the jobs and deletions of all repositories do meanwhile.
THEOREM IndexStaysComplete == Spec => []CompleteIndexed
<1>1. Inv => CompleteIndexed
  BY DEF Inv, FullInv
<1>. QED
  BY <1>1, Invariant, PTL

-----------------------------------------------------------------------------
(* The refinement: each step of a request or of a goroutine is a step of   *)
(* the catalog, or changes nothing that clients see.                       *)

Unseen == UNCHANGED <<store, Working, Known, stranded>>

LEMMA CatalogInit == Init => Catalog!Init
BY DEF Init, Catalog!Init, Working, Known, JobsOf

LEMMA CatalogStep == Inv /\ [Next]_vars => [Catalog!Next]_Catalog!vars
<1>. SUFFICES ASSUME Inv, [Next]_vars PROVE Unseen \/ Catalog!Next
  BY DEF Unseen, Catalog!vars
<1>. USE DEF Inv, TypeInv, Slots, TypeOK, Working, Known, JobsOf, IsUpload
<1>1. ASSUME NEW c \in Calls, NEW r \in Repos, UploadStart(c, r)
      PROVE  Unseen
  BY <1>1, Inv
  DEF UploadStart, BeginCall, Unseen, Fresh, Untouched, Idle, callVars,
      jobVars, budget, history
<1>2. ASSUME NEW c \in Calls, NEW r \in Repos, CreateStart(c, r)
      PROVE  Unseen
  BY <1>2, Inv
  DEF CreateStart, BeginCall, Unseen, Fresh, Untouched, Idle, callVars,
      jobVars, budget, history
<1>3. ASSUME NEW c \in Calls, NEW r \in Repos, DeleteStart(c, r)
      PROVE  Unseen
  BY <1>3, Inv
  DEF DeleteStart, BeginCall, Unseen, Fresh, Untouched, Idle, callVars,
      jobVars, budget, history
<1>4. ASSUME NEW c \in Calls, Unpacked(c)
      PROVE  Unseen
  BY <1>4, Inv
  DEF Unpacked, StepCall, Unseen, Fresh, Untouched, Idle, callVars, jobVars,
      budget, history
<1>5. ASSUME NEW c \in Calls, NEW r \in Repos, r = callRepo[c], UploadFails(c)
      PROVE  Catalog!Refuse(r)
  BY <1>5, Inv
  DEF UploadFails, RemoveUpload, EndCall, Fault, NoFault, Catalog!Refuse,
      Fresh, Untouched, Idle, callVars, jobVars, budget, history
<1>6. ASSUME NEW c \in Calls, NEW r \in Repos, r = callRepo[c], CreateFails(c)
      PROVE  Catalog!Refuse(r)
  <2>1. r \notin Known /\ r \in issued /\ \A d \in Calls : callRepo[d] = r => d = c
    BY <1>6, Inv DEF CreateFails, Fresh
  <2>2. Known' = Known \cup {r}
    BY SMTT(40), <1>6, <2>1 DEF CreateFails, EndCall
  <2>3. Working' = Working
    BY <1>6 DEF CreateFails, jobVars
  <2>4. \/ UNCHANGED <<store, stranded>>
        \/ /\ store' = [store EXCEPT ![r] = "pending"]
           /\ stranded' = stranded \cup {r}
    BY <1>6 DEF CreateFails
  <2>. QED
    BY <2>1, <2>2, <2>3, <2>4 DEF Catalog!Refuse
<1>7. ASSUME NEW c \in Calls, NEW j \in Jobs, NEW r \in Repos,
               r = callRepo[c], CreateSaved(c, j)
      PROVE  Catalog!Register(r)
  BY <1>7, Inv
  DEF CreateSaved, Spawn, EndCall, Catalog!Register, Fresh, Untouched, Idle,
      callVars, jobVars, budget, history
<1>8. ASSUME NEW c \in Calls, DropIndex(c)
      PROVE  Unseen
  BY <1>8, Inv
  DEF DropIndex, IndexDropped, Unstore, NoFault, StepCall, Unseen, Fresh, Untouched, Idle, callVars, jobVars,
      budget, history
<1>9. ASSUME NEW c \in Calls, DropIndexFails(c)
      PROVE  Unseen
  BY <1>9, Inv
  DEF DropIndexFails, IndexDropped, Unstore, StepCall, Fault, Unseen, Fresh, Untouched, Idle,
      callVars, jobVars, budget, history
<1>10. ASSUME NEW c \in Calls, RmFiles(c)
      PROVE  Unseen
  BY <1>10, Inv
  DEF RmFiles, RemoveUpload, StepCall, Fault, NoFault, Unseen, Fresh,
      Untouched, Idle, callVars, jobVars, budget, history
<1>11. ASSUME NEW c \in Calls, NEW r \in Repos, r = callRepo[c], DropRecord(c)
      PROVE  Catalog!Remove(r)
  <2>1. Known' = Known
    BY <1>11 DEF DropRecord, EndCall
  <2>2. Working' = Working
    BY <1>11 DEF DropRecord, jobVars
  <2>3. r \in Known
    BY <1>11, Inv DEF DropRecord, Fresh
  <2>. QED
    BY <1>11, <2>1, <2>2, <2>3 DEF DropRecord, RecordDropped, Catalog!Remove
<1>12. ASSUME NEW c \in Calls, NEW r \in Repos, r = callRepo[c],
               DropRecordFails(c)
      PROVE  Unseen \/ Catalog!Remove(r)
  BY SMTT(40), <1>12, Inv
  DEF DropRecordFails, RecordDropped, EndCall, Fault, Unseen, Catalog!Remove,
      Fresh, Untouched, Idle, callVars, jobVars, budget, history
<1>13. ASSUME NEW r \in Repos, NEW j \in Jobs, Reindex(r, j)
      PROVE  Catalog!Request(r)
  BY <1>13, Inv
  DEF Reindex, Spawn, Catalog!Request, Fresh, Untouched, Idle, callVars,
      jobVars, budget, history
<1>14. ASSUME NEW j \in Jobs, NEW r \in Repos, r = jobRepo[j], MarkCreate(j)
      PROVE  Unseen \/ Catalog!Begin(r)
  BY <1>14, Inv
  DEF MarkCreate, StepJob, Unseen, Catalog!Begin, Fresh, Untouched, Idle,
      callVars, jobVars, budget, history
<1>15. ASSUME NEW j \in Jobs, NEW r \in Repos, r = jobRepo[j], MarkUpdate(j)
      PROVE  Unseen \/ Catalog!Begin(r)
  BY <1>15, Inv
  DEF MarkUpdate, StepJob, Unseen, Catalog!Begin, Fresh, Untouched, Idle,
      callVars, jobVars, budget, history
<1>16. ASSUME NEW j \in Jobs, MarkFails(j)
      PROVE  Unseen
  BY <1>16, Inv
  DEF MarkFails, StepJob, Fault, Unseen, Fresh, Untouched, Idle, callVars,
      jobVars, budget, history
<1>17. ASSUME NEW j \in Jobs, Walk(j)
      PROVE  Unseen
  BY <1>17, Inv
  DEF Walk, Unseen, Fresh, Untouched, Idle, callVars, jobVars, budget, history
<1>18. ASSUME NEW j \in Jobs, Embed(j)
      PROVE  Unseen
  BY <1>18, Inv
  DEF Embed, StepJob, Unseen, Fresh, Untouched, Idle, callVars, jobVars,
      budget, history
<1>19. ASSUME NEW j \in Jobs, Upsert(j)
      PROVE  Unseen
  BY <1>19, Inv
  DEF Upsert, Unseen, Fresh, Untouched, Idle, callVars, jobVars, budget,
      history
<1>20. ASSUME NEW j \in Jobs, SkipFile(j)
      PROVE  Unseen
  BY <1>20, Inv
  DEF SkipFile, Unseen, Fresh, Untouched, Idle, callVars, jobVars, budget,
      history
<1>21. ASSUME NEW j \in Jobs, IndexDone(j)
      PROVE  Unseen
  BY <1>21, Inv
  DEF IndexDone, StepJob, Unseen, Fresh, Untouched, Idle, callVars, jobVars,
      budget, history
<1>22. ASSUME NEW j \in Jobs, NEW r \in Repos, r = jobRepo[j], FinalCreate(j)
      PROVE  Unseen \/ Catalog!Finish(r)
  BY SMTT(40), <1>22, Inv
  DEF FinalCreate, StepJob, FinalStored, EndJob, Unseen, Catalog!Finish,
      Fresh, Untouched, Idle, callVars, jobVars, budget, history
<1>23. ASSUME NEW j \in Jobs, NEW r \in Repos, r = jobRepo[j], FinalUpdate(j)
      PROVE  Catalog!Finish(r) \/ Catalog!GiveUp(r)
  BY SMTT(40), <1>23, Inv
  DEF FinalUpdate, FinalStored, EndJob, Catalog!Finish, Catalog!GiveUp,
      Unfinished, Catalog!Unfinished, Fresh, Untouched, Idle, callVars,
      jobVars, budget, history
<1>24. ASSUME NEW j \in Jobs, NEW r \in Repos, r = jobRepo[j], FinalFails(j)
      PROVE  Catalog!GiveUp(r)
  BY <1>24, Inv
  DEF FinalFails, EndJob, Fault, NoFault, Catalog!GiveUp, Unfinished,
      Catalog!Unfinished, Fresh, Untouched, Idle, callVars, jobVars, budget,
      history
<1>25. ASSUME NEW j \in Jobs, Expire(j)
      PROVE  Unseen
  BY <1>25, Inv
  DEF Expire, Unseen, Fresh, Untouched, Idle, callVars, jobVars, budget,
      history
<1>26. ASSUME Crash
      PROVE  Catalog!Die
  BY <1>26, Inv
  DEF Crash, Catalog!Die, Unfinished, Catalog!Unfinished, Fresh, Untouched,
      Idle, callVars, jobVars, budget, history
<1>27. CASE UNCHANGED vars
  BY <1>27 DEF vars, callVars, jobVars, history, Unseen
<1>28. ASSUME NEW c \in Calls, CallStep(c) PROVE callRepo[c] \in Repos
  BY <1>28, Inv DEF CallStep, Unpacked, UploadFails, CreateFails, CreateSaved,
      DropIndex, DropIndexFails, RmFiles, DropRecord, DropRecordFails
<1>29. ASSUME NEW j \in Jobs, JobStep(j) PROVE jobRepo[j] \in Repos
  BY <1>29, Inv DEF JobStep, MarkCreate, MarkUpdate, MarkFails, Walk, Embed,
      Upsert, SkipFile, IndexDone, FinalCreate, FinalUpdate, FinalFails
<1>30. ASSUME NEW c \in Calls, CallStep(c) PROVE Unseen \/ Catalog!Next
  <2>1. PICK r \in Repos : r = callRepo[c]
    BY <1>28, <1>30
  <2>2. Unseen \/ Catalog!Refuse(r) \/ Catalog!Register(r) \/ Catalog!Remove(r)
    BY <1>4, <1>5, <1>6, <1>7, <1>8, <1>9, <1>10, <1>11, <1>12, <1>30, <2>1,
       Zenon DEF CallStep
  <2>. QED
    BY <2>2, Zenon DEF Catalog!Next
<1>31. ASSUME NEW j \in Jobs, JobStep(j) PROVE Unseen \/ Catalog!Next
  <2>1. PICK r \in Repos : r = jobRepo[j]
    BY <1>29, <1>31
  <2>2. Unseen \/ Catalog!Begin(r) \/ Catalog!Finish(r) \/ Catalog!GiveUp(r)
    BY <1>14, <1>15, <1>16, <1>17, <1>18, <1>19, <1>20, <1>21, <1>22, <1>23,
       <1>24, <1>31, <2>1, Zenon DEF JobStep
  <2>. QED
    BY <2>2, Zenon DEF Catalog!Next
<1>. QED
  BY <1>1, <1>2, <1>3, <1>13, <1>25, <1>26, <1>27, <1>30, <1>31
  DEF Next, Catalog!Next

\* Requests, goroutines, crashes and failing remote calls together give the
\* clients the catalog of RepositoryCatalog, and nothing else.
THEOREM Refinement == Spec => ImplementsCatalog
BY CatalogInit, CatalogStep, Invariant, PTL DEF Spec, ImplementsCatalog, Catalog!Spec

-----------------------------------------------------------------------------
(* Chunks change hands only with their file.                               *)

\* A chunk is owned by a repository that has the file.
ChunkPlace == \A f \in Files : vstore[f] \in Repos => f \in FilesOf(vstore[f])

\* Nothing else touches the index.
LEMMA IndexSteps ==
    ASSUME [Next]_vars
    PROVE  \/ UNCHANGED vstore
           \/ \E c \in Calls : Drops(c)
           \/ \E j \in Jobs : Stores(j)
<1>1. ASSUME NEW c \in Calls, DropIndex(c) \/ DropIndexFails(c) PROVE Drops(c)
  BY <1>1 DEF DropIndex, DropIndexFails, Drops
<1>2. ASSUME NEW j \in Jobs, Upsert(j) \/ SkipFile(j) PROVE Stores(j) \/ UNCHANGED vstore
  BY <1>2 DEF Upsert, SkipFile, Stores
<1>. QED
  BY <1>1, <1>2
  DEF Next, vars, CallStep, JobStep, UploadStart, CreateStart, DeleteStart,
    Unpacked, UploadFails, CreateFails, CreateSaved, RmFiles,
    DropRecord, DropRecordFails, Reindex, MarkCreate, MarkUpdate, MarkFails,
    Walk, Embed, IndexDone, FinalCreate, FinalUpdate, FinalFails, Expire, Crash

LEMMA HandoverStep ==
    TypeInv /\ ChunkPlace /\ [Next]_vars =>
        ChunkPlace' /\ \A f \in Files : ChunkHandover(f)
<1>. SUFFICES ASSUME TypeInv, ChunkPlace, [Next]_vars, NEW f \in Files
              PROVE  /\ vstore'[f] \in Repos => f \in FilesOf(vstore'[f])
                     /\ ChunkHandover(f)
  BY DEF ChunkPlace
<1>1. CASE vstore'[f] = vstore[f]
  BY <1>1 DEF ChunkHandover, ChunkPlace
<1>2. ASSUME NEW c \in Calls, Drops(c), vstore'[f] # vstore[f]
      PROVE  vstore'[f] = NoRepo /\ callPc[c] = "drop_index" /\ callRepo[c] = vstore[f]
  <2>1. callRepo[c] \in Repos
    BY <1>2 DEF Drops, TypeInv, TypeOK, Slots
  <2>. QED
    BY <1>2, <2>1, Deletion DEF Drops
<1>3. ASSUME NEW j \in Jobs, Stores(j), vstore'[f] # vstore[f]
      PROVE  vstore'[f] \in Repos /\ f \in FilesOf(vstore'[f])
  BY <1>3, Storing DEF Stores
<1>. QED
  BY <1>1, <1>2, <1>3, IndexSteps DEF ChunkHandover

\* No request and no job takes a chunk from a repository, except its own
\* deletion and the indexing of a repository that has the same file, in an
\* equal directory, in one above or in one below.
THEOREM ChunksPassOnlyWithTheirFile == Spec => ChunksKept
<1>1. Init => ChunkPlace
  BY DEF Init, ChunkPlace
<1>2. Inv => TypeInv
  BY DEF Inv
<1>3. [Next]_vars /\ Inv /\ ChunkPlace =>
        ChunkPlace' /\ [\A f \in Files : ChunkHandover(f)]_vars
  BY HandoverStep, <1>2
<1>. QED
  BY <1>1, <1>2, <1>3, Invariant, PTL DEF Spec, ChunksKept

=============================================================================
