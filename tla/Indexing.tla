------------------------------ MODULE Indexing ------------------------------
(***************************************************************************)
(* The indexer: jobs that run at the same time over one Indexer value, from*)
(* .gitignore to the chunks in the vector store.  A job loads the patterns *)
(* into a slice that all jobs share, walks its directory with whatever     *)
(* that slice then holds, and embeds and stores one file after the other,  *)
(* in batches.  Which pattern matches which path, and what the parser makes*)
(* of a file, are data: a relation and a number of chunks.                 *)
(***************************************************************************)
EXTENDS Integers, FiniteSets, Sequences, Prefixes

CONSTANTS
    Jobs,           \* calls of Index, each in a goroutine of its own
    Repos,
    Files,
    Tree,           \* files of a repository in the order of filepath.Walk
    Gitignore,      \* lines of its .gitignore; none when there is no such file
    Comment,        \* a line that is blank or starts with #
    Patterns,
    Matches,        \* <<p, f>>: p matches f's base name or a directory above it
    Excluded,       \* files with an excluded path, or ".git", in their path
    Supported,      \* files whose extension has a language
    Sizes,          \* numbers of chunks a file may have, over its history
    BatchSize,      \* DefaultBatchSize
    MaxDelete,      \* objects one batch delete removes at most
    MaxEdits        \* bound on changes of files while jobs run

ConstantsAssumption ==
    /\ Tree \in [Repos -> Seq(Files)]
    /\ Gitignore \in [Repos -> Seq(Patterns \cup {Comment})]
    /\ Comment \notin Patterns
    /\ Matches \subseteq Patterns \X Files
    /\ Excluded \subseteq Files /\ Supported \subseteq Files
    /\ Sizes \in [Files -> SUBSET Nat]
    /\ BatchSize \in Nat \ {0} /\ MaxDelete \in Nat \ {0} /\ MaxEdits \in Nat

VARIABLES
    repo,           \* the repository each job indexes
    ignorePatterns, \* the slice all jobs share
    pc,             \* where each job is
    line,           \* the line of .gitignore a job has come to
    seen,           \* the slice an append has read and will write back
    walked,         \* how many files of its tree a job has judged
    filesToProcess, \* the files it has kept
    cur,            \* the one it is at
    count,          \* chunks the parser returned for that file
    at,             \* chunks of it already handed to the store
    size,           \* chunks each file would now be parsed into
    edits,          \* changes of files so far
    stored,         \* chunks in the vector store: <<file, number>>
    mixed,          \* jobs during whose load or walk another job was loading
    torn,           \* jobs during which their repository's chunks were deleted
    partly          \* repositories whose last deletion left chunks of theirs

jobVars == <<pc, line, seen, walked, filesToProcess, cur, count, at>>
vars == <<repo, ignorePatterns, jobVars, size, edits, stored, mixed, torn, partly>>

PCs == {"idle", "reset", "scan", "append", "walk", "file", "upsert", "done", "dead"}
Running(j) == pc[j] \notin {"idle", "done", "dead"}
Range(s) == {s[i] : i \in DOMAIN s}
FilesOf(r) == Range(Tree[r])
ChunksOf(r) == {c \in stored : c[1] \in FilesOf(r)}
Lesser(a, b) == IF a < b THEN a ELSE b

Init ==
    /\ repo \in [Jobs -> Repos]
    /\ ignorePatterns = <<>>
    /\ pc = [j \in Jobs |-> "idle"]
    /\ line = [j \in Jobs |-> 1]
    /\ seen = [j \in Jobs |-> <<>>]
    /\ walked = [j \in Jobs |-> 0]
    /\ filesToProcess = [j \in Jobs |-> <<>>]
    /\ cur = [j \in Jobs |-> 1]
    /\ count = [j \in Jobs |-> 0]
    /\ at = [j \in Jobs |-> 0]
    /\ size \in {s \in [Files -> UNION {Sizes[f] : f \in Files}] :
                    \A f \in Files : s[f] \in Sizes[f]}
    /\ edits = 0
    /\ stored = {}
    /\ mixed = {} /\ torn = {} /\ partly = {}

\* The jobs that a write of j to the slice disturbs.
Disturbed(j) == {k \in Jobs \ {j} : pc[k] \in {"scan", "append", "walk"}}

Index(j) ==
    /\ pc[j] = "idle"
    /\ pc' = [pc EXCEPT ![j] = "reset"]
    /\ UNCHANGED <<repo, ignorePatterns, line, seen, walked, filesToProcess, cur,
                   count, at, size, edits, stored, mixed, torn, partly>>

\* Mutant: The patterns of the last job are kept.
ResetKeeps(j) ==
    /\ pc[j] = "reset"
    /\ pc' = [pc EXCEPT ![j] = "scan"]
    /\ mixed' = mixed \cup Disturbed(j)
    /\ UNCHANGED <<repo, ignorePatterns, line, seen, walked, filesToProcess, cur,
                   count, at, size, edits, stored, torn, partly>>

\* The slice is emptied first; without a .gitignore it stays empty.
ResetPatterns(j) ==
    /\ pc[j] = "reset"
    /\ ignorePatterns' = <<>>
    /\ pc' = [pc EXCEPT ![j] = "scan"]
    /\ mixed' = mixed \cup Disturbed(j)
    /\ UNCHANGED <<repo, line, seen, walked, filesToProcess, cur, count, at, size,
                   edits, stored, torn, partly>>

\* append reads the slice ...
ReadLine(j) ==
    LET lines == Gitignore[repo[j]] IN
    /\ pc[j] = "scan" /\ line[j] <= Len(lines)
    /\ line' = [line EXCEPT ![j] = @ + 1]
    /\ \/ /\ lines[line[j]] = Comment
          /\ UNCHANGED <<pc, seen>>
       \/ /\ lines[line[j]] # Comment
          /\ seen' = [seen EXCEPT ![j] = Append(ignorePatterns, lines[line[j]])]
          /\ pc' = [pc EXCEPT ![j] = "append"]
    /\ UNCHANGED <<repo, ignorePatterns, walked, filesToProcess, cur, count, at, size,
                   edits, stored, mixed, torn, partly>>

\* ... and writes it back, without a lock.
AppendPattern(j) ==
    /\ pc[j] = "append"
    /\ ignorePatterns' = seen[j]
    /\ seen' = [seen EXCEPT ![j] = <<>>]
    /\ pc' = [pc EXCEPT ![j] = "scan"]
    /\ mixed' = mixed \cup Disturbed(j)
    /\ UNCHANGED <<repo, line, walked, filesToProcess, cur, count, at, size, edits,
                   stored, torn, partly>>

StartWalk(j) ==
    /\ pc[j] = "scan" /\ line[j] > Len(Gitignore[repo[j]])
    /\ pc' = [pc EXCEPT ![j] = "walk"]
    /\ UNCHANGED <<repo, ignorePatterns, line, seen, walked, filesToProcess, cur,
                   count, at, size, edits, stored, mixed, torn, partly>>

shouldIgnore(patterns, f) ==
    \/ f \in Excluded
    \/ \E p \in Range(patterns) : <<p, f>> \in Matches

\* Another job is about to write the three words of the slice's header.
Racing(j) == \E k \in Jobs \ {j} : pc[k] \in {"reset", "append"}

\* What shouldIgnore may answer: under a write it reads a header of two slices,
\* and judges by patterns that are in neither.
Verdicts(j, f) ==
    {shouldIgnore(ignorePatterns, f)} \cup
    (IF Racing(j) /\ f \notin Excluded THEN BOOLEAN ELSE {})

Walk(j) ==
    LET tree == Tree[repo[j]] IN
    /\ pc[j] = "walk" /\ walked[j] < Len(tree)
    /\ walked' = [walked EXCEPT ![j] = @ + 1]
    /\ \E ignored \in Verdicts(j, tree[walked[j] + 1]) :
         filesToProcess' =
            IF ignored THEN filesToProcess
            ELSE [filesToProcess EXCEPT ![j] = Append(@, tree[walked[j] + 1])]
    /\ mixed' = IF Racing(j) THEN mixed \cup {j} ELSE mixed
    /\ UNCHANGED <<repo, ignorePatterns, pc, line, seen, cur, count, at, size, edits,
                   stored, torn, partly>>

\* A torn header can also point past the patterns: the process dies.
TornRead(j) ==
    /\ pc[j] = "walk" /\ Racing(j)
    /\ pc' = [k \in Jobs |-> IF Running(k) THEN "dead" ELSE pc[k]]
    /\ UNCHANGED <<repo, ignorePatterns, line, seen, walked, filesToProcess, cur,
                   count, at, size, edits, stored, mixed, torn, partly>>

EndWalk(j) ==
    /\ pc[j] = "walk" /\ walked[j] = Len(Tree[repo[j]])
    /\ pc' = [pc EXCEPT ![j] = "file"]
    /\ UNCHANGED <<repo, ignorePatterns, line, seen, walked, filesToProcess, cur,
                   count, at, size, edits, stored, mixed, torn, partly>>

\* Index answers nil, whatever became of the files.
EndIndex(j) ==
    /\ pc[j] = "file" /\ cur[j] > Len(filesToProcess[j])
    /\ pc' = [pc EXCEPT ![j] = "done"]
    /\ UNCHANGED <<repo, ignorePatterns, line, seen, walked, filesToProcess, cur,
                   count, at, size, edits, stored, mixed, torn, partly>>

\* A file without language or chunks, or one that cannot be read, parsed or
\* embedded (or not any more, after the deadline), is passed over.
PassOver(j) ==
    /\ pc[j] = "file" /\ cur[j] <= Len(filesToProcess[j])
    /\ cur' = [cur EXCEPT ![j] = @ + 1]
    /\ UNCHANGED <<repo, ignorePatterns, pc, line, seen, walked, filesToProcess,
                   count, at, size, edits, stored, mixed, torn, partly>>

\* BatchUpsert looks at every chunk before it sends the first.
HasVectors(vectors, n) == \A i \in 1..n : vectors[i] # "empty"

\* One call embeds all chunks of the file; a vector may come back empty, and
\* then no chunk of the file is stored.
ProcessFile(j) ==
    LET f == filesToProcess[j][cur[j]] IN
    /\ pc[j] = "file" /\ cur[j] <= Len(filesToProcess[j])
    /\ f \in Supported /\ size[f] > 0
    /\ \E vectors \in [1..size[f] -> {"vector", "empty"}] :
         IF HasVectors(vectors, size[f])
         THEN /\ pc' = [pc EXCEPT ![j] = "upsert"]
              /\ count' = [count EXCEPT ![j] = size[f]]
              /\ at' = [at EXCEPT ![j] = 0]
              /\ UNCHANGED cur
         ELSE cur' = [cur EXCEPT ![j] = @ + 1] /\ UNCHANGED <<pc, count, at>>
    /\ UNCHANGED <<repo, ignorePatterns, line, seen, walked, filesToProcess, size,
                   edits, stored, mixed, torn, partly>>

BatchEnd(j) == Lesser(at[j] + BatchSize, count[j])
Batch(j) == {<<filesToProcess[j][cur[j]], i>> : i \in at[j] + 1 .. BatchEnd(j)}

NextFile(j) ==
    /\ pc' = [pc EXCEPT ![j] = "file"]
    /\ cur' = [cur EXCEPT ![j] = @ + 1]

\* A batch is accepted as a whole.
UpsertBatch(j) ==
    /\ pc[j] = "upsert"
    /\ stored' = stored \cup Batch(j)
    /\ at' = [at EXCEPT ![j] = BatchEnd(j)]
    /\ IF BatchEnd(j) < count[j] THEN UNCHANGED <<pc, cur>> ELSE NextFile(j)
    /\ UNCHANGED <<repo, ignorePatterns, line, seen, walked, filesToProcess, count,
                   size, edits, mixed, torn, partly>>

\* Mutant: After a failed batch the next one is tried.
UpsertGoesOn(j) ==
    /\ pc[j] = "upsert"
    /\ \E some \in SUBSET Batch(j) : stored' = stored \cup some
    /\ at' = [at EXCEPT ![j] = BatchEnd(j)]
    /\ IF BatchEnd(j) < count[j] THEN UNCHANGED <<pc, cur>> ELSE NextFile(j)
    /\ UNCHANGED <<repo, ignorePatterns, line, seen, walked, filesToProcess, count,
                   size, edits, mixed, torn, partly>>

\* Some items fail, or the answer is lost: the rest of the file is given up.
UpsertBatchFails(j) ==
    /\ pc[j] = "upsert"
    /\ \E some \in SUBSET Batch(j) : stored' = stored \cup some
    /\ NextFile(j)
    /\ UNCHANGED <<repo, ignorePatterns, line, seen, walked, filesToProcess, count,
                   at, size, edits, mixed, torn, partly>>

\* The server removes no more than its query limit, perhaps not every object it
\* finds, and reports success; with an error too some objects may be gone.
DeleteByRepoID(r) ==
    \E gone \in SUBSET ChunksOf(r) :
      /\ Cardinality(gone) <= MaxDelete
      /\ stored' = stored \ gone
      /\ torn' = torn \cup {j \in Jobs : repo[j] = r /\ Running(j)}
      /\ partly' = IF gone = ChunksOf(r) THEN partly \ {r} ELSE partly \cup {r}
      /\ UNCHANGED <<repo, ignorePatterns, jobVars, size, edits, mixed>>

DeleteIndex(r) == ChunksOf(r) # {} /\ DeleteByRepoID(r)

\* A file of the directory changes.
Edit(f) ==
    /\ edits < MaxEdits
    /\ \E n \in Sizes[f] \ {size[f]} : size' = [size EXCEPT ![f] = n]
    /\ edits' = edits + 1
    /\ UNCHANGED <<repo, ignorePatterns, jobVars, stored, mixed, torn, partly>>

JobStep(j) ==
    \/ ResetPatterns(j) \/ ReadLine(j) \/ AppendPattern(j) \/ StartWalk(j)
    \/ Walk(j) \/ TornRead(j) \/ EndWalk(j) \/ EndIndex(j) \/ PassOver(j)
    \/ ProcessFile(j) \/ UpsertBatch(j) \/ UpsertBatchFails(j)

Next ==
    \/ \E j \in Jobs : Index(j) \/ JobStep(j)
    \/ \E r \in Repos : DeleteIndex(r)
    \/ \E f \in Files : Edit(f)

Spec == Init /\ [][Next]_vars

-----------------------------------------------------------------------------
TypeOK ==
    /\ repo \in [Jobs -> Repos]
    /\ ignorePatterns \in Seq(Patterns)
    /\ pc \in [Jobs -> PCs]
    /\ line \in [Jobs -> Nat] /\ walked \in [Jobs -> Nat]
    /\ seen \in [Jobs -> Seq(Patterns)]
    /\ filesToProcess \in [Jobs -> Seq(Files)]
    /\ cur \in [Jobs -> Nat] /\ count \in [Jobs -> Nat] /\ at \in [Jobs -> Nat]
    /\ size \in [Files -> Nat] /\ edits \in 0..MaxEdits
    /\ stored \subseteq Files \X Nat
    /\ mixed \subseteq Jobs /\ torn \subseteq Jobs /\ partly \subseteq Repos

Own(r) == {f \in Files : ~shouldIgnore(Gitignore[r], f)}
Kept(r) == Filter(Tree[r], Own(r))

\* A job that had the slice to itself from its reset to the end of its walk
\* processes exactly the files its own .gitignore admits, in order: nothing of
\* an earlier job's patterns is left (loadGitIgnore, shouldIgnore).
OwnPatternsAlone ==
    \A j \in Jobs \ mixed :
        pc[j] \in {"file", "upsert", "done"} =>
            filesToProcess[j] = Kept(repo[j])

\* No file of the repository's directory is in another one's as well.
Apart(r) == \A q \in Repos \ {r} : FilesOf(q) \cap FilesOf(r) = {}

\* A file is in the store up to some batch: if a chunk is there, so are all of
\* the batches before it, unless the repository was deleted under the job or
\* the last deletion left a remainder (BatchUpsert stops at the first batch that
\* fails).
BatchesInOrder ==
    \A j \in Jobs, f \in Files :
        /\ f \in FilesOf(repo[j]) /\ Apart(repo[j])
        /\ \A k \in Jobs : repo[k] = repo[j] => k \notin torn
        /\ repo[j] \notin partly
        => \A c \in stored : c[1] = f =>
             \A i \in 1 .. ((c[2] - 1) \div BatchSize) * BatchSize :
                <<f, i>> \in stored

\* What .gitignore names never reaches the vector store (the diagnosis of
\* missing chunks in the README has the reader look there).
IgnoredStaysOut ==
    \A j \in Jobs : \A f \in FilesOf(repo[j]) :
        shouldIgnore(Gitignore[repo[j]], f) => \A c \in stored : c[1] # f
=============================================================================
