---------------------------- MODULE IndexerParts ----------------------------
(***************************************************************************)
(* The parts of the indexer beside each other: Indexing (jobs over the     *)
(* shared patterns and the store), Chunker (a file cut line by line) and   *)
(* GoParser (a Go file that changes).  They share no state, so a behaviour *)
(* takes steps of one part, with the others at rest.                       *)
(***************************************************************************)
EXTENDS Chunker

CONSTANTS
    Parts,
    Jobs, Repos, Files, Tree, Gitignore, Comment, Patterns, Matches, Excluded,
    Supported, Sizes, BatchSize, MaxDelete, MaxEdits,
    Versions, Invalid, Text, Decls, MaxChanges, MaxRuns

VARIABLES
    part,
    repo, ignorePatterns, pc, line, seen, walked, filesToProcess, cur, count,
    at, size, edits, stored, mixed, torn, partly,
    disk, changes, runs, goPc, parsed, goAt, named, chunks, quiet, goStored,
    indexed, overwritten

jobsVars == <<repo, ignorePatterns, pc, line, seen, walked, filesToProcess,
              cur, count, at, size, edits, stored, mixed, torn, partly>>
goVars == <<disk, changes, runs, goPc, parsed, goAt, named, chunks, quiet,
            goStored, indexed, overwritten>>

Indexer == INSTANCE Indexing
GoFile == INSTANCE GoParser WITH
    MaxEdits <- MaxChanges, pc <- goPc, at <- goAt, edits <- changes,
    stored <- goStored

ASSUME JobsAssumption == Indexer!ConstantsAssumption
ASSUME GoFileAssumption == GoFile!FileAssumption

-----------------------------------------------------------------------------
JobsAtRest ==
    /\ Indexer!Init
    /\ repo = [j \in Jobs |-> CHOOSE r \in Repos : TRUE]
    /\ size = [f \in Files |-> CHOOSE k \in Sizes[f] : TRUE]
ChunkerAtRest == Init /\ strategy = "block"
GoFileAtRest == GoFile!Init /\ Text[disk] = <<>>

PartsInit ==
    /\ part \in Parts
    /\ \/ part = "jobs" /\ Indexer!Init /\ ChunkerAtRest /\ GoFileAtRest
       \/ part = "chunker" /\ Init /\ JobsAtRest /\ GoFileAtRest
       \/ part = "go" /\ GoFile!Init /\ JobsAtRest /\ ChunkerAtRest

PartsNext ==
    \/ part = "jobs" /\ Indexer!Next /\ UNCHANGED <<part, vars, goVars>>
    \/ part = "chunker" /\ Next /\ UNCHANGED <<part, jobsVars, goVars>>
    \/ part = "go" /\ GoFile!Next /\ UNCHANGED <<part, jobsVars, vars>>

PartsSpec == PartsInit /\ [][PartsNext]_<<part, jobsVars, vars, goVars>>

-----------------------------------------------------------------------------
\* A job that had the shared patterns to itself processes exactly the files
\* its own .gitignore admits (loadGitIgnore, shouldIgnore).
OwnPatternsAlone == Indexer!TypeOK /\ Indexer!OwnPatternsAlone

\* A chunk is in the store only with the batches before its own (BatchUpsert).
BatchesInOrder == Indexer!BatchesInOrder

\* What .gitignore names never reaches the vector store.
IgnoredStaysOut == Indexer!IgnoredStaysOut

\* Chunks are as long as their line numbers say, and a file that stood still
\* while it was parsed is found as it is (extractNodeContent, generateID).
FreshAtItsLines ==
    GoFile!TypeOK /\ GoFile!LinesAgree /\ GoFile!FreshAtItsLines
=============================================================================
