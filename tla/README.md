# CodeRefinery in TLA+

CodeRefinery is a Go server for semantic code search. A client uploads a
repository as a zip or registers a directory of the server; a background
goroutine walks its files, cuts them into chunks, has Ollama embed them and
stores chunk and vector in Weaviate. Searches embed the query and look for
similar vectors, through a cache in memory and in Redis. An agent answers chat
requests from search results and a language model. Accounts are in Postgres.

This directory models the parts of the server whose correctness depends on
order, overlap or failure, checks small instances with TLC and proves their
safety properties with TLAPS for all sizes. `PROJECT.json` lists components,
runs, mutants, hazards and theorems, and maps each definition to the lines of
code it models.

## Inventory

| Component | State it keeps | Operations | Interacts with |
|---|---|---|---|
| Repository service (`internal/core/services/repo_service.go`) | none but its goroutines, each with a `*Repository` of its own | `Create`, `Delete`, `Reindex`, `runIndexing` | repository store, indexer, disk; called by the resolvers |
| Resolvers (`graph/schema.resolvers.go`) | the request; `Config` in memory | upload, create, reindex, delete, setEmbeddingModel, register, login, search | all services |
| Repository store (`internal/adapters/storage/weaviate/repo_store.go`) | class `Repository` in Weaviate | `Save` (create, then update on conflict), `FindByID`, `FindAll`, `Delete` | Weaviate |
| Indexer (`internal/adapters/indexer/indexer.go`) | one `ignorePatterns` slice for all jobs | `Index`, `DeleteIndex`, `DeleteAllIndices` | parsers, embedder, vector store, disk |
| Vector store (`internal/adapters/vectordb/weaviate.go`) | chunk class in Weaviate, ids from path and line | `BatchUpsert`, `DeleteByRepoID`, `SearchSimilar` | Weaviate |
| Embedder (`internal/infrastructure/llm/ollama.go`) | client, model name, breaker | `Embed`, `EmbedBatch`, `SetModel`, `ListModels` | Ollama |
| Circuit breaker (`internal/infrastructure/resilience/circuit_breaker.go`) | gobreaker's state, counts and generation | `Execute` | wraps each embedding request |
| Searcher and cache (`internal/search/searcher.go`, `internal/infrastructure/cache/service.go`) | memory cache per process, Redis shared | `Search`, `Get`, `Set` | embedder, vector store |
| Authentication (`auth_service.go`, `user_store.go`, `jwt.go`, middleware) | `users` table | `Register`, `Login`, `Me` | Postgres |
| Agent (`internal/agent`) | one execution | `Execute` in three modes, complexity analysis | searcher, Ollama |
| Parsers (`internal/adapters/indexer/parser`) | none | `Parse` by braces, indentation, tags, lines; Go AST | called by the indexer |
| GraphQL server (`graph/generated.go`) | the goroutines and the counters of one operation | `Query`, `Mutation`, field and list marshalling | the resolvers |
| Model discovery (`internal/adapters/ollama/discorvery.go`) | none | `DiscoverAndClassifyModels` | Ollama; no route leads to it yet |
| Configuration (`internal/config/config.go`) | the loaded `Config` | `LoadConfig` | file, environment |
| Process start (`cmd/refinery/main.go`) | the Weaviate schema, shared by all processes | `main`, `ensureSchema` | all of the above |
| Observability, web UI, migrations, `pkg` | none that the rest reads | | |

What is hard about them, and what makes each correct:

* **Repository service.** Requests answer before the work is done. Jobs of one
  repository overlap with each other, with its deletion and with the end of the
  process; every remote call may fail or lose its answer, and most errors are
  dropped. Correct means: a record that waits for indexing has someone working
  on it; what is deleted stays deleted; directories and records live and die
  together; what a complete pass has indexed is all there and stays; and
  repositories damage each other's chunks only where they share files.
* **Circuit breaker.** Calls outlast the generation that admitted them. Correct
  means: each result is counted once and in its own generation, an open breaker
  fails fast, a half-open one lets few calls through and closes only on enough
  successes of its own period, and is never stuck.
* **Search cache.** Nothing is invalidated, entries are copied from Redis to
  memory with a new lifetime, and reads and writes of a search are separate
  steps. Correct means: answers have a bounded age and become current when the
  index no longer changes.
* **Embedding model.** Two unlocked assignments, an index that cannot hold
  vectors of two lengths, jobs that mix old and new clients. Correct means: no
  chunk is left behind with a vector of another model, or it is known why.
* **Authentication.** Registration looks, hashes for a second, and upserts by
  name; every error of the look counts as "not found". Correct means: an account
  keeps its id, tokens lead to their account, and only registrations that
  overlapped can overwrite a password.
* **Agent.** Up to four calls in a row, each of which may fail, in three modes
  that a score or the client chooses. Correct means: a success stands for the
  whole pipeline of its mode, code that was paid for is not lost, and what is
  found to need a plan gets one.
* **Parsers.** Loops with 0-based starts, 1-based results, and cuts before or
  after the line. Correct means: chunks tile the file, nothing but a short tail
  is lost, and blocks and signatures stay together.
* **Indexer.** All jobs share one slice of ignore patterns without a lock; a
  file's chunks go to the store in batches, each of which may fail; a deletion
  may remove only a part. Correct means: a job processes what its
  own `.gitignore` admits, and a file is stored up to some batch.
* **Go parser.** The lines come from one reading of the file and the content from
  another. Correct means: a file that stood still is found as it is.
* **Repository store.** One `Save` is two requests, whose answers may be lost.
  Correct means: to its callers it is a register, written and read as a whole.
* **Vector search.** A score becomes a distance and is cut and compared several
  times. Correct means: the best eligible chunks, best first.
* **GraphQL server.** Fields and elements end in any order. Correct means: the
  answer depends on what failed and not on the order, mutations take effect as
  written, and there is always an answer.
* **Process start.** Several processes ask for a class and create it. Correct
  means: none serves without the schema, and somebody gets through.
* **Configuration.** Three sources are merged, silently. Correct means: production
  never starts on a default that nobody has set.
* **Model discovery.** Roles come from names, and recommendations fall back on
  generalists. Correct means: more models do not make a recommendation worse.

## Modules

| Module | What it is |
|---|---|
| `RepositoryService` | upload, create, delete, reindex and `runIndexing` over records, chunks and directories, with failures, deadlines and crashes |
| `RepositoryCatalog` | abstract specification of it: the statuses clients see and who may change them |
| `RepositoryStore` | `Save`, `FindByID`, `FindAll` and `Delete`, request by request |
| `RecordRegister` | abstract specification of it: a register that calls read and write as a whole |
| `Indexing` | `Index` and `DeleteIndex`: shared patterns, walk, files, batches |
| `GoParser` | a Go file that is edited while it is parsed and stored |
| `Chunker` | the three line-by-line strategies of the universal parser |
| `SearchCache` | `Searcher.Search` over the two-tier cache of several servers |
| `VectorSearch` | a search that misses the cache, from the limit to the ranked results |
| `CircuitBreaker` | gobreaker as configured, with the embedder's calls |
| `EmbeddingModel` | `SetEmbeddingModel`, the embedder's client and the jobs that follow |
| `ModelDiscovery` | roles and recommendations of the models Ollama has |
| `Registration` | register, login and me over the users table |
| `AgentPipeline` | `/chat`: the choice of the mode and the stages of `Execute` |
| `GraphQLExecution` | how the generated server executes an operation and what it answers |
| `Configuration` | `LoadConfig`: which value wins and when a server refuses to start |
| `Startup` | `main` up to the socket, for several processes over one Weaviate |
| `Prefixes` | sums and filters of a sequence's first elements, for loops that the proofs follow |
| `DatabaseParts`, `EndpointParts`, `IndexerParts`, `OllamaParts`, `SearchParts` | the components of one area side by side |
| `MC*` | sample values, bounds and symmetry for TLC |
| `*Proofs` | the theorems about the components of an area, and their proofs |
| `SequenceLemmas` | induction, and what it says of `Prefixes` |

`RepositoryService` and `CircuitBreaker` are checked on their own. A `*Parts`
module EXTENDS one component of an area and instantiates the others, with a
variable `part` that a behaviour never changes: `PartsSpec` explores the part it
names, while the others stay at rest, and `FairPartsSpec` adds the fairness of
the area's liveness properties. The components of such a module do not interact
in the model, so that the state space is the sum of the parts and not their
product; where components do interact, one module has them both (records,
chunks, directories and jobs in `RepositoryService`; client, jobs and vectors in
`EmbeddingModel`; memory, Redis and index versions in `SearchCache`). The MC
modules extend these and hold no behaviour of their own, so that the proofs and
the runs are about the same specifications.

### RepositoryService

A call is a request being served, a job a `go s.runIndexing(repo)` goroutine;
both are slots that become idle again. `store` is the status of each record in
Weaviate, `vstore` the owner (`repo_id`) of each file's chunk, `disk` the
directories and files that exist. A chunk's id hashes path and line
(`parser/go.go:215`) and not the repository, and `createRepository` takes any
directory (`repo_service.go:40`). So files are paths, `FilesIn` is what a walk of
a directory comes to and `Under` what is inside it: the walks of a directory and
of one inside it come to the same files, whose chunk belongs to the repository
that stored it last. Only uploads have directories apart (`UploadDirAssumption`),
because a fresh uuid names them. A file has one chunk.

`DropIndex` is one batch delete, which removes no more than `MaxDelete` objects;
a repository that has more keeps the rest, and `excess` remembers it.
`DropIndexFails` may have removed any part, and is also the delete that fails for
single objects, which only the response tells. `os.RemoveAll` may fail too, in
`Delete` and in the clean-ups of `UploadRepository`, and leave a directory with
some of its contents.

Each remote or disk call is a step, and has a variant that fails, bounded by
`MaxFaults`; for `Save` and `Delete` the failing variant may have taken effect
all the same, as an answer can be lost. `Save` is two steps, create and update,
as in `repo_store.go:84-99`. Storing the record, answering and starting the
goroutine are one step in the model: the goroutine's first step may come
arbitrarily later, which gives the same behaviours. The same holds for
`Reindex`, whose `FindByID` and `go` are one step.

| Code | Actions |
|---|---|
| `UploadRepository` | `UploadStart`, `Unpacked`, `UploadFails`, then as `Create` |
| `CreateRepository`, `Create` | `CreateStart`, `CreateSaved`, `CreateFails` |
| `Delete` | `DeleteStart`, `DropIndex(Fails)`, `RmFiles`, `DropRecord(Fails)` |
| `Reindex` | `Reindex` |
| `runIndexing` | `MarkCreate`, `MarkUpdate`, `MarkFails`, `Walk`, `Embed`, `Upsert`, `SkipFile`, `IndexDone`, `FinalCreate`, `FinalUpdate`, `FinalFails` |
| the 30-minute context | `Expire` |
| the process dies | `Crash` |

`SkipFile` needs no fault budget: a file may fail to parse or to embed at any
time. `Status` has no "error", since `Index` never returns an error when the
walk does not, and the walk function always returns nil.

History variables record, for properties only, what is known to have gone
wrong: `stranded` (a record whose job is lost), `litter` (a directory a failed
or crashed call left), `overlapped` (deletions during which a job was there),
`settled` (repositories deleted without such an overlap), `excess`
(repositories with more chunks than one batch delete removes), `complete`
(repositories whose last pass stored everything).

`RepositoryCatalog` keeps the record's status, whether anyone works on the
repository, whether its registration is decided, and which records are lost.
The refinement maps these to `store`, `Working`, `Known` and `stranded`. It
fixes, for example, that only a job reports ready, that a status changes only
while someone works on the repository, and that a refused registration has no
job.

### CircuitBreaker

One action per call of gobreaker's `beforeRequest` (`Admit`, `AdmitRenewed`,
`Reject`) and `afterRequest` (`Report`, `ReportStale`, `ReportRenewed`). Time
advances in ticks and `remain` counts those left of the generation. Generation
numbers are compared only for equality, so the model keeps the set `current` of
running calls that belong to the present generation. `gobreaker` itself is a
library: its transitions are marked external, its settings and uses are mapped.

### SearchCache

One cache key stands for all, since entries of different keys never meet. The
result of a search is the version of the index it was read from. Each server
has a mode, as `NewHybridCache` may return a cache with Redis, without it, a
disabled one, or nil with an error. An entry carries its remaining life and, for
the properties, its age since it was read from the index. `Latency` is an
assumption: a search takes at most that many ticks, and without some such limit
no bound on the age exists; the code has none of its own.

### EmbeddingModel

Calls run once; call c's job for repository r is `<<c, r>>`. `client`, `model`
and `config` are the three variables `SetEmbeddingModel` assigns one by one.
`CurrentModel` and `SetName` allow every outcome of the race on the name, a Go
string of two words. A chunk is the model that computed its vector; Weaviate
fixes the length of vectors with the first one and rejects others (external).
`ReindexAll` starts the jobs of the repositories that `List` answered with, which
are some `ListLimit` of them when there are more (1000 in `FindAll`,
`repo_store.go:149`). `excused` collects the chunks whose recomputation is known
to be lost since the last change of the client, those of repositories beyond the
limit among them.

### Registration

Each client has one request at a time, and each query, hash and comparison is a
step. `Upsert` is `INSERT ... ON CONFLICT(username) DO UPDATE`: an existing row
keeps its id and gets the new hash. `SaveUnknown` is a save whose answer is lost.
`CheckFails` is the query whose error `Register` takes for a free name. A token
is the `UserID` in its claims; an expired one is a failed request. `excused`
records, for `PasswordsStay`, that the name was free when the request came or
could not be looked up.

### AgentPipeline

One execution at a time, as executions share nothing but stateless services. A
query is reduced to what the analyzer finds in it: its length class, whether a
simple and a complex pattern match, the number of keywords, an architectural
keyword. Of these "CQRS" is apart: it is compared with the lowercased query and
never found (`HasArchitectKeyword`), so that `ArchitectureIsPlanned` speaks of
the others only. `Score` keeps the weights and thresholds of `complexity.go`.
`Retrieve`, `Plan`, `Code` and `Validate` are calls that succeed, `Fail` is any of them that
does not. A completion may be empty without an error (`provider.go:39-50`), and
then so is the answer: `output` tells "none", when no stage has set it, from
"empty" and "code". `forced_mode` may be a string that is no mode.

### Chunker

A line is its length, what it adds to the block depth, its indentation, the
definition it begins and whether it is blank; the patterns that decide this are
data of the language profile. `BlockLine`, `IndentedLine` and `PlainLine` are the
loop bodies of the three strategies, `Finish` what follows the loop. A chunk's
signature is the number of the line it was taken from.

### Indexing

Jobs run `Index` at the same time. The slice is one variable; `append` is two
steps, reading the slice (`ReadLine`) and writing it back (`AppendPattern`), and
a reader that meets a write may judge by a torn slice header: any verdict, or the
death of the process (`Verdicts`, `TornRead`). A file is a number of chunks that
may change between runs (`Edit`). `UpsertBatch` stores a batch, `UpsertBatchFails`
any part of it, after which the rest of the file is given up. `DeleteByRepoID`
removes any part of the repository's chunks, no more than `MaxDelete`, and reports
success, as Weaviate does when it meets its limit or fails for single objects;
nothing is claimed of what it leaves. `mixed`, `torn` and `partly` are history:
which jobs were disturbed in their load or walk, which lost chunks to a deletion,
and which repositories a deletion left a remainder of. `BatchesInOrder` is claimed
for a repository whose directory is its own (`Apart`) and of which no deletion left
a part: where directories overlap, a file's chunks bear the id of the last writer,
and deleting that repository takes them away from the other.

### RepositoryStore and RecordRegister

A caller has one call at a time; a request takes effect when it is answered, and
each effect has a variant whose answer is an error. `Save` is `create`, and on a
conflict `update`. Errors are told apart by their text, whatever their reason:
`CreateFails` goes on to the update for every error that speaks of a conflict, also
when there is no object, and one in which "not found" occurs makes `GetFails` deny a
record that exists and `DeleteFails` report a success (`Overlook` in the register:
"not found" and the answer of `Delete` promise nothing). A record is four fields, one for each
way `repoToProperties` treats a field: always stored, left out when empty, left
out when zero, a map. In `RecordRegister` a call takes effect at one moment
between its beginning and its end; the refinement maps an object to the record
`mapObjectToRepo` makes of it, and both requests of a `Save` to one call.

### GoParser

A version of the file comes with its text and its declarations (Go's parser is
external); a declaration has a kind, its lines and its names, several for
`type ( ... )`. `Parse` is given one version; every `Visit`, one for each name,
reads the file as it then is, and `NextNode` is the traversal going on. Ids are
made of path and first line, so that `Upsert` replaces what has the same line: the
types of one `type ( ... )` group share an id. A store that fails (`StoreFails`) may
have stored any part of the chunks, as `BatchUpsert` keeps the batches before the
failing one; `overwritten` remembers the lines where the version indexed before has
been replaced by half of another.

### VectorSearch

Distances are in hundredths. `Ask` is what the resolver, the agent and
`Searcher.Search` make of a limit, `SearchSimilar` the query with its maximal
distance, the limit, the filter and the second comparison of the score.

### GraphQLExecution

The generated code is 5,000 lines of one pattern per field; the module keeps the
pattern and, as data, the schema: the type of each field and whether null is
excluded. A root field is waited for, resolved, marshalled and done; objects and
list elements are marshalled by goroutines, which the model lets end in any
order. `Invalids` counts the nulls that make the object around them null.

### Configuration

Each key stands for all that the loader treats alike: with a default and checked
(`source`, `jwt_secret`), with a default that switches the checks (`environment`),
without a default (`coder_model`). viper knows the keys of defaults and of the file and
looks in the environment for those only. `DefaultCredentials` are the sources that
contain "secret@localhost", the default and another one. `NothingFallsBack` does not
say that production is private: the password of `docker-compose.yaml:9` and the secret
of `config.yaml:50` are public too and pass the check ("compose" and "published" in
the sample). It says that both have been set by somebody, and that an empty variable
or a file passed over never leads back to the defaults.

### Startup

Each process goes through the stages of `main`. `CheckClass` and `CreateClass`
are the two requests of `ensureSchema`, once for the chunks and once for the
repositories; Weaviate refuses a class that exists. `Kill` may come at any stage.

### ModelDiscovery

A name is the set of words it contains; `ClassifyModel` tries the patterns in the
code's order, `BestOf` is the loop over the models that keeps the best score.

## Runs

| Run | Module | What it shows |
|---|---|---|
| `repo_safety` | `MCRepositoryService` | type, `NoStuck`, `SettledStaysGone`, `NoOrphanDirs`, `CompleteIndexed` and the refinement of `RepositoryCatalog`: one upload with two requests and two jobs at a time, one failing call or one crash, the deadline; `ChunksKept` and the same for a repository registered for a directory and one for a directory inside it, whose batch deletes meet the limit |
| `repo_liveness` | `MCRepositoryService` | `Settles`: what waits for indexing ends up ready or deleted, or lost for a reason that `NoStuck` names |
| `breaker` | `CircuitBreaker` | counts, probes, closing and `Recovers`, with the production settings and four callers |
| `ollama` | `MCOllama` | `NoForgottenChunk`, `NameMatchesClient`, `Replaced` for two overlapping model changes and two repositories, of which `List` returns one; `MoreModelsNoWorse` for nine models of which two are pulled or removed |
| `search` | `MCSearch` | `BoundedStaleness`, `Converges` for two servers sharing Redis; `BestFirst` for every index of three chunks at distances around the thresholds |
| `indexer` | `MCIndexer` | `OwnPatternsAlone`, `BatchesInOrder` for two jobs; `Tiled`, `NothingLost`, `RightSize`, `BlocksAreWhole`, `SignatureIsOwn` for every file of up to five lines out of a sample; `FreshAtItsLines` for a Go file edited up to twice in three runs |
| `endpoints` | `MCEndpoints` | `WholePipeline`, `CodeIsNotLost`, `ArchitectureIsPlanned` for two chat requests; `AnswerAsPrescribed`, `InDocumentOrder` for the web interface's operations and combinations of them; `AllAnswered` for both |
| `databases` | `MCDatabases` | `TokenIsTheAccounts`, `AccountsStay`, `PasswordsStay` for two clients; `ImplementsRegister` for two callers of the repository store; `OneSchema` for two processes started up to three times; `NothingFallsBack` for every mix of file and environment |
| `repo_resurrect` | `MCRepositoryService` | finding: a deletion during indexing is undone by the job |
| `repo_deadline` | `MCRepositoryService` | finding: a job that runs out of time cannot store its outcome |
| `embedding_clear` | `MCEmbeddingModel` | finding: changing to a model with longer vectors replaces nothing |
| `indexing_ignored` | `MCIndexer` | finding: a job that starts while another walks has its ignored files indexed |

**Bounds and why they are enough.** Two jobs and two calls are the least with
which jobs overlap each other and deletions overlap jobs and deletions; the
proofs cover any number, and any mixture of the behaviours that `Bound` in
`MCRepositoryService` keeps apart. A behaviour is about the upload, with one
fault or one crash, which between the behaviours meet every step; or about the
two registered repositories, without faults, with two requests or jobs at a time
and no two jobs of one repository: what they add is a directory inside another,
with a file only
the outer one's walk comes to and one that both come to. Two files and
`MaxDelete` 1 are the least that leave an excess. One file
gives a job of the upload every position it has relative to a chunk (before, holding
it, after). The breaker runs with the real `MaxRequests` (5), minimum (3) and
threshold (3/5), and `MaxCount` 7 admits more calls than any of these; four
callers give results of old generations while the half-open budget is used up
by calls of the new one. In the cache, two servers are needed for an entry to
reach a memory cache by way of Redis; a TTL of two ticks leaves one tick in
which an entry is old but alive. For the model change two repositories exceed
`ListLimit` 1, and two files let a job be before, at and after a chunk while the model changes; three
models give an equal and a different vector length. Three
requests of two clients are two registrations of one name and a login or
registration that meets their outcome. For the agent three keywords are enough to make a request complex by
themselves, and a second request meets the state the first one left. For the chunker
the sizes 2 and 4 stand for 50 and 2000 and the lines are 1, 2 or 5 long, so
that chunks end below, at and above the limits; five lines hold two chunks and
a tail. For the jobs a batch is two chunks, a long file three, and a deletion
removes up to two, so that there is a second batch and a remainder; the two
repositories' patterns match each other's files. For the search the distances
lie on both sides of both thresholds and beyond the cut at a score of 0, and the limits
below, at and above the safety limit. For the register three calls of each
of two callers let a whole `Save` or `Delete` fall between the two requests of another, and
`ListLimit` 1 is exceeded by two records; two sample records differ in every
field, so that a merge of the two is neither. For the start two processes lose and win the
race for each class; three starts let a loser come back twice. Lists of
up to three elements have a first, a middle and a last.

`CHECK_DEADLOCK FALSE` is set where the system stops: ids, requests and edits are finite
pools, and a file ends. `breaker` has no such end and checks for deadlock.

Every property of a passing run has a mutant of the code's model that breaks it;
the mutants are the definitions commented `Mutant` before the one they change.

**Fairness.** `repo_liveness` assumes weak fairness of each job: the Go
scheduler runs goroutines, and each of a job's remote calls returns, fails, or
is ended by its 30-minute context. It assumes nothing of clients. `breaker`
assumes that time passes, that requests to Ollama return, and (`TrafficSpec`)
strong fairness of each caller's admission: requests keep coming, and not only
at moments when the breaker rejects them; without traffic a half-open breaker
stays as it is. `endpoints` assumes that a chat request's search and
generations answer or fail; the code
sets no deadline for a generation, so that this rests on Ollama, the network, or
the client, whose leaving cancels the request's context. Of the GraphQL server it
assumes that some goroutine of the operation runs as long as one can, which
the Go scheduler does, and that resolvers return. `search` and `ollama` assume
that time passes and that steps of requests and jobs under way are taken. The
invariants and action properties need no fairness.

## Theorems

All proofs hold for all values of the constants that satisfy the named
assumptions: any number of repositories, calls, jobs, files, patterns, lines,
servers, callers, processes and models, and any bounds on faults and crashes.
Every invariant, action property and refinement that a passing run checks is a
theorem.

The theorems are stated for the specification of each component. In the five
areas with a `*Parts` module, `PartsAreComponents` shows that a behaviour of
`PartsSpec` is one of every component, and `PartsAreSafe` concludes that what the
area's run checks, liveness apart, holds of `PartsSpec`.

**Induction over data.** The library's induction theorems have an operator
parameter, which the provers cannot instantiate. `SequenceLemmas` states induction
with a set in the formula's place: a set of numbers with 0 and every successor
is `Nat` (`Induction`), and a nonempty set has a least (`Least`) and, below a bound, a
greatest element (`Greatest`). From it follow the recursion of `Prefixes`
(`SumsStep`, `FiltersStep`), that equal beginnings have equal sums (`SumsAgree`)
and that a filter all elements pass is the identity (`FilterAll`). The
components use `Prefixes` where the code has a loop, and their invariants speak
of what the loop has gathered so far.

* `RepositoryServiceProofs`. The inductive invariant adds to the types where
  calls and jobs are (a job works on a repository exactly while it is not idle;
  a call that uploads works on an issued repository without record), which
  calls may have been overlapped by a job, and how far each `full` job has come:
  the chunks before its position belong to its repository unless another walk
  comes to the file. `Deletion` and `Storing` are what the two kinds of step that
  touch the index do to it. `NoStuck` alone is not inductive because a deletion in progress and
  the second step of `Save` depend on it. Proved: `TypeCorrect`, `NeverStuck`,
  `SettledDeletionIsFinal`, `NoDirectoryIsOrphaned`, `IndexStaysComplete`,
  `ChunksPassOnlyWithTheirFile`, and `Refinement`, which maps each
  action to a step of the catalog or to a stuttering step.
* `CircuitBreakerProofs`. `NoResultIsLost` needs that `current` is finite;
  `ProbesAreBounded` and `ClosingIsEarned` follow from it, since in half-open
  the running calls and the successes together are the admitted requests;
  `OpenFailsFast` (no request while an open breaker's timeout runs, which no run
  repeats) from the guards of admission.
* `IndexerProofs`, jobs. `Jobbed` says where a job is in its loops and that the
  store is finite. `OwnPatternsRule`: unless other jobs wrote the slice meanwhile,
  it holds the patterns of the lines read so far, and the files kept are the
  own filter of those walked so far (`Loaded`); that stays so because whoever
  writes the slice marks the others as `mixed`. `StoredInBatches`: with each chunk of
  a settled repository all chunks of earlier batches are stored, which needs
  that a job stands between two batches (`Whole`) and has everything before stored
  (`Handed`); otherwise its next batch could leave a gap.
* `IndexerProofs`, parsers. `ChunksTileTheFile`, `ChunksHaveTheirSize`,
  `SignaturesAreTheChunks`, `NoTextIsLost` and `BlocksStayWhole` for files of any length:
  one invariant per strategy on the lines gathered so far, with the sums of
  their lengths and depths. `FilesAreFresh`, for Go files: as long as the file
  stands still the chunks are those of its version (`AllFrom`), with one for every
  declaration the traversal has come to (`Covered`); storing them replaces what has
  their lines, the last one winning (`Greatest`), and a store that fails
  replaces at the lines it remembers as `overwritten` only (`FreshIn`).
* `DatabaseProofs`, accounts. `TokensLeadHome` needs that ids are unique, that the
  one about to be saved is new, and that the row being compared is still the
  account's but for its hash. `AccountsAreKept` follows from the upsert alone;
  `PasswordsAreKept` adds that who is past the check was excused there, which
  holds because accounts never disappear.
* `DatabaseProofs`, store. `StoreIsARegister`: every step of `RepositoryStore` is
  one of `RecordRegister` or stutters. It needs `ReadBack`, that a record comes back
  from its object as it was, which `StoreTypes` makes available by saying that
  objects come from records, and that a call's record and id fit its place.
  Errors that are taken for answers are `OverlookMaps`.
* `DatabaseProofs`, start and configuration. `ThereIsOneSchema` has three parts. No
  server without classes: a process at the second class has passed the first
  (`Passed`). Somebody gets through: as soon as a process has lost the race for a
  class or is about to, there is one that has not lost and cannot lose what it
  has begun, to begin with the one that created the class (`SomeoneSafe`). No
  process loses more often than there are classes (`Losses`).
  `ProductionIsConfigured`: what runs was accepted, it is still what the merge of
  the sources makes of them, and a key set in neither has its default
  (`UnsetIsDefault`), which is not accepted.
* `EndpointProofs`. For the agent, the invariant says for each call being waited
  for which stages and output there are; `ArchitectureGetsAPlan` adds
  that 4 outweighs -2 and -3 (`ArchitectIsNotSimple`) and which stages there can be
  before there is an output (`Early`). For GraphQL, `FieldInv`: what a
  field's value can be at each of its stages, that `invalids` is the number of
  nulls that may not be, and that in a mutation whatever precedes a field
  that began is done. `AnswersAreAsPrescribed` and `MutationsRunInOrder` follow.
* `OllamaProofs`. `NothingIsForgotten`: a call that has changed the client and not
  yet started its jobs, or a job that has not passed the chunk, accounts for it,
  or else the listing ended before its repository;
  the invariant adds that a call has no job before its last step.
  `NameIsTheClients`: unless changes overlap, at most one is between the two
  assignments, and the client is its target. `MoreIsNoWorse`: a recommendation is
  one of the best of the models known when it was made (`DiscoveryInv`).
* `SearchProofs`. `StalenessIsBounded`: the invariant bounds age plus remaining life
  of each entry by where it came from, and the age of a result in the hands of a
  search by the search's own duration. `BestAreFoundFirst`: what `NearVector`
  returns are the nearest within the distance (`AreNearest`), and the second
  comparison of the score drops none of them (`FilterAll`).

Only model-checked: the liveness properties `Settles`, `Recovers`, `Converges`,
`Replaced` and `AllAnswered`, since liveness under fairness is beyond the prover,
and the findings, which are counterexamples. What `BoundedStaleness` and
`BatchesInOrder` take as given (`Latency`; `Apart` directories) is said above.
Two properties except the race they are about and so show only that nothing else
goes wrong: `NameMatchesClient` two changes that overlap in `SetModel`, and
`OwnPatternsAlone` jobs whose patterns another one wrote, which `indexing_ignored`
shows.

## Findings

* A deletion while a job is running is undone: the job's `Save` creates the
  record again (`repo_service.go:131`) and `BatchUpsert` stores chunks
  (`repo_resurrect`).
* The outcome of a job that ran into its 30-minute limit is never stored,
  because the write uses the expired context (`repo_deadline`).
* `setEmbeddingModel` deletes no index, and with another vector length nothing
  is replaced (`embedding_clear`).
* Jobs share one slice of ignore patterns, so that files named in `.gitignore`
  are indexed when another job starts meanwhile (`indexing_ignored`).

Seen while modelling, and read in the code rather than checked by a run:

* `Create` returns the pointer its goroutine writes to; the resolver reads
  `Status` and `ErrorMsg` from it without a lock (`repo_service.go:55`).
* `cache.ttl` has no effect on searches: `Search` always passes one hour
  (`searcher.go:63`), and `Set` uses the configured value only for 0.
* After an error of `NewHybridCache`, `main` goes on with a nil cache inside a
  non-nil interface, and every search panics (`nil` mode of `SearchCache`).
* The environment overrides only keys with a default or in the file: those
  of `llm.agent` have no default (`config.go:289`). The tests set variables with
  the prefix `REF_`, the loader reads `REFINERY_`; and they expect an error for
  a missing `database.source`, which has a default (`config_test.go:49`, `:61`).
* `search.default_limit` and `search.max_limit` are never read
  (`schema.resolvers.go:193`), nor are the configured chunk sizes.
* No migration is applied at the start (`main.go:106`), as `README.md:351` says.
* The types of one group share an id, and the last stays (`parser/go.go:133`).
* The parameter size of a model is looked for with a capital B or M, and Ollama's
  names have small ones (`discorvery.go:199`).
* The breaker compares the failure rate only when a call fails: after failure,
  failure, success it stays closed at 67 % (`circuit_breaker.go:43`).
* The block strategy's split by size can never happen (`universal.go:280`): the
  cut before it has the same condition on the depth and a smaller size. The
  indentation strategy gives a chunk the signature of the definition after it
  (`universal.go:317`).
* A query through `FindAll` gets at most 1000 repositories (`repo_store.go:149`):
  any beyond are neither listed nor reindexed after a change of the model.
  `RepositoryStore` and `EmbeddingModel` have the limit (`ListLimit`).
* A deletion leaves chunks behind when there are more than Weaviate's query limit
  or single objects fail, and throws away the counts that would tell, while the
  comment at `weaviate.go:328` says "löscht alle Chunks eines Repositories" and
  `vector_search_test.go:127` "Result should be empty after deletion". The record
  is deleted all the same, so that nothing leads to the remainder any more
  (`excess` of `RepositoryService`).
* A repository of a directory inside another one's takes the chunks of the files
  they share, and its deletion takes them away for both (`parser/go.go:215`).
* An error of Weaviate's client in which "not found" occurs for whatever reason is
  taken for a missing record (`repo_store.go:412`).
* An empty completion is a success: the client gets status 200 without code
  (`agent/service.go:97`).
* The checks for production compare with the defaults only. The repository
  publishes other values that pass: the password of `docker-compose.yaml:9`, where
  the server runs in production, and the secret of `config.yaml:50`, which that
  container mounts. `REFINERY_OLLAMA_BASE_URL` (`docker-compose.yaml:10`) sets no key
  the server knows, and the secret of `README.md:462` is shorter than the 32
  characters the loader asks for.
* An unknown `forced_mode` is a success without code; `EnableRetry` and
  `FallbackModel` are never read; the keyword "CQRS" never matches, as it is
  looked for in lower case (`complexity.go:88`); the README's example of a medium
  request, "Add logging to auth", is short and so takes the fast path.

## Not modelled

* `internal/api/handlers/upload.go` and `projects.go`: they belong to an earlier
  architecture; nothing constructs them and no route leads to them.
* GraphQL introspection, complexity limits, websockets and the HTTP transport:
  gqlgen's library, or reading of static data.
* Signing of tokens and parsing of headers (stateless), metrics, tracing and
  logging beyond the outcome of `InitTracer`, the web UI, `pkg`.
* The contents of files, embeddings and prompts; which line begins a definition.
* Approximate nearest neighbours: `VectorSearch` takes Weaviate's search as exact.

## Plan

Done: the repository service first, since everything else serves it, then
breaker, cache, model change, parsing, agent and accounts; then indexer, Go
parser, repository store, search, GraphQL execution, configuration, start and
model discovery. What would come next:

1. An abstract specification for each of `Registration` (accounts as a set of
   names that only grows) and `SearchCache` (answers no older than a bound), with
   the refinements proved.
2. The safety half of the liveness properties: for `Settles` and `AllAnswered`, that
   every step of a job or a request brings it closer to its end.
3. A composition of `RepositoryService` and `EmbeddingModel`, to see deletions
   and model changes together, and of `SearchCache` with the index versions it
   takes as given.
