---------------------------- MODULE OllamaProofs ----------------------------
(***************************************************************************)
(* Proofs about what the server does with the models of Ollama, for every  *)
(* number of models, repositories, files and requests.                     *)
(*                                                                         *)
(* EmbeddingModel: no chunk is forgotten by a change of the model, and the *)
(* model's name is the client's unless two changes overlap.                *)
(* ModelDiscovery: more models make no recommendation worse.               *)
(***************************************************************************)
EXTENDS OllamaParts, TLAPS

USE ModelAssumption, BoundAssumption

-----------------------------------------------------------------------------
(* Types, and where each job is.                                           *)

\* A job holds a vector only for a file of its loop, and one that has not
\* begun will begin with the first.
JobsInPlace ==
    \A j \in Jobs :
        /\ jobPc[j] = "upsert" => jobNext[j] \in Files
        /\ jobPc[j] \in {"none", "find"} => jobNext[j] = 1

\* A call has no job before its last step.
JobsAreNew ==
    \A j \in Jobs :
        callPc[j[1]] \in {"idle", "set_client", "set_model", "config", "list"}
            => jobPc[j] = "none"

Shape == TypeOK /\ JobsInPlace /\ JobsAreNew

LEMMA InitShape == Init => Shape
<1> SUFFICES ASSUME Init PROVE Shape
  OBVIOUS
<1>1. torn \in BOOLEAN
  BY Zenon DEF Init
<1>2. TypeOK
  BY <1>1 DEF Init, TypeOK
<1>3. JobsInPlace /\ JobsAreNew
  BY DEF Init, JobsInPlace, JobsAreNew, Jobs
<1> QED BY <1>2, <1>3 DEF Shape

\* The steps of a call leave its jobs alone, but for the one that starts them.
LEMMA CallShape ==
    ASSUME Shape, NEW c \in Calls,
           \/ \E m \in Models : Keep(c, m) \/ Change(c, m)
           \/ Refuse(c) \/ \E r \in Repos : Reindex(c, r)
           \/ CallStep(c)
    PROVE  Shape'
<1> USE DEF Shape, TypeOK, JobsInPlace, JobsAreNew, StepCall, StepJob
<1>1. ASSUME NEW m \in Models, Keep(c, m) \/ Change(c, m) PROVE Shape'
  <2>1. CASE Keep(c, m)
    BY <2>1 DEF Keep, jobVars, budget
  <2>2. CASE Change(c, m)
    BY <2>2 DEF Change, jobVars, budget
  <2> QED BY <1>1, <2>1, <2>2
<1>2. CASE Refuse(c)
  BY <1>2 DEF Refuse, jobVars, budget
<1>3. ASSUME NEW r \in Repos, Reindex(c, r) PROVE Shape'
  <2>1. <<c, r>> \in Jobs
    BY DEF Jobs
  <2>2. \A j \in Jobs : j # <<c, r>> => jobPc'[j] = jobPc[j]
    BY <1>3 DEF Reindex
  <2>3. TypeOK'
    BY <1>3, <2>1 DEF Reindex, budget
  <2>4. JobsInPlace'
    BY <1>3, <2>1, <2>2 DEF Reindex
  <2>5. JobsAreNew'
    BY <1>3, <2>1, <2>2 DEF Reindex, Jobs
  <2> QED BY <2>3, <2>4, <2>5
<1>4. CASE SetClient(c)
  <2>1. torn' \in BOOLEAN
    BY <1>4, Zenon DEF SetClient
  <2> QED BY <1>4, <2>1 DEF SetClient, jobVars, budget
<1>5. CASE SetName(c)
  BY <1>5 DEF SetName, jobVars, budget
<1>6. CASE SetConfig(c)
  BY <1>6 DEF SetConfig, jobVars, budget
<1>7. CASE ReindexAll(c)
  <2>1. PICK listed \in Lists : StartJobs(c, listed)
    BY <1>7 DEF ReindexAll
  <2>2. excused' \subseteq Chunks
    BY <1>7 DEF ReindexAll
  <2> QED BY <1>7, <2>1, <2>2 DEF ReindexAll, StartJobs, budget, Jobs
<1>8. CASE ListFails(c)
  BY <1>8 DEF ListFails, Fault, jobVars
<1> QED
  BY <1>1, <1>2, <1>3, <1>4, <1>5, <1>6, <1>7, <1>8 DEF CallStep

LEMMA JobShape ==
    ASSUME Shape, NEW j \in Jobs, JobStep(j) PROVE Shape'
<1> USE DEF Shape, TypeOK, JobsInPlace, JobsAreNew, StepJob, Files
<1>1. jobNext[j] \in Files => AtChunk(j) \in Chunks
  BY DEF AtChunk, Chunks, Jobs
<1>2. jobPc[j] # "none"
  BY DEF JobStep, Find, FindFails, Embed, Upsert, Rejected, SkipFile, End
<1>3. callVars' = callVars /\ torn' = torn
  BY DEF JobStep, Find, FindFails, Embed, Upsert, Rejected, SkipFile, End,
         NextFile
<1>4. CASE Find(j)
  BY <1>4, <1>2, <1>3 DEF Find, callVars, budget
<1>5. CASE FindFails(j)
  BY <1>5, <1>2, <1>3 DEF FindFails, Fault, callVars
<1>6. CASE Embed(j)
  BY <1>6, <1>2, <1>3 DEF Embed, callVars, budget
<1>7. CASE Upsert(j)
  BY <1>7, <1>1, <1>2, <1>3 DEF Upsert, NextFile, callVars
<1>8. CASE Rejected(j)
  BY <1>8, <1>1, <1>2, <1>3 DEF Rejected, NextFile, callVars
<1>9. CASE SkipFile(j)
  BY <1>9, <1>1, <1>2, <1>3 DEF SkipFile, NextFile, Fault, callVars
<1>10. CASE End(j)
  BY <1>10, <1>2, <1>3 DEF End, callVars, budget
<1> QED
  BY <1>4, <1>5, <1>6, <1>7, <1>8, <1>9, <1>10 DEF JobStep

LEMMA StepShape == Shape /\ [Next]_vars => Shape'
<1> SUFFICES ASSUME Shape, [Next]_vars PROVE Shape'
  OBVIOUS
<1>1. CASE Restart
  <2>1. TypeOK'
    <3>1. /\ callPc' = [c \in Calls |->
                         IF callPc[c] = "idle" THEN "idle" ELSE "failed"]
          /\ jobPc' = [j \in Jobs |->
                        IF jobPc[j] = "none" THEN "none" ELSE "done"]
      BY <1>1 DEF Restart
    <3>2. restarts' \in 0..MaxRestarts
      BY <1>1 DEF Restart, Shape, TypeOK
    <3>3. torn' \in BOOLEAN /\ excused' \subseteq Chunks
      BY <1>1, Zenon DEF Restart
    <3> QED BY <1>1, <3>1, <3>2, <3>3 DEF Restart, Shape, TypeOK
  <2>2. JobsInPlace'
    BY <1>1 DEF Restart, Shape, TypeOK, JobsInPlace
  <2>3. JobsAreNew'
    BY <1>1 DEF Restart, Shape, TypeOK, JobsAreNew, Jobs
  <2> QED BY <2>1, <2>2, <2>3 DEF Shape
<1>2. CASE UNCHANGED vars
  BY <1>2 DEF vars, callVars, jobVars, budget, Shape, TypeOK, JobsInPlace,
              JobsAreNew
<1> QED BY <1>1, <1>2, CallShape, JobShape DEF Next

\* The type of every variable.
THEOREM TypeCorrect == Spec => []TypeOK
<1>1. Shape => TypeOK
  BY DEF Shape
<1> QED BY <1>1, InitShape, StepShape, PTL DEF Spec
-----------------------------------------------------------------------------
(* No chunk is forgotten.                                                  *)

\* What the property asks of one chunk.
Accounted(ch) ==
    vector[ch] # client =>
        \/ \E c \in Calls : Owes(c)
        \/ \E j \in Jobs : Covers(j, ch)
        \/ ch \in excused

LEMMA CallAccounts ==
    ASSUME Shape, NEW ch \in Chunks, Accounted(ch), NEW c \in Calls, CallStep(c)
    PROVE  Accounted(ch)'
<1> USE DEF Accounted, Shape, TypeOK, StepCall, Owes
<1>1. CASE SetClient(c)
  BY <1>1 DEF SetClient
<1>2. CASE SetName(c)
  BY <1>2 DEF SetName
<1>3. CASE SetConfig(c)
  BY <1>3 DEF SetConfig
<1>4. CASE ReindexAll(c)
  \* The call's own job covers the chunk from now on, if List returned its
  \* repository.
  <2> DEFINE j == <<c, ch[1]>>
  <2>1. j \in Jobs /\ j[1] = c /\ j[2] = ch[1]
    BY DEF Jobs, Chunks
  <2>2. PICK listed \in Lists :
             /\ StartJobs(c, listed)
             /\ excused' = excused \cup {x \in Chunks : x[1] \notin listed}
    BY <1>4 DEF ReindexAll
  <2>3. CASE ch[1] \in listed
    <3>1. jobPc'[j] = "find"
      BY <2>1, <2>2, <2>3 DEF StartJobs
    <3>2. Covers(j, ch)'
      BY <2>1, <3>1 DEF Covers
    <3> QED BY <2>1, <3>2
  <2>4. CASE ch[1] \notin listed
    BY <2>2, <2>4
  <2> QED BY <2>3, <2>4
<1>5. CASE ListFails(c)
  BY <1>5 DEF ListFails
<1> QED BY <1>1, <1>2, <1>3, <1>4, <1>5 DEF CallStep

\* A job's step leaves the other jobs as they are.
LEMMA JobAlone ==
    ASSUME Shape, NEW j \in Jobs, JobStep(j)
    PROVE  /\ client' = client /\ callPc' = callPc
           /\ \A i \in Jobs : i # j =>
                 /\ jobPc'[i] = jobPc[i] /\ jobNext'[i] = jobNext[i]
                 /\ jobVec'[i] = jobVec[i]
BY DEF Shape, TypeOK, JobStep, Find, FindFails, Embed, Upsert, Rejected,
       SkipFile, End, NextFile, StepJob, callVars

LEMMA JobAccounts ==
    ASSUME Shape, NEW ch \in Chunks, Accounted(ch), NEW j \in Jobs, JobStep(j)
    PROVE  Accounted(ch)'
<1>1. ASSUME vector[ch] # client, \E c \in Calls : Owes(c)
      PROVE  Accounted(ch)'
  BY <1>1, JobAlone DEF Accounted, Owes
<1>2. ASSUME NEW i \in Jobs, i # j, Covers(i, ch) PROVE Covers(i, ch)'
  BY <1>2, JobAlone DEF Covers
<1>3. ch[1] \in Repos /\ ch[2] \in Files /\ ch = <<ch[1], ch[2]>>
  BY DEF Chunks
\* The job's own cover passes to its next file, unless that is this chunk's.
<1>4. ASSUME Covers(j, ch) PROVE Accounted(ch)'
  <2> USE <1>3, <1>4 DEF Shape, TypeOK, JobsInPlace, Covers, Accounted, StepJob,
          Files
  <2>1. CASE Find(j)
    BY <2>1 DEF Find
  <2>2. CASE FindFails(j)
    BY <2>2 DEF FindFails
  <2>3. CASE Embed(j)
    BY <2>3 DEF Embed
  <2>4. CASE Upsert(j)
    BY <2>4 DEF Upsert, NextFile, AtChunk
  <2>5. CASE Rejected(j)
    BY <2>5 DEF Rejected, NextFile, AtChunk
  <2>6. CASE SkipFile(j)
    BY SMTT(40), <2>6 DEF SkipFile, NextFile, AtChunk
  <2>7. CASE End(j)
    BY <2>7 DEF End
  <2> HIDE <1>3, <1>4 DEF Shape, TypeOK, JobsInPlace, Covers, Accounted,
          StepJob, Files
  <2> QED
    BY <2>1, <2>2, <2>3, <2>4, <2>5, <2>6, <2>7, Zenon DEF JobStep
\* A chunk that is excused, or up to date, stays so or is stored anew.
<1>5. ASSUME ch \in excused \/ vector[ch] = client PROVE Accounted(ch)'
  <2> USE <1>5 DEF Shape, TypeOK, Accounted
  <2>1. CASE Upsert(j)
    BY <2>1, <1>3 DEF Upsert, NextFile, AtChunk
  <2>2. CASE ~Upsert(j)
    BY <2>2 DEF JobStep, Find, FindFails, Embed, Rejected, SkipFile, End,
                NextFile
  <2> QED BY <2>1, <2>2
<1> QED BY <1>1, <1>2, <1>4, <1>5 DEF Accounted

LEMMA StepAccounts ==
    Shape /\ NoForgottenChunk /\ [Next]_vars => NoForgottenChunk'
<1> SUFFICES ASSUME Shape, NoForgottenChunk, [Next]_vars,
                    NEW ch \in Chunks
             PROVE  Accounted(ch)'
  BY DEF NoForgottenChunk, Accounted
<1>1. Accounted(ch)
  BY DEF NoForgottenChunk, Accounted
<1>2. ASSUME NEW c \in Calls,
             \/ \E m \in Models : Keep(c, m) \/ Change(c, m)
             \/ Refuse(c)
      PROVE  Accounted(ch)'
  <2>1. /\ UNCHANGED <<client, vector, jobPc, jobNext, jobVec, excused>>
        /\ \A d \in Calls : Owes(d) => Owes(d)'
    BY <1>2 DEF Keep, Change, Refuse, jobVars, StepCall, Owes, Shape, TypeOK
  <2> QED BY <1>1, <2>1 DEF Accounted, Covers
<1>3. ASSUME NEW c \in Calls, NEW r \in Repos, Reindex(c, r)
      PROVE  Accounted(ch)'
  <2> DEFINE i == <<c, r>>
  <2>1. i \in Jobs /\ jobPc[i] = "none"
    BY <1>3 DEF Reindex, Jobs, Shape, JobsAreNew
  <2>2. /\ UNCHANGED <<client, vector, jobNext, jobVec, excused>>
        /\ \A d \in Calls : Owes(d) => Owes(d)'
    BY <1>3 DEF Reindex, StepCall, Owes, Shape, TypeOK
  <2>3. \A j \in Jobs : Covers(j, ch) => Covers(j, ch)'
    BY <1>3, <2>1, <2>2 DEF Reindex, StepJob, Covers, Shape, TypeOK
  <2> QED BY <1>1, <2>2, <2>3 DEF Accounted
<1>4. CASE Restart
  BY <1>4 DEF Restart, Accounted
<1>5. CASE UNCHANGED vars
  BY <1>1, <1>5 DEF vars, callVars, jobVars, Accounted, Owes, Covers
<1> QED
  BY <1>1, <1>2, <1>3, <1>4, <1>5, CallAccounts, JobAccounts DEF Next

\* However many changes and jobs overlap, a vector of another model than the
\* client's is about to be replaced or a known loss.
THEOREM NothingIsForgotten == Spec => []NoForgottenChunk
<1>1. Init => NoForgottenChunk
  BY DEF Init, NoForgottenChunk
<1> QED BY <1>1, InitShape, StepShape, StepAccounts, PTL DEF Spec

-----------------------------------------------------------------------------
(* The model's name.                                                       *)

\* Unless two changes overlap in SetModel, at most one is between its two
\* assignments, and the client is the one it has set.
OneWriter ==
    ~torn => /\ Writers = {} => model = client
             /\ \A c \in Writers : Writers = {c} /\ target[c] = client

LEMMA StepWriter == Shape /\ OneWriter /\ [Next]_vars => OneWriter'
<1> SUFFICES ASSUME Shape, OneWriter, [Next]_vars PROVE OneWriter'
  OBVIOUS
<1> USE DEF Shape, TypeOK, OneWriter, Writers, StepCall
<1>1. ASSUME NEW c \in Calls, SetClient(c) PROVE OneWriter'
  <2>1. c \notin Writers /\ Writers' = Writers \cup {c}
    BY <1>1 DEF SetClient
  <2>2. target'[c] = client'
    BY <1>1 DEF SetClient
  <2>3. ~torn' => Writers = {}
    BY <1>1, Zenon DEF SetClient
  <2> QED BY <2>1, <2>2, <2>3
<1>2. ASSUME NEW c \in Calls, SetName(c) PROVE OneWriter'
  <2>1. c \in Writers /\ Writers' = Writers \ {c}
    BY <1>2 DEF SetName
  <2>2. UNCHANGED <<torn, client, target>>
    BY <1>2 DEF SetName
  <2>3. ~torn => model' = client'
    BY <1>2, <2>1, <2>2 DEF SetName
  <2> QED BY <2>1, <2>2, <2>3
<1>3. ASSUME NEW c \in Calls,
             \/ \E m \in Models : Keep(c, m) \/ Change(c, m)
             \/ Refuse(c) \/ \E r \in Repos : Reindex(c, r)
             \/ SetConfig(c) \/ ReindexAll(c) \/ ListFails(c)
      PROVE  OneWriter'
  <2>1. UNCHANGED <<torn, client, model>> /\ c \notin Writers
    BY <1>3 DEF Keep, Change, Refuse, Reindex, SetConfig, ReindexAll, ListFails
  <2>2. Writers' = Writers
    BY <1>3 DEF Keep, Change, Refuse, Reindex, SetConfig, ReindexAll, ListFails
  <2>3. \A d \in Writers : target'[d] = target[d]
    BY <1>3, <2>1 DEF Keep, Change, Refuse, Reindex, SetConfig, ReindexAll,
                      ListFails
  <2> QED BY <2>1, <2>2, <2>3
<1>4. ASSUME NEW j \in Jobs, JobStep(j) PROVE OneWriter'
  <2>1. UNCHANGED <<client, model, callPc, target, torn>>
    BY <1>4 DEF JobStep, Find, FindFails, Embed, Upsert, Rejected, SkipFile,
                End, NextFile, callVars
  <2> QED BY <2>1
<1>5. CASE Restart
  <2>1. Writers' = {}
    BY <1>5 DEF Restart
  <2> QED BY <1>5, <2>1 DEF Restart
<1>6. CASE UNCHANGED vars
  BY <1>6 DEF vars, callVars
<1> QED
  BY <1>1, <1>2, <1>3, <1>4, <1>5, <1>6 DEF Next, CallStep

\* GetCurrentModel names the client's model, overlapping changes apart.
THEOREM NameIsTheClients == Spec => []NameMatchesClient
<1>1. Init => OneWriter
  BY DEF Init, OneWriter, Writers
<1>2. OneWriter => NameMatchesClient
  BY DEF OneWriter, NameMatchesClient
<1> QED BY <1>1, <1>2, InitShape, StepShape, StepWriter, PTL DEF Spec

-----------------------------------------------------------------------------
(* The recommendations of ModelDiscovery.                                  *)

Recommended == {"embedder", "planner", "coder"}

\* Each recommendation is one of the best of the candidates it was made from.
DiscoveryInv ==
    /\ installed \subseteq Library /\ known \subseteq Library
    /\ DOMAIN recommended = Recommended
    /\ \A r \in Recommended :
          recommended[r] \in Discovery!Choices(r, known) \cup {Discovery!NoModel}

LEMMA ScoreIsInteger ==
    ASSUME NEW r \in Recommended, NEW m PROVE Discovery!Score(r, m) \in Int
BY DEF Recommended, Discovery!Score, Discovery!ScoreEmbedder, Discovery!ScorePlanner,
       Discovery!ScoreCoder, Discovery!Points

LEMMA DiscoveryInit == Discovery!Init => DiscoveryInv
BY DEF Discovery!Init, DiscoveryInv, Discovery!NoRecommendations, Discovery!Roles,
       Recommended, Discovery!NoModel

LEMMA DiscoveryStep == DiscoveryInv /\ [Discovery!Next]_(Discovery!vars)
  => DiscoveryInv'
<1>. SUFFICES ASSUME DiscoveryInv, [Discovery!Next]_(Discovery!vars)
              PROVE DiscoveryInv'
  OBVIOUS
<1>. USE DEF DiscoveryInv
<1>1. CASE Discovery!DiscoverModels
  BY <1>1 DEF Discovery!DiscoverModels, Recommended
<1>2. CASE Discovery!DiscoverFails
  BY <1>2
  DEF Discovery!DiscoverFails, Discovery!NoRecommendations, Discovery!Roles,
      Recommended
<1>3. ASSUME NEW m \in Library, Discovery!Change(m) PROVE DiscoveryInv'
  BY <1>3 DEF Discovery!Change, Discovery!Choices, Discovery!Candidates
<1>4. CASE UNCHANGED Discovery!vars
  BY <1>4 DEF Discovery!vars
<1>. QED
  BY <1>1, <1>2, <1>3, <1>4 DEF Discovery!Next

\* A recommendation out of more models, with one of the role among the fewer.
LEMMA NoWorse ==
    ASSUME DiscoveryInv, NEW r \in Recommended, NEW new,
           known \subseteq installed, Discovery!OfRole(r, known) # {},
           recommended[r] # Discovery!NoModel,
           new \in Discovery!Choices(r, installed)
    PROVE  /\ new # Discovery!NoModel
           /\ Discovery!Score(r, new) >= Discovery!Score(r, recommended[r])
<1>1. recommended[r] \in Discovery!BestOf(r, Discovery!OfRole(r, known))
  BY DEF DiscoveryInv, Discovery!Choices, Discovery!Candidates
<1>2. recommended[r] \in Discovery!OfRole(r, installed)
  BY <1>1 DEF Discovery!BestOf, Discovery!OfRole
<1>3. new \in Discovery!BestOf(r, Discovery!OfRole(r, installed))
  BY <1>2 DEF Discovery!Choices, Discovery!Candidates
<1>4. new \in Library
  BY <1>3 DEF Discovery!BestOf, Discovery!OfRole, DiscoveryInv
<1>5. Discovery!Score(r, recommended[r]) <= Discovery!Score(r, new)
  BY <1>2, <1>3 DEF Discovery!BestOf
<1>. QED
  BY <1>4, <1>5, ScoreIsInteger, DiscoveryAssumption DEF Discovery!NamesAssumption

\* More models do not make a recommendation worse, unless a generalist had it.
THEOREM MoreIsNoWorse == Discovery!Spec => MoreModelsNoWorse
<1>. DEFINE Better ==
       \A r \in DOMAIN recommended :
         /\ known \subseteq known' /\ Discovery!OfRole(r, known) # {}
         /\ recommended[r] # Discovery!NoModel
         => /\ recommended'[r] # Discovery!NoModel
            /\ Discovery!Score(r, recommended'[r]) >= Discovery!Score(r,
                 recommended[r])
<1>1. DiscoveryInv /\ [Discovery!Next]_(Discovery!vars) => [Better]_(Discovery!vars)
  <2>. SUFFICES ASSUME DiscoveryInv, Discovery!Next PROVE Better
    OBVIOUS
  <2>. SUFFICES ASSUME NEW r \in Recommended, known \subseteq known',
                       Discovery!OfRole(r, known) # {},
                       recommended[r] # Discovery!NoModel
                PROVE  /\ recommended'[r] # Discovery!NoModel
                       /\ Discovery!Score(r, recommended'[r])
                          >= Discovery!Score(r, recommended[r])
    BY DEF DiscoveryInv
  <2>1. CASE Discovery!DiscoverModels
    <3>1. known' = installed /\ recommended'[r] \in Discovery!Choices(r, installed)
      BY <2>1 DEF Discovery!DiscoverModels, Recommended
    <3>. QED
      BY <3>1, NoWorse
  <2>2. CASE Discovery!DiscoverFails
    BY <2>2 DEF Discovery!DiscoverFails, Discovery!OfRole
  <2>3. ASSUME NEW m \in Library, Discovery!Change(m)
        PROVE  UNCHANGED recommended
    BY <2>3 DEF Discovery!Change
  <2>. QED
    BY <2>1, <2>2, <2>3, ScoreIsInteger DEF Discovery!Next
<1>. QED
  BY <1>1, DiscoveryInit, DiscoveryStep, PTL
  DEF Discovery!Spec, MoreModelsNoWorse, Discovery!MoreModelsNoWorse

-----------------------------------------------------------------------------
(* The parts together, as the run checks them.                             *)

\* A behaviour of the parts is one of each of them.
THEOREM PartsAreComponents == PartsSpec => Spec /\ Discovery!Spec
<1>1. PartsInit => Init /\ Discovery!Init
  BY DEF PartsInit, DiscoveryAtRest, Discovery!Init
<1>2. [PartsNext]_<<part, vars, discoveryVars>> =>
        [Next]_vars /\ [Discovery!Next]_(Discovery!vars)
  <2>1. UNCHANGED discoveryVars => UNCHANGED Discovery!vars
    BY DEF discoveryVars, Discovery!vars
  <2>. QED
    BY <2>1 DEF PartsNext
<1>. QED
  BY <1>1, <1>2, PTL DEF PartsSpec, Spec, Discovery!Spec

\* Whatever part a behaviour of the run explores, the properties of both hold.
THEOREM PartsAreSafe ==
    PartsSpec => [](NoForgottenChunk /\ NameMatchesClient) /\ MoreModelsNoWorse
BY PartsAreComponents, NothingIsForgotten, NameIsTheClients, MoreIsNoWorse, PTL
=============================================================================
