----------------------------- MODULE MCEndpoints -----------------------------
(***************************************************************************)
(* Operations for EndpointParts: those of the web interface, and           *)
(* combinations of root fields that it could send in one request.          *)
(***************************************************************************)
EXTENDS EndpointParts

Field(name, sel) == [name |-> name, sel |-> sel]

Repositories == Field("repositories", {"id", "status", "lastIndexed"})
Search == Field("search", {"filePath", "score", "signature"})
MeField == Field("me", {"id", "username"})
LLMInfo == Field("llmInfo", {"currentModel", "availableModels"})
Create == Field("createRepository", {"id", "status", "lastIndexed"})
Upload == Field("uploadRepository", {"id", "errorMsg"})
Delete == Field("deleteRepository", {})
Reindex == Field("reindexRepository", {})
SetModel == Field("setEmbeddingModel", {})
Register == Field("register", {"token", "user"})
Login == Field("login", {"token"})

Reads == {<<Repositories, Search, MeField, LLMInfo>>, <<MeField>>,
          <<Search, Search>>}
Mutations == {<<Create, Delete, Reindex>>, <<Upload, SetModel>>,
              <<Register, Login, Create>>}

SampleOperations == [kind : {"query"}, fields : Reads]
              \cup [kind : {"mutation"}, fields : Mutations]
=============================================================================
