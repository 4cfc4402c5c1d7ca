-------------------------- MODULE RepositoryStore --------------------------
(***************************************************************************)
(* RepoStore: repository records kept as Weaviate objects, by callers that *)
(* run at the same time.  Save is two requests: create the object, and if  *)
(* that is refused as a duplicate, replace it.  Reading turns an object's  *)
(* properties back into a record, one object by id or many by a GraphQL    *)
(* query.  A request takes effect on the server between being sent and     *)
(* being answered, and its answer may be an error even so.                 *)
(***************************************************************************)
EXTENDS Integers, FiniteSets

CONSTANTS
    Calls,      \* goroutines that use the store, one call at a time each
    Ids,        \* ids of repositories
    Records,    \* records callers may save: see RecordsAssumption
    MaxOps,     \* bound: calls each goroutine makes
    ListLimit   \* the limit of FindAll's query, 1000 in the code

\* The fields that the store treats differently from each other: one that is
\* always stored, one left out when empty (the error text), one left out when
\* zero (the time of the last indexing), and a map, left out when empty or nil.
Fields == {"status", "error_msg", "last_indexed", "index_config"}
Zero == "zero"
Nil == "nil"
Absent == [f \in {} |-> Zero]    \* no object, and no record

RecordsAssumption ==
    /\ \A r \in Records : DOMAIN r = Fields /\ r["status"] \notin {Zero, Nil}
    /\ MaxOps \in Nat /\ ListLimit \in Nat \ {0}

VARIABLES
    objects,    \* properties of each stored object, or Absent
    pc,         \* where each call is
    op,         \* what it was asked: id and record
    reply,      \* what its last finished call returned
    done        \* calls it has made

vars == <<objects, pc, op, reply, done>>

NoOp == [id |-> Absent, record |-> Absent]
NoReply == [kind |-> "none", value |-> Absent]

-----------------------------------------------------------------------------
\* The properties of a record: empty fields are left out.
repoToProperties(r) ==
    [f \in {"status"} \cup {g \in Fields : r[g] \notin {Zero, Nil}} |-> r[f]]

\* The record of an object: what is missing is zero, and both maps are made.
mapObjectToRepo(p) ==
    [f \in Fields |->
        IF f \in DOMAIN p THEN p[f] ELSE Zero]

\* What a caller may expect to read back: nil maps have become empty ones.
Normal(r) == [f \in Fields |-> IF r[f] = Nil THEN Zero ELSE r[f]]

\* How the errors of the client are told apart, by their text.  422 is also
\* the answer to an object that does not fit the schema.
Errors == {"already exists", "409", "422", "not found", "404", "other"}
isConflictError(e) == e \in {"already exists", "409", "422"}
isNotFoundError(e) == e \in {"not found", "404"}

-----------------------------------------------------------------------------
Init ==
    /\ objects = [i \in Ids |-> Absent]
    /\ pc = [c \in Calls |-> "idle"]
    /\ op = [c \in Calls |-> NoOp]
    /\ reply = [c \in Calls |-> NoReply]
    /\ done = [c \in Calls |-> 0]

Begin(c, label, i, r) ==
    /\ pc[c] = "idle" /\ done[c] < MaxOps
    /\ pc' = [pc EXCEPT ![c] = label]
    /\ op' = [op EXCEPT ![c] = [id |-> i, record |-> r]]
    /\ done' = [done EXCEPT ![c] = @ + 1]
    /\ reply' = [reply EXCEPT ![c] = NoReply]
    /\ UNCHANGED objects

Return(c, kind, value) ==
    /\ pc' = [pc EXCEPT ![c] = "idle"]
    /\ reply' = [reply EXCEPT ![c] = [kind |-> kind, value |-> value]]
    /\ UNCHANGED <<op, done>>

Save(c, i, r) == Begin(c, "create", i, r)

Put(i, r) == objects' = [objects EXCEPT ![i] = repoToProperties(r)]

\* The create request succeeds, or its answer is lost.
Created(c) ==
    /\ pc[c] = "create" /\ objects[op[c].id] = Absent
    /\ Put(op[c].id, op[c].record)
    /\ \/ Return(c, "ok", Absent)
       \/ Return(c, "error", Absent)

\* The object exists already: replace it.
Conflict(c) ==
    /\ pc[c] = "create" /\ objects[op[c].id] # Absent
    /\ pc' = [pc EXCEPT ![c] = "update"]
    /\ UNCHANGED <<objects, op, reply, done>>

\* The create request fails.  An error whose text speaks of a conflict counts
\* as one, whether or not the object exists.
CreateFails(c) ==
    /\ pc[c] = "create"
    /\ \E e \in Errors :
         IF isConflictError(e)
         THEN /\ pc' = [pc EXCEPT ![c] = "update"]
              /\ UNCHANGED <<op, reply, done>>
         ELSE Return(c, "error", Absent)
    /\ UNCHANGED objects

\* Mutant: the update merges its properties into the object (PATCH).
UpdateMerges(c) ==
    LET i == op[c].id
        new == repoToProperties(op[c].record)
    IN  /\ pc[c] = "update" /\ objects[i] # Absent
        /\ objects' = [objects EXCEPT ![i] =
              [f \in DOMAIN new \cup DOMAIN objects[i] |->
                  IF f \in DOMAIN new THEN new[f] ELSE objects[i][f]]]
        /\ \/ Return(c, "ok", Absent)
           \/ Return(c, "error", Absent)

\* PUT replaces all properties of the object.
Updated(c) ==
    /\ pc[c] = "update" /\ objects[op[c].id] # Absent
    /\ Put(op[c].id, op[c].record)
    /\ \/ Return(c, "ok", Absent)
       \/ Return(c, "error", Absent)

\* The update fails, as it must when the object is gone by now.
UpdateFails(c) ==
    /\ pc[c] = "update"
    /\ Return(c, "error", Absent)
    /\ UNCHANGED objects

FindByID(c, i) == Begin(c, "get", i, Absent)

Found(c) ==
    /\ pc[c] = "get" /\ objects[op[c].id] # Absent
    /\ Return(c, "found", mapObjectToRepo(objects[op[c].id]))
    /\ UNCHANGED objects

\* The server says 404, or answers with an empty list.
NotFound(c) ==
    /\ pc[c] = "get" /\ objects[op[c].id] = Absent
    /\ Return(c, "not found", Absent)
    /\ UNCHANGED objects

\* The request fails, for whatever reason; a text in which "not found" occurs
\* is taken for an answer about the object, be it there or not.
GetFails(c) ==
    /\ pc[c] = "get"
    /\ \E e \in Errors :
         Return(c, IF isNotFoundError(e) THEN "not found" ELSE "error", Absent)
    /\ UNCHANGED objects

\* What becomes of one object of the answer; those of Weaviate all have an id.
parseGraphQLObject(i) == [id |-> i, record |-> mapObjectToRepo(objects[i])]
Stored == {i \in Ids : objects[i] # Absent}
AtMost(n, limit) == IF n > limit THEN limit ELSE n

\* The query answers with some of the objects when there are too many.
Answered(c, limit) ==
    \E some \in SUBSET Stored :
      /\ Cardinality(some) = AtMost(Cardinality(Stored), limit)
      /\ Return(c, "list", [all |-> Stored,
                            got |-> {parseGraphQLObject(i) : i \in some}])

FindAll(c) == Begin(c, "list", Absent, Absent)

Listed(c) ==
    /\ pc[c] = "list"
    /\ Answered(c, ListLimit)
    /\ UNCHANGED objects

ListFails(c) ==
    /\ pc[c] = "list"
    /\ Return(c, "error", Absent)
    /\ UNCHANGED objects

Delete(c, i) == Begin(c, "delete", i, Absent)

\* The object is removed, or its removal is not acknowledged.
Deleted(c) ==
    /\ pc[c] = "delete" /\ objects[op[c].id] # Absent
    /\ objects' = [objects EXCEPT ![op[c].id] = Absent]
    /\ \/ Return(c, "ok", Absent)
       \/ Return(c, "error", Absent)

\* The request fails; a text in which "not found" occurs is no error, though
\* the object may be there still.
DeleteFails(c) ==
    /\ pc[c] = "delete"
    /\ \E e \in Errors :
         Return(c, IF isNotFoundError(e) THEN "ok" ELSE "error", Absent)
    /\ UNCHANGED objects

Answer(c) ==
    \/ Created(c) \/ Conflict(c) \/ CreateFails(c) \/ Updated(c)
    \/ UpdateFails(c) \/ Found(c) \/ NotFound(c) \/ GetFails(c)
    \/ Listed(c) \/ ListFails(c) \/ Deleted(c) \/ DeleteFails(c)

Next == \E c \in Calls :
    \/ \E i \in Ids, r \in Records : Save(c, i, r)
    \/ \E i \in Ids : FindByID(c, i) \/ Delete(c, i)
    \/ FindAll(c)
    \/ Answer(c)

Spec == Init /\ [][Next]_vars

-----------------------------------------------------------------------------
TypeOK ==
    /\ \A i \in Ids : objects[i] # Absent => DOMAIN objects[i] \subseteq Fields
    /\ pc \in [Calls -> {"idle", "create", "update", "get", "list", "delete"}]
    /\ \A c \in Calls : op[c].id \in Ids \cup {Absent}
                        /\ op[c].record \in Records \cup {Absent}
    /\ done \in [Calls -> 0..MaxOps]

-----------------------------------------------------------------------------
\* The register's view of the store.
Held == [i \in Ids |-> IF objects[i] = Absent THEN Absent
                       ELSE mapObjectToRepo(objects[i])]

Kind(label) == CASE label \in {"create", "update"} -> "save"
                 [] label = "idle" -> "none"
                 [] OTHER -> label

Call == [c \in Calls |->
    IF pc[c] = "idle" THEN [kind |-> "none", id |-> Absent, record |-> Absent]
    ELSE [kind |-> Kind(pc[c]), id |-> op[c].id,
          record |-> IF op[c].record = Absent THEN Absent
                     ELSE Normal(op[c].record)]]

Most(n) == AtMost(n, ListLimit)

Register == INSTANCE RecordRegister WITH
    Contents <- {Normal(r) : r \in Records}, Nothing <- Absent,
    AtMostListed <- Most,
    held <- Held, call <- Call

\* To its callers each call happens at once: what the two requests of a Save
\* meet between them, and answers that are lost, can be told from a register
\* that is written and read as a whole by nothing.  A Save acknowledged is in
\* it and a record found is the one held; only "not found" and the answer of
\* Delete are no more than an error's text.
ImplementsRegister == Register!Spec
=============================================================================
