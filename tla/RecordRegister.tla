--------------------------- MODULE RecordRegister ---------------------------
(***************************************************************************)
(* What the repository store promises: a register per repository, written  *)
(* and read as a whole, each call taking effect at one moment between its  *)
(* beginning and its end.  A call that fails may have taken effect or not, *)
(* and an error may be taken for the answer that there is no such record.  *)
(* RepositoryStore implements this specification.                          *)
(***************************************************************************)
EXTENDS FiniteSets

CONSTANTS Calls, Ids, Contents, Nothing, NoReply, AtMostListed(_)

VARIABLES held, call, reply

vars == <<held, call, reply>>
Idle == [kind |-> "none", id |-> Nothing, record |-> Nothing]

Init ==
    /\ held = [i \in Ids |-> Nothing]
    /\ call = [c \in Calls |-> Idle]
    /\ reply = [c \in Calls |-> NoReply]

Start(c, kind, i, x) ==
    /\ call[c] = Idle
    /\ call' = [call EXCEPT ![c] = [kind |-> kind, id |-> i, record |-> x]]
    /\ reply' = [reply EXCEPT ![c] = NoReply]
    /\ UNCHANGED held

End(c, kind, value) ==
    /\ call' = [call EXCEPT ![c] = Idle]
    /\ reply' = [reply EXCEPT ![c] = [kind |-> kind, value |-> value]]

\* A save or a removal, both of which leave the call's record in the register.
Write(c) ==
    /\ call[c].kind \in {"save", "delete"}
    /\ held' = [held EXCEPT ![call[c].id] = call[c].record]
    /\ End(c, "ok", Nothing) \/ End(c, "error", Nothing)

Read(c) ==
    /\ call[c].kind = "get"
    /\ IF held[call[c].id] = Nothing THEN End(c, "not found", Nothing)
       ELSE End(c, "found", held[call[c].id])
    /\ UNCHANGED held

ReadMany(c) ==
    LET present == {i \in Ids : held[i] # Nothing} IN
    /\ call[c].kind = "list"
    /\ \E some \in SUBSET present :
         /\ Cardinality(some) = AtMostListed(Cardinality(present))
         /\ End(c, "list", [all |-> present,
                got |-> {[id |-> i, record |-> held[i]] : i \in some}])
    /\ UNCHANGED held

Fail(c) == call[c] # Idle /\ End(c, "error", Nothing) /\ UNCHANGED held

\* A call that failed and is answered as if there were nothing under its id.
Overlook(c) ==
    /\ \/ call[c].kind = "get" /\ End(c, "not found", Nothing)
       \/ call[c].kind = "delete" /\ End(c, "ok", Nothing)
    /\ UNCHANGED held

Next == \E c \in Calls :
    \/ \E i \in Ids, x \in Contents : Start(c, "save", i, x)
    \/ \E i \in Ids : Start(c, "get", i, Nothing) \/ Start(c, "delete", i, Nothing)
    \/ Start(c, "list", Nothing, Nothing)
    \/ Write(c) \/ Read(c) \/ ReadMany(c) \/ Fail(c) \/ Overlook(c)

Spec == Init /\ [][Next]_vars
=============================================================================
