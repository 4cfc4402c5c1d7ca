------------------------- MODULE DatabaseProofs -------------------------
(***************************************************************************)
(* Proofs about what reads and writes the databases and the configuration, *)
(* in the order of DatabaseParts: Registration, for any clients, names,    *)
(* passwords and number of requests; RepositoryStore, for any callers and  *)
(* records; Startup, for any processes that start any number of times; and *)
(* Configuration, for any files and environments.                          *)
(***************************************************************************)
EXTENDS DatabaseParts, FiniteSetTheorems, TLAPS

\* An id leads to one account at most, and none is ahead of the last one.
IdsUnique ==
    /\ \A n \in Names : users[n].id <= lastId
    /\ \A m, n \in Names : users[m].id = users[n].id /\ users[m].id # 0 => m = n

\* The id that a Save is about to write is no account's and nobody else's.
IdsFresh ==
    /\ \A c \in Clients : pc[c] = "save" =>
         new[c] # 0 /\ \A n \in Names : users[n].id # new[c]
    /\ \A c, d \in Clients :
         pc[c] = "save" /\ pc[d] = "save" /\ new[c] = new[d] => c = d

\* The row that Login compares is still the account's, but for its hash.
RowsRead ==
    \A c \in Clients : pc[c] = "compare" =>
      row[c].id # 0 /\ users[req[c].name].id = row[c].id

TokensLead ==
    \A c \in Clients :
      /\ token[c] # 0 => users[req[c].name].id = token[c]
      /\ pc[c] = "me" => token[c] # 0
      /\ reply[c] # "missing"

IInv == TypeOK /\ IdsUnique /\ IdsFresh /\ RowsRead /\ TokensLead

-----------------------------------------------------------------------------
LEMMA IInvInit == Init => IInv
<1>. SUFFICES ASSUME Init PROVE IInv
  OBVIOUS
<1>. DEFINE n0 == CHOOSE n \in Names : TRUE
            p0 == CHOOSE p \in Passwords : TRUE
<1>1. n0 \in Names /\ p0 \in Passwords
  BY SomebodyAssumption
<1>. HIDE DEF n0, p0
<1>2. [kind |-> "login", name |-> n0, password |-> p0] \in Request
  BY <1>1 DEF Request
<1>3. req \in [Clients -> Request]
  BY <1>2 DEF Init, n0, p0
<1>4. TypeOK
  BY <1>3, BoundAssumption DEF Init, TypeOK, PC, Reply
<1>5. \A n \in Names : users[n].id = 0
  BY DEF Init, NoUser
<1>6. IdsUnique
  BY <1>5 DEF IdsUnique, Init
<1>7. IdsFresh /\ RowsRead /\ TokensLead
  BY DEF IdsFresh, RowsRead, TokensLead, Init
<1>. QED
  BY <1>4, <1>6, <1>7 DEF IInv

\* A row is an account's when it has an id.
LEMMA RowFacts ==
    ASSUME TypeOK, NEW n \in Names
    PROVE  /\ Exists(n) <=> users[n].id # 0
           /\ users[n].id \in Nat
           /\ Exists(n) => users[n] \in Row
<1>1. users[n] \in Row \cup {NoUser}
  BY DEF TypeOK
<1>2. CASE users[n] \in Row
  <2>1. users[n].id \in Nat /\ users[n].id # 0
    BY <1>2 DEF Row
  <2>2. users[n] # NoUser
    BY <2>1 DEF NoUser
  <2>. QED
    BY <1>2, <2>1, <2>2 DEF Exists
<1>3. CASE users[n] = NoUser
  BY <1>3 DEF Exists, NoUser
<1>. QED
  BY <1>1, <1>2, <1>3

-----------------------------------------------------------------------------
\* A step that only takes client c on, with nothing new to save or compare.
LEMMA MoveStep ==
    ASSUME IInv, NEW c \in Clients,
           NEW p \in {"idle", "check", "hash", "find"}, pc' = [pc EXCEPT ![c] = p],
           UNCHANGED <<users, lastId, req, new, token, requests>>,
           row' \in [Clients -> Row \cup {NoUser}],
           \A d \in Clients \ {c} : row'[d] = row[d],
           reply' \in [Clients -> Reply], \A d \in Clients : reply'[d] # "missing",
           excused' \in [Clients -> BOOLEAN]
    PROVE  IInv'
<1>. USE DEF IInv
<1>1. TypeOK'
  BY DEF TypeOK, PC
<1>2. \A d \in Clients : pc'[d] = IF d = c THEN p ELSE pc[d]
  BY DEF TypeOK
<1>3. \A d \in Clients : pc'[d] \in {"save", "compare", "me"} => d # c
        /\ pc'[d] = pc[d]
  BY <1>2
<1>4. IdsUnique'
  BY DEF IdsUnique
<1>5. IdsFresh'
  BY <1>3 DEF IdsFresh
<1>6. RowsRead'
  BY <1>3 DEF RowsRead
<1>7. TokensLead'
  BY <1>3 DEF TokensLead
<1>. QED
  BY <1>1, <1>4, <1>5, <1>6, <1>7

LEMMA BeginStep ==
    ASSUME IInv, NEW c \in Clients, NEW r \in Request, NEW first,
           Begin(c, r, first),
           \/ first \in {"check", "find"} /\ token' = [token EXCEPT ![c] = 0]
           \/ /\ first = "me" /\ UNCHANGED token
              /\ token[c] # 0 /\ r.name = req[c].name
    PROVE  IInv'
<1>. USE DEF IInv
<1>1. \A d \in Clients : req'[d] = IF d = c THEN r ELSE req[d]
  BY DEF Begin, TypeOK
<1>2. \A d \in Clients : pc'[d] = IF d = c THEN first ELSE pc[d]
  BY DEF Begin, TypeOK
<1>3. \A d \in Clients : new'[d] = IF d = c THEN 0 ELSE new[d]
  BY DEF Begin, TypeOK
<1>4. \A d \in Clients : d # c => row'[d] = row[d] /\ reply'[d] = reply[d]
  BY DEF Begin, TypeOK
<1>5. reply'[c] = "none"
  BY DEF Begin, TypeOK
<1>6. TypeOK'
  <2>1. users' = users /\ lastId' = lastId /\ requests' \in 0..MaxRequests
    BY BoundAssumption DEF Begin, TypeOK
  <2>2. pc' \in [Clients -> PC] /\ req' \in [Clients -> Request]
    BY DEF Begin, TypeOK, PC
  <2>3. new' \in [Clients -> 0..lastId] /\ token' \in [Clients -> 0..lastId]
    BY DEF Begin, TypeOK
  <2>4. row' \in [Clients -> Row \cup {NoUser}] /\ reply' \in [Clients -> Reply]
    BY DEF Begin, TypeOK, Reply
  <2>5. excused' \in [Clients -> BOOLEAN]
    BY DEF Begin, TypeOK, Exists
  <2>. QED
    BY <2>1, <2>2, <2>3, <2>4, <2>5 DEF TypeOK
<1>7. \A d \in Clients : pc'[d] \in {"save", "compare"} => d # c /\ pc'[d] = pc[d]
  BY <1>2
<1>8. users' = users /\ lastId' = lastId
  BY DEF Begin
<1>9. IdsUnique'
  BY <1>8 DEF IdsUnique
<1>10. IdsFresh'
  BY <1>3, <1>7, <1>8 DEF IdsFresh
<1>11. RowsRead'
  BY <1>1, <1>4, <1>7, <1>8 DEF RowsRead
<1>12. TokensLead'
  <2>. SUFFICES ASSUME NEW d \in Clients
                PROVE  /\ token'[d] # 0 => users'[req'[d].name].id = token'[d]
                       /\ pc'[d] = "me" => token'[d] # 0
                       /\ reply'[d] # "missing"
    BY DEF TokensLead
  <2>1. CASE d # c
    <3>1. token'[d] = token[d]
      BY <2>1 DEF TypeOK
    <3>. QED
      BY <2>1, <3>1, <1>1, <1>2, <1>4, <1>8 DEF TokensLead
  <2>2. CASE d = c /\ first # "me"
    <3>1. token'[c] = 0
      BY <2>2 DEF TypeOK
    <3>. QED
      BY <2>2, <3>1, <1>2, <1>5
  <2>3. CASE d = c /\ first = "me"
    <3>1. token' = token /\ token[c] # 0 /\ r.name = req[c].name
      BY <2>3
    <3>2. users[r.name].id = token[c]
      BY <3>1 DEF TokensLead
    <3>3. req'[c] = r /\ users' = users /\ reply'[c] # "missing"
      BY <1>1, <1>5, <1>8
    <3>. QED
      BY <2>3, <3>1, <3>2, <3>3
  <2>. QED
    BY <2>1, <2>2, <2>3
<1>. QED
  BY <1>6, <1>9, <1>10, <1>11, <1>12

LEMMA HashStep ==
    ASSUME IInv, NEW c \in Clients, Hash(c) PROVE IInv'
<1>. USE DEF IInv
<1>0. lastId \in Nat /\ \A d \in Clients : new[d] \in Nat /\ new[d] <= lastId
  BY DEF TypeOK
<1>1. \A d \in Clients : new'[d] = IF d = c THEN lastId + 1 ELSE new[d]
  BY DEF Hash, TypeOK
<1>2. \A d \in Clients : pc'[d] = IF d = c THEN "save" ELSE pc[d]
  BY DEF Hash, TypeOK
<1>3. TypeOK'
  <2>1. lastId' \in Nat /\ 0..lastId \subseteq 0..lastId'
    BY <1>0 DEF Hash
  <2>2. new' \in [Clients -> 0..lastId'] /\ token' \in [Clients -> 0..lastId']
    BY <1>0, <2>1 DEF Hash, TypeOK
  <2>3. pc' \in [Clients -> PC]
    BY DEF Hash, TypeOK, PC
  <2>. QED
    BY <2>1, <2>2, <2>3 DEF Hash, TypeOK
<1>4. \A n \in Names : users[n].id \in Nat /\ users[n].id <= lastId
  BY RowFacts DEF IdsUnique
<1>5. IdsUnique'
  <2>1. \A n \in Names : users[n].id <= lastId'
    BY <1>0, <1>4 DEF Hash
  <2>. QED
    BY <2>1 DEF Hash, IdsUnique
<1>6. IdsFresh'
  <2>1. lastId + 1 # 0 /\ \A n \in Names : users[n].id # lastId + 1
    BY <1>0, <1>4
  <2>2. ASSUME NEW d \in Clients PROVE new[d] # lastId + 1
    <3>1. new[d] \in Nat /\ new[d] <= lastId /\ lastId \in Nat
      BY <1>0
    <3>. QED
      BY <3>1
  <2>3. users' = users
    BY DEF Hash
  <2>. QED
    BY <1>1, <1>2, <2>1, <2>2, <2>3 DEF IdsFresh
<1>7. RowsRead'
  BY <1>2 DEF Hash, RowsRead
<1>8. TokensLead'
  BY <1>2 DEF Hash, TokensLead
<1>. QED
  BY <1>3, <1>5, <1>6, <1>7, <1>8

\* What Upsert leaves of the rows.
LEMMA UpsertFacts ==
    ASSUME IInv, NEW c \in Clients, pc[c] = "save", Upsert(c)
    PROVE  /\ users' \in [Names -> Row \cup {NoUser}]
           /\ \A n \in Names : users[n].id # 0 => users'[n].id = users[n].id
           /\ \A n \in Names : users'[n].id # users[n].id =>
                n = req[c].name /\ users'[n].id = new[c]
           /\ \A n \in Names : n # req[c].name => users'[n] = users[n]
<1>. USE DEF IInv
<1>. DEFINE m == req[c].name
            i == IF Exists(m) THEN users[m].id ELSE new[c]
<1>1. m \in Names /\ req[c].password \in Passwords
  BY DEF TypeOK, Request
<1>2. new[c] \in Nat \ {0}
  BY DEF TypeOK, IdsFresh
<1>3. i \in Nat \ {0} /\ (users[m].id # 0 => i = users[m].id)
      /\ (i # users[m].id => i = new[c])
  BY <1>1, <1>2, RowFacts
<1>4. users' = [users EXCEPT ![m] = [id |-> i, hash |-> req[c].password]]
  BY DEF Upsert
<1>. HIDE DEF i, m
<1>5. [id |-> i, hash |-> req[c].password] \in Row
  BY <1>1, <1>3 DEF Row
<1>6. users' \in [Names -> Row \cup {NoUser}]
  BY <1>4, <1>5 DEF TypeOK
<1>7. users'[m].id = i /\ \A n \in Names : n # m => users'[n] = users[n]
  BY <1>1, <1>4 DEF TypeOK
<1>8. \A n \in Names : users[n].id # 0 => users'[n].id = users[n].id
  BY <1>3, <1>7
<1>9. \A n \in Names : users'[n].id # users[n].id => n = m /\ users'[n].id = new[c]
  BY <1>3, <1>7
<1>. QED
  BY <1>6, <1>7, <1>8, <1>9 DEF m

LEMMA SaveStep ==
    ASSUME IInv, NEW c \in Clients, pc[c] = "save", Upsert(c),
           NEW p \in {"idle", "find"}, pc' = [pc EXCEPT ![c] = p],
           UNCHANGED <<lastId, req, new, row, token, requests, excused>>,
           reply' \in [Clients -> Reply], \A d \in Clients : reply'[d] # "missing"
    PROVE  IInv'
<1>. USE DEF IInv
<1>1. /\ users' \in [Names -> Row \cup {NoUser}]
      /\ \A n \in Names : users[n].id # 0 => users'[n].id = users[n].id
      /\ \A n \in Names : users'[n].id # users[n].id =>
           n = req[c].name /\ users'[n].id = new[c]
  BY UpsertFacts
<1>2. \A d \in Clients : pc'[d] = IF d = c THEN p ELSE pc[d]
  BY DEF TypeOK
<1>3. \A d \in Clients : pc'[d] \in {"save", "compare", "me"} => d # c
        /\ pc'[d] = pc[d]
  BY <1>2
<1>4. \A d \in Clients : req[d].name \in Names
  BY DEF TypeOK, Request
<1>5. TypeOK'
  <2>1. pc' \in [Clients -> PC]
    BY DEF TypeOK, PC
  <2>. QED
    BY <1>1, <2>1 DEF TypeOK
<1>6. new[c] # 0 /\ new[c] <= lastId /\ \A n \in Names : users[n].id # new[c]
  BY DEF IdsFresh, TypeOK
<1>7. IdsUnique'
  <2>1. \A n \in Names : users'[n].id <= lastId'
    BY <1>1, <1>6 DEF IdsUnique
  <2>2. ASSUME NEW m \in Names, NEW n \in Names,
               users'[m].id = users'[n].id, users'[m].id # 0
        PROVE  m = n
    BY <1>1, <1>6, <2>2 DEF IdsUnique
  <2>. QED
    BY <2>1, <2>2 DEF IdsUnique
<1>8. IdsFresh'
  <2>1. ASSUME NEW d \in Clients, pc'[d] = "save"
        PROVE  new[d] # 0 /\ \A n \in Names : users'[n].id # new[d]
    <3>1. d # c /\ pc[d] = "save"
      BY <1>3, <2>1
    <3>2. new[d] # new[c]
      BY <3>1 DEF IdsFresh
    <3>. QED
      BY <3>1, <3>2, <1>1 DEF IdsFresh
  <2>. QED
    BY <2>1, <1>3 DEF IdsFresh
<1>9. RowsRead'
  BY <1>1, <1>3, <1>4 DEF RowsRead
<1>10. TokensLead'
  BY <1>1, <1>3, <1>4 DEF TokensLead
<1>. QED
  BY <1>5, <1>7, <1>8, <1>9, <1>10

LEMMA FindStep ==
    ASSUME IInv, NEW c \in Clients, pc[c] = "find", Exists(req[c].name),
           row' = [row EXCEPT ![c] = users[req[c].name]],
           pc' = [pc EXCEPT ![c] = "compare"],
           UNCHANGED <<users, lastId, req, new, reply, token, requests, excused>>
    PROVE  IInv'
<1>. USE DEF IInv
<1>1. req[c].name \in Names
  BY DEF TypeOK, Request
<1>2. users[req[c].name] \in Row /\ users[req[c].name].id # 0
  BY <1>1, RowFacts
<1>3. \A d \in Clients : row'[d] = IF d = c THEN users[req[c].name] ELSE row[d]
  BY DEF TypeOK
<1>4. \A d \in Clients : pc'[d] = IF d = c THEN "compare" ELSE pc[d]
  BY DEF TypeOK
<1>5. TypeOK'
  BY <1>2 DEF TypeOK, PC
<1>6. IdsUnique' /\ IdsFresh' /\ TokensLead'
  BY <1>4 DEF IdsUnique, IdsFresh, TokensLead
<1>7. RowsRead'
  BY <1>2, <1>3, <1>4 DEF RowsRead
<1>. QED
  BY <1>5, <1>6, <1>7

LEMMA TokenStep ==
    ASSUME IInv, NEW c \in Clients, pc[c] = "compare",
           token' = [token EXCEPT ![c] = row[c].id], Answer(c, "token"),
           UNCHANGED <<users, lastId, req, new, row, requests, excused>>
    PROVE  IInv'
<1>. USE DEF IInv
<1>1. row[c].id # 0 /\ users[req[c].name].id = row[c].id
  BY DEF RowsRead
<1>2. req[c].name \in Names
  BY DEF TypeOK, Request
<1>3. row[c].id \in 0..lastId
  BY <1>1, <1>2, RowFacts DEF IdsUnique, TypeOK
<1>4. \A d \in Clients : token'[d] = IF d = c THEN row[c].id ELSE token[d]
  BY DEF TypeOK
<1>5. \A d \in Clients : /\ pc'[d] = IF d = c THEN "idle" ELSE pc[d]
                         /\ reply'[d] = IF d = c THEN "token" ELSE reply[d]
  BY DEF TypeOK, Answer
<1>6. TypeOK'
  <2>1. token' \in [Clients -> 0..lastId]
    BY <1>3 DEF TypeOK
  <2>2. pc' \in [Clients -> PC] /\ reply' \in [Clients -> Reply]
    BY DEF Answer, TypeOK, PC, Reply
  <2>. QED
    BY <2>1, <2>2 DEF TypeOK
<1>7. IdsUnique' /\ IdsFresh' /\ RowsRead'
  BY <1>5 DEF IdsUnique, IdsFresh, RowsRead
<1>8. TokensLead'
  BY <1>1, <1>4, <1>5 DEF TokensLead
<1>. QED
  BY <1>6, <1>7, <1>8

-----------------------------------------------------------------------------
LEMMA WorkStep ==
    ASSUME IInv, NEW c \in Clients, Work(c) PROVE IInv'
<1>. USE DEF IInv
<1>0. \A d \in Clients : row[d] \in Row \cup {NoUser} /\ reply[d] \in Reply
                        /\ reply[d] # "missing"
  BY DEF TypeOK, TokensLead
<1>1. CASE CheckName(c)
  <2>1. CASE Answer(c, "taken")
    <3>1. reply' \in [Clients -> Reply] /\ \A d \in Clients : reply'[d] # "missing"
      BY <1>0, <2>1 DEF Answer, TypeOK, Reply
    <3>. QED
      BY <1>1, <2>1, <3>1, MoveStep DEF CheckName, Answer, TypeOK
  <2>2. CASE pc' = [pc EXCEPT ![c] = "hash"] /\ UNCHANGED reply
    BY <1>0, <1>1, <2>2, MoveStep DEF CheckName, TypeOK
  <2>. QED
    BY <1>1, <2>1, <2>2 DEF CheckName
<1>2. CASE CheckFails(c)
  <2>1. excused' \in [Clients -> BOOLEAN]
    BY <1>2 DEF CheckFails, TypeOK
  <2>. QED
    BY <1>0, <1>2, <2>1, MoveStep DEF CheckFails, TypeOK
<1>3. CASE Hash(c)
  BY <1>3, HashStep
<1>4. CASE Save(c)
  BY <1>0, <1>4, SaveStep DEF Save, TypeOK
<1>5. CASE SaveUnknown(c)
  <2>1. reply' \in [Clients -> Reply] /\ \A d \in Clients : reply'[d] # "missing"
    BY <1>0, <1>5 DEF SaveUnknown, Answer, TypeOK, Reply
  <2>. QED
    BY <1>5, <2>1, SaveStep DEF SaveUnknown, Answer
<1>6. CASE Find(c)
  <2>1. CASE Exists(req[c].name)
    BY <1>6, <2>1, FindStep DEF Find
  <2>2. CASE ~Exists(req[c].name)
    <3>1. Answer(c, "invalid") /\ UNCHANGED row
      BY <1>6, <2>2 DEF Find
    <3>2. reply' \in [Clients -> Reply] /\ \A d \in Clients : reply'[d] # "missing"
      BY <1>0, <3>1 DEF Answer, TypeOK, Reply
    <3>. QED
      BY <1>6, <3>1, <3>2, MoveStep DEF Find, Answer, TypeOK
  <2>. QED
    BY <2>1, <2>2
<1>7. CASE Compare(c)
  <2>1. CASE row[c].hash = req[c].password
    BY <1>7, <2>1, TokenStep DEF Compare
  <2>2. CASE row[c].hash # req[c].password
    <3>1. Answer(c, "invalid") /\ UNCHANGED token
      BY <1>7, <2>2 DEF Compare
    <3>2. reply' \in [Clients -> Reply] /\ \A d \in Clients : reply'[d] # "missing"
      BY <1>0, <3>1 DEF Answer, TypeOK, Reply
    <3>. QED
      BY <1>7, <3>1, <3>2, MoveStep DEF Compare, Answer, TypeOK
  <2>. QED
    BY <2>1, <2>2
<1>8. CASE FindMe(c)
  <2>1. req[c].name \in Names /\ users[req[c].name].id = token[c]
    BY <1>8 DEF FindMe, TypeOK, Request, TokensLead
  <2>2. PICK n \in Names : row' = [row EXCEPT ![c] = users[n]] /\ Answer(c, "user")
    BY <1>8, <2>1 DEF FindMe
  <2>3. reply' \in [Clients -> Reply] /\ \A d \in Clients : reply'[d] # "missing"
    BY <1>0, <2>2 DEF Answer, TypeOK, Reply
  <2>4. row' \in [Clients -> Row \cup {NoUser}]
          /\ \A d \in Clients \ {c} : row'[d] = row[d]
    BY <2>2 DEF TypeOK
  <2>. QED
    BY <1>8, <2>2, <2>3, <2>4, MoveStep DEF FindMe, Answer, TypeOK
<1>9. CASE Fails(c)
  <2>1. reply' \in [Clients -> Reply] /\ \A d \in Clients : reply'[d] # "missing"
    BY <1>0, <1>9 DEF Fails, Answer, TypeOK, Reply
  <2>. QED
    BY <1>9, <2>1, MoveStep DEF Fails, Answer, TypeOK
<1>. QED
  BY <1>1, <1>2, <1>3, <1>4, <1>5, <1>6, <1>7, <1>8, <1>9 DEF Work

LEMMA IInvStep == IInv /\ [Next]_vars => IInv'
<1>. SUFFICES ASSUME IInv, [Next]_vars PROVE IInv'
  OBVIOUS
<1>1. ASSUME NEW c \in Clients, NEW n \in Names, NEW p \in Passwords,
        Register(c, n, p)
      PROVE  IInv'
  <2>1. [kind |-> "register", name |-> n, password |-> p] \in Request
    BY DEF Request
  <2>. QED
    BY <1>1, <2>1, BeginStep DEF Register
<1>2. ASSUME NEW c \in Clients, NEW n \in Names, NEW p \in Passwords, Login(c, n, p)
      PROVE  IInv'
  <2>1. [kind |-> "login", name |-> n, password |-> p] \in Request
    BY DEF Request
  <2>. QED
    BY <1>2, <2>1, BeginStep DEF Login
<1>3. ASSUME NEW c \in Clients, Me(c) PROVE IInv'
  <2>. DEFINE r == [req[c] EXCEPT !.kind = "me"]
  <2>1. r \in Request /\ r.name = req[c].name
    BY DEF IInv, TypeOK, Request
  <2>. QED
    BY <1>3, <2>1, BeginStep DEF Me
<1>4. ASSUME NEW c \in Clients, Work(c) PROVE IInv'
  BY <1>4, WorkStep
<1>5. CASE UNCHANGED vars
  BY <1>5 DEF vars, IInv, TypeOK, IdsUnique, IdsFresh, RowsRead, TokensLead
<1>. QED
  BY <1>1, <1>2, <1>3, <1>4, <1>5 DEF Next

LEMMA Inductive == Spec => []IInv
BY IInvInit, IInvStep, PTL DEF Spec

\* The type of every variable.
THEOREM TypeCorrect == Spec => []TypeOK
BY Inductive, PTL DEF IInv

\* A token leads to its account and to no other.
THEOREM TokensLeadHome == Spec => []TokenIsTheAccounts
<1>1. ASSUME IInv, NEW c \in Clients, token[c] # 0, NEW n \in Names
      PROVE  users[n].id = token[c] <=> n = req[c].name
  <2>1. req[c].name \in Names /\ users[req[c].name].id = token[c]
    BY <1>1 DEF IInv, TypeOK, Request, TokensLead
  <2>. QED
    BY <1>1, <2>1 DEF IInv, IdsUnique
<1>2. IInv => TokenIsTheAccounts
  BY <1>1 DEF TokenIsTheAccounts, IInv, TokensLead
<1>. QED
  BY <1>2, Inductive, PTL

-----------------------------------------------------------------------------
\* What every step leaves of the accounts.
LEMMA UsersStep ==
    ASSUME IInv, [Next]_vars
    PROVE  \/ users' = users
           \/ \E c \in Clients : pc[c] = "save" /\ Upsert(c)
BY DEF Next, vars, Register, Login, Me, Begin, Work, CheckName, CheckFails, Hash,
       Save, SaveUnknown, Find, Compare, FindMe, Fails

LEMMA AccountsStep ==
    ASSUME IInv, [Next]_vars, NEW n \in Names, Exists(n)
    PROVE  users'[n] # NoUser /\ users'[n].id = users[n].id
<1>1. users[n].id # 0
  BY RowFacts DEF IInv
<1>2. CASE users' = users
  BY <1>2 DEF Exists
<1>3. ASSUME NEW c \in Clients, pc[c] = "save", Upsert(c)
      PROVE  users'[n] # NoUser /\ users'[n].id = users[n].id
  <2>1. users'[n].id = users[n].id
    BY <1>1, <1>3, UpsertFacts
  <2>. QED
    BY <1>1, <2>1 DEF NoUser
<1>. QED
  BY <1>2, <1>3, UsersStep

\* Accounts are never deleted and keep their ids.
THEOREM AccountsAreKept == Spec => AccountsStay
<1>1. IInv /\ [Next]_vars =>
        [\A n \in Names : Exists(n) => users'[n] # NoUser
          /\ users'[n].id = users[n].id]_vars
  BY AccountsStep
<1>. QED
  BY <1>1, Inductive, PTL DEF Spec, AccountsStay

\* Whoever is about to save found the name free, or could not look.
Excuses ==
    \A c \in Clients :
      /\ pc[c] = "check" => excused[c] \/ Exists(req[c].name)
      /\ pc[c] \in {"hash", "save"} => excused[c]

LEMMA ExcusesStep ==
    ASSUME IInv, Excuses, [Next]_vars PROVE Excuses'
<1>0. \A n \in Names : Exists(n) => Exists(n)'
  BY AccountsStep DEF Exists
<1>. SUFFICES ASSUME NEW d \in Clients
              PROVE  /\ pc'[d] = "check" => excused'[d]
                          \/ users'[req'[d].name] # NoUser
                     /\ pc'[d] \in {"hash", "save"} => excused'[d]
  BY DEF Excuses, Exists
<1>1. /\ req[d].name \in Names
      /\ pc[d] = "check" => excused[d] \/ Exists(req[d].name)
      /\ pc[d] \in {"hash", "save"} => excused[d]
  BY DEF IInv, TypeOK, Request, Excuses
<1>2. CASE pc'[d] = pc[d] /\ excused'[d] = excused[d] /\ req'[d] = req[d]
  BY <1>0, <1>1, <1>2 DEF Exists
<1>3. ASSUME NEW c \in Clients, NEW r \in Request, NEW first \in {"check", "find",
        "me"},
             Begin(c, r, first)
      PROVE  /\ pc'[d] = "check" => excused'[d] \/ users'[req'[d].name] # NoUser
             /\ pc'[d] \in {"hash", "save"} => excused'[d]
  <2>1. CASE d # c
    BY <1>2, <1>3, <2>1 DEF Begin, IInv, TypeOK
  <2>2. CASE d = c
    <3>1. pc'[d] = first /\ req'[d] = r /\ users' = users
            /\ excused'[d] = ~Exists(r.name)
      BY <1>3, <2>2 DEF Begin, IInv, TypeOK
    <3>. QED
      BY <3>1 DEF Exists
  <2>. QED
    BY <2>1, <2>2
<1>4. ASSUME NEW c \in Clients, Work(c)
      PROVE  /\ pc'[d] = "check" => excused'[d] \/ users'[req'[d].name] # NoUser
             /\ pc'[d] \in {"hash", "save"} => excused'[d]
  <2>1. CASE d # c
    <3>1. pc'[d] = pc[d] /\ excused'[d] = excused[d] /\ req'[d] = req[d]
      BY <1>4, <2>1 DEF Work, CheckName, CheckFails, Hash, Save, SaveUnknown, Find,
                        Compare, FindMe, Fails, Answer, IInv, TypeOK
    <3>. QED
      BY <1>2, <3>1
  <2>2. CASE d = c /\ CheckName(c)
    BY <1>1, <2>2 DEF CheckName, Answer, IInv, TypeOK
  <2>3. CASE d = c /\ CheckFails(c)
    BY <2>3 DEF CheckFails, IInv, TypeOK
  <2>4. CASE d = c /\ Hash(c)
    BY <1>1, <2>4 DEF Hash, IInv, TypeOK
  <2>5. CASE d = c /\ ~CheckName(c) /\ ~CheckFails(c) /\ ~Hash(c)
    <3>1. pc'[c] \in {"idle", "find", "compare"}
      BY <1>4, <2>5 DEF Work, Save, SaveUnknown, Find, Compare, FindMe, Fails, Answer,
                        IInv, TypeOK
    <3>. QED
      BY <2>5, <3>1
  <2>. QED
    BY <2>1, <2>2, <2>3, <2>4, <2>5
<1>5. CASE UNCHANGED vars
  BY <1>2, <1>5 DEF vars
<1>6. ASSUME NEW c \in Clients, NEW n \in Names, NEW p \in Passwords
      PROVE  /\ [kind |-> "register", name |-> n, password |-> p] \in Request
             /\ [kind |-> "login", name |-> n, password |-> p] \in Request
             /\ [req[c] EXCEPT !.kind = "me"] \in Request
  BY DEF Request, IInv, TypeOK
<1>7. ASSUME NEW c \in Clients, Me(c)
      PROVE  /\ pc'[d] = "check" => excused'[d] \/ users'[req'[d].name] # NoUser
             /\ pc'[d] \in {"hash", "save"} => excused'[d]
  <2>1. [req[c] EXCEPT !.kind = "me"] \in Request
    BY DEF Request, IInv, TypeOK
  <2>. QED
    BY <1>3, <1>7, <2>1 DEF Me
<1>. QED
  BY <1>3, <1>4, <1>5, <1>6, <1>7 DEF Next, Register, Login

LEMMA PasswordsStep ==
    ASSUME IInv, Excuses, [Next]_vars, NEW n \in Names,
           Exists(n), users'[n].hash # users[n].hash
    PROVE  \E c \in Clients : pc[c] = "save" /\ req[c].name = n /\ excused[c]
<1>1. PICK c \in Clients : pc[c] = "save" /\ Upsert(c)
  BY UsersStep
<1>2. n = req[c].name
  BY <1>1, UpsertFacts
<1>. QED
  BY <1>1, <1>2 DEF Excuses

\* A password is only overwritten by a registration that overlapped the one
\* that made the account, or whose check failed.
THEOREM PasswordsAreKept == Spec => PasswordsStay
<1>1. Init => Excuses
  BY DEF Init, Excuses
<1>2. IInv /\ Excuses /\ [Next]_vars => Excuses'
  BY ExcusesStep
<1>3. IInv /\ Excuses /\ [Next]_vars =>
        [\A n \in Names : Exists(n) /\ users'[n].hash # users[n].hash =>
           \E c \in Clients : pc[c] = "save" /\ req[c].name = n /\ excused[c]]_vars
  BY PasswordsStep
<1>. QED
  BY <1>1, <1>2, <1>3, Inductive, PTL DEF Spec, PasswordsStay

-----------------------------------------------------------------------------
(* RepositoryStore implements RecordRegister.                              *)

\* What is read back from an object is the record it was made of, but for
\* its nil map.
LEMMA ReadBack ==
    ASSUME Store!RecordsAssumption, NEW r \in Records
    PROVE  /\ Store!mapObjectToRepo(Store!repoToProperties(r)) = Store!Normal(r)
           /\ r # Store!Absent /\ Store!Normal(r) # Store!Absent
           /\ Store!repoToProperties(r) # Store!Absent
<1>1. DOMAIN r = Store!Fields /\ r["status"] \notin {Store!Zero, Store!Nil}
  BY DEF Store!RecordsAssumption
<1>2. DOMAIN Store!Absent = {} /\ "status" \in Store!Fields
  BY DEF Store!Absent, Store!Fields
<1>3. DOMAIN Store!Normal(r) = Store!Fields
  BY DEF Store!Normal
<1>4. "status" \in DOMAIN Store!repoToProperties(r)
  BY DEF Store!repoToProperties
<1>5. ASSUME NEW f \in Store!Fields
      PROVE Store!mapObjectToRepo(Store!repoToProperties(r))[f] = Store!Normal(r)[f]
  BY <1>1, <1>5 DEF Store!mapObjectToRepo, Store!repoToProperties, Store!Normal
<1>6. Store!mapObjectToRepo(Store!repoToProperties(r)) = Store!Normal(r)
  BY <1>5 DEF Store!mapObjectToRepo, Store!Normal
<1>. QED
  BY <1>1, <1>2, <1>3, <1>4, <1>6

\* Where a call is tells what it was asked.
StoreTypes ==
    /\ objects = [i \in Ids |-> objects[i]]
    /\ \A i \in Ids : objects[i] \in {Store!repoToProperties(r) : r \in Records}
         \cup {Store!Absent}
    /\ storePc \in [Calls -> {"idle", "create", "update", "get", "list", "delete"}]
    /\ op \in [Calls -> [id : Ids \cup {Store!Absent}, record : Records
         \cup {Store!Absent}]]
    /\ storeReply = [c \in Calls |-> storeReply[c]]
    /\ \A c \in Calls :
         /\ storePc[c] \in {"create", "update"} => op[c].record \in Records
         /\ storePc[c] \in {"get", "list", "delete"} => op[c].record = Store!Absent
         /\ storePc[c] \in {"create", "update", "get", "delete"} => op[c].id \in Ids
         /\ storePc[c] = "list" => op[c].id = Store!Absent
    /\ done \in [Calls -> 0..MaxOps]


LEMMA StoreInit == Store!RecordsAssumption /\ Store!Init => StoreTypes
  /\ Store!Register!Init
<1>. SUFFICES ASSUME Store!RecordsAssumption, Store!Init
              PROVE StoreTypes /\ Store!Register!Init
  OBVIOUS
<1>1. StoreTypes
  BY DEF StoreTypes, Store!Init, Store!NoOp, Store!RecordsAssumption
<1>2. Store!Held = [i \in Ids |-> Store!Absent]
  BY DEF Store!Init, Store!Held
<1>3. Store!Call = [c \in Calls |-> Store!Register!Idle]
  BY DEF Store!Init, Store!Call, Store!Register!Idle
<1>. QED
  BY <1>1, <1>2, <1>3 DEF Store!Register!Init, Store!Init

\* The register's view of a call that begins, or ends, and of an object that
\* is replaced.
LEMMA CallBegins ==
    ASSUME StoreTypes, NEW c \in Calls, NEW label, NEW i, NEW r,
           label \in {"create", "get", "list", "delete"},
           Store!Begin(c, label, i, r)
    PROVE  /\ Store!Call[c] = Store!Register!Idle
           /\ Store!Call' = [Store!Call EXCEPT ![c] =
                 [kind |-> Store!Kind(label), id |-> i,
                  record |-> IF r = Store!Absent THEN Store!Absent
                             ELSE Store!Normal(r)]]
           /\ storeReply' = [storeReply EXCEPT ![c] = Store!NoReply]
           /\ Store!Held' = Store!Held
BY
DEF StoreTypes, Store!Begin, Store!Call, Store!Held, Store!Kind, Store!Register!Idle

LEMMA CallReturns ==
    ASSUME StoreTypes, NEW c \in Calls, NEW kind, NEW value,
           Store!Return(c, kind, value)
    PROVE  Store!Register!End(c, kind, value)
BY DEF StoreTypes, Store!Return, Store!Call, Store!Register!End, Store!Register!Idle

LEMMA HeldPut ==
    ASSUME Store!RecordsAssumption, StoreTypes, NEW i \in Ids, NEW r \in Records,
      Store!Put(i, r)
    PROVE  Store!Held' = [Store!Held EXCEPT ![i] = Store!Normal(r)]
BY ReadBack DEF StoreTypes, Store!Put, Store!Held

\* A call that begins is one of the four kinds.
LEMMA TypesBegin ==
    ASSUME Store!RecordsAssumption, StoreTypes, NEW c \in Calls, NEW label, NEW i,
      NEW r,
           Store!Begin(c, label, i, r),
           \/ label = "create" /\ i \in Ids /\ r \in Records
           \/ label \in {"get", "delete"} /\ i \in Ids /\ r = Store!Absent
           \/ label = "list" /\ i = Store!Absent /\ r = Store!Absent
    PROVE  StoreTypes'
<1>. USE DEF StoreTypes, Store!Begin
<1>1. storePc' \in [Calls -> {"idle", "create", "update", "get", "list", "delete"}]
  OBVIOUS
<1>2. op' \in [Calls -> [id : Ids \cup {Store!Absent}, record : Records
        \cup {Store!Absent}]]
  OBVIOUS
<1>3. done' \in [Calls -> 0..MaxOps]
  BY DEF Store!RecordsAssumption
<1>4. op'[c].id = i /\ op'[c].record = r /\ storePc'[c] = label
  OBVIOUS
<1>5. \A d \in Calls \ {c} : op'[d] = op[d] /\ storePc'[d] = storePc[d]
  OBVIOUS
<1>. QED
  BY <1>1, <1>2, <1>3, <1>4, <1>5

LEMMA StoreTypesStep ==
    Store!RecordsAssumption /\ StoreTypes /\ [Store!Next]_(Store!vars) => StoreTypes'
<1>. SUFFICES ASSUME Store!RecordsAssumption, StoreTypes, [Store!Next]_(Store!vars)
              PROVE  StoreTypes'
  OBVIOUS
<1>1. ASSUME NEW c \in Calls, NEW i \in Ids, NEW r \in Records, Store!Save(c, i, r)
      PROVE StoreTypes'
  BY <1>1, TypesBegin DEF Store!Save
<1>2. ASSUME NEW c \in Calls, NEW i \in Ids, Store!FindByID(c, i)
        \/ Store!Delete(c, i)
      PROVE StoreTypes'
  BY <1>2, TypesBegin DEF Store!FindByID, Store!Delete
<1>3. ASSUME NEW c \in Calls, Store!FindAll(c) PROVE StoreTypes'
  BY <1>3, TypesBegin DEF Store!FindAll
<1>. USE DEF StoreTypes
<1>4. ASSUME NEW c \in Calls, Store!Created(c) \/ Store!Updated(c) PROVE StoreTypes'
  BY <1>4 DEF Store!Created, Store!Updated, Store!Put, Store!Return
<1>5. ASSUME NEW c \in Calls, Store!Conflict(c) PROVE StoreTypes'
  BY <1>5 DEF Store!Conflict
<1>6. ASSUME NEW c \in Calls, Store!CreateFails(c) \/ Store!UpdateFails(c)
      PROVE StoreTypes'
  BY <1>6 DEF Store!CreateFails, Store!UpdateFails, Store!Return
<1>7. ASSUME NEW c \in Calls, Store!Found(c) \/ Store!NotFound(c) \/ Store!GetFails(c)
      PROVE StoreTypes'
  BY <1>7 DEF Store!Found, Store!NotFound, Store!GetFails, Store!Return
<1>8. ASSUME NEW c \in Calls, Store!Listed(c) \/ Store!ListFails(c) PROVE StoreTypes'
  BY <1>8 DEF Store!Listed, Store!Answered, Store!ListFails, Store!Return
<1>9. ASSUME NEW c \in Calls, Store!Deleted(c) \/ Store!DeleteFails(c)
      PROVE StoreTypes'
  BY SMTT(40), <1>9 DEF Store!Deleted, Store!DeleteFails, Store!Return
<1>10. CASE UNCHANGED Store!vars
  BY <1>10 DEF Store!vars
<1>. QED
  BY <1>1, <1>2, <1>3, <1>4, <1>5, <1>6, <1>7, <1>8, <1>9, <1>10
  DEF Store!Next, Store!Answer

\* A request that takes effect, on an object that its call names.
LEMMA WriteMaps ==
    ASSUME Store!RecordsAssumption, StoreTypes, NEW c \in Calls,
           \/ /\ storePc[c] \in {"create", "update"}
              /\ Store!Put(op[c].id, op[c].record)
           \/ /\ storePc[c] = "delete"
              /\ objects' = [objects EXCEPT ![op[c].id] = Store!Absent],
           \/ Store!Return(c, "ok", Store!Absent)
           \/ Store!Return(c, "error", Store!Absent)
    PROVE  Store!Register!Write(c)
<1>1. Store!Call[c].kind \in {"save", "delete"}
  BY DEF Store!Call, Store!Kind
<1>2. Store!Held' = [Store!Held EXCEPT ![Store!Call[c].id] = Store!Call[c].record]
  <2>1. CASE storePc[c] \in {"create", "update"} /\ Store!Put(op[c].id, op[c].record)
    <3>1. op[c].record \in Records /\ op[c].id \in Ids
      BY <2>1 DEF StoreTypes
    <3>2. Store!Call[c].id = op[c].id
            /\ Store!Call[c].record = Store!Normal(op[c].record)
      BY <2>1, <3>1, ReadBack DEF Store!Call
    <3>. QED
      BY <2>1, <3>1, <3>2, HeldPut
  <2>2. CASE /\ storePc[c] = "delete"
             /\ objects' = [objects EXCEPT ![op[c].id] = Store!Absent]
    <3>1. op[c].record = Store!Absent /\ op[c].id \in Ids
      BY <2>2 DEF StoreTypes
    <3>2. Store!Call[c].id = op[c].id /\ Store!Call[c].record = Store!Absent
      BY <2>2, <3>1 DEF Store!Call
    <3>. QED
      BY <2>2, <3>1, <3>2 DEF Store!Held, StoreTypes
  <2>. QED BY <2>1, <2>2
<1>3. \/ Store!Register!End(c, "ok", Store!Absent)
      \/ Store!Register!End(c, "error", Store!Absent)
  BY CallReturns
<1>. QED
  BY <1>1, <1>2, <1>3 DEF Store!Register!Write

\* A request that fails is a call that fails.
LEMMA FailMaps ==
    ASSUME StoreTypes, NEW c \in Calls, storePc[c] # "idle", UNCHANGED objects,
           Store!Return(c, "error", Store!Absent)
    PROVE  Store!Register!Fail(c)
<1>1. Store!Call[c] # Store!Register!Idle
  BY DEF Store!Call, Store!Kind, Store!Register!Idle, StoreTypes
<1>. QED
  BY <1>1, CallReturns DEF Store!Register!Fail, Store!Held

\* An error that is taken for the answer that there is nothing.
LEMMA OverlookMaps ==
    ASSUME StoreTypes, NEW c \in Calls, UNCHANGED objects,
           \/ storePc[c] = "get" /\ Store!Return(c, "not found", Store!Absent)
           \/ storePc[c] = "delete" /\ Store!Return(c, "ok", Store!Absent)
    PROVE  Store!Register!Overlook(c)
<1>1. Store!Call[c].kind = storePc[c] /\ UNCHANGED Store!Held
  BY DEF Store!Call, Store!Kind, Store!Held
<1>. QED
  BY <1>1, CallReturns DEF Store!Register!Overlook

RegisterVars == <<Store!Held, Store!Call, storeReply>>

\* The mapping does not see the step from the one request to the other.
LEMMA ConflictMaps ==
    ASSUME StoreTypes, NEW c \in Calls, storePc[c] = "create",
           storePc' = [storePc EXCEPT ![c] = "update"],
           UNCHANGED <<objects, op, storeReply, done>>
    PROVE  UNCHANGED RegisterVars
BY DEF RegisterVars, StoreTypes, Store!Held, Store!Call, Store!Kind

LEMMA ReadMaps ==
    ASSUME Store!RecordsAssumption, StoreTypes, NEW c \in Calls,
           Store!Found(c) \/ Store!NotFound(c)
    PROVE  Store!Register!Read(c)
<1>1. storePc[c] = "get" /\ op[c].id \in Ids /\ UNCHANGED Store!Held
  BY DEF Store!Found, Store!NotFound, StoreTypes, Store!Held
<1>2. Store!Call[c].kind = "get" /\ Store!Call[c].id = op[c].id
  BY <1>1 DEF Store!Call, Store!Kind
<1>3. CASE Store!Found(c)
  <2>1. objects[op[c].id] # Store!Absent
    BY <1>3 DEF Store!Found
  <2>2. PICK r \in Records : objects[op[c].id] = Store!repoToProperties(r)
    BY <1>1, <2>1 DEF StoreTypes
  <2>3. Store!Held[op[c].id] = Store!mapObjectToRepo(objects[op[c].id])
    BY <1>1, <2>1 DEF Store!Held
  <2>4. Store!Held[op[c].id] # Store!Absent
    BY <2>2, <2>3, ReadBack
  <2>. QED
    BY <1>1, <1>2, <1>3, <2>3, <2>4, CallReturns DEF Store!Found, Store!Register!Read
<1>4. CASE Store!NotFound(c)
  <2>1. Store!Held[op[c].id] = Store!Absent
    BY <1>1, <1>4 DEF Store!NotFound, Store!Held
  <2>. QED
    BY <1>1, <1>2, <1>4, <2>1, CallReturns DEF Store!NotFound, Store!Register!Read
<1>. QED
  BY <1>3, <1>4

\* An instance has its own name for what it takes from FiniteSets.
LEMMA OneCardinality ==
    ASSUME NEW S
    PROVE  /\ Store!Cardinality(S) = Cardinality(S)
           /\ Store!Register!Cardinality(S) = Cardinality(S)
BY Zenon DEF Store!Cardinality, Store!Register!Cardinality, Cardinality

LEMMA ListMaps ==
    ASSUME Store!RecordsAssumption, StoreTypes, NEW c \in Calls, Store!Listed(c)
    PROVE  Store!Register!ReadMany(c)
<1>. DEFINE present == {i \in Ids : Store!Held[i] # Store!Absent}
<1>1. ASSUME NEW i \in Ids
      PROVE /\ Store!Held[i] # Store!Absent <=> objects[i] # Store!Absent
            /\ objects[i] # Store!Absent =>
                  Store!Held[i] = Store!mapObjectToRepo(objects[i])
  <2>1. CASE objects[i] # Store!Absent
    <3>1. PICK r \in Records : objects[i] = Store!repoToProperties(r)
      BY <2>1 DEF StoreTypes
    <3>. QED
      BY <2>1, <3>1, ReadBack DEF Store!Held
  <2>2. CASE objects[i] = Store!Absent
    BY <2>2 DEF Store!Held
  <2>. QED BY <2>1, <2>2
<1>2. present = Store!Stored
  BY <1>1 DEF Store!Stored
<1>3. PICK some \in SUBSET Store!Stored :
         /\ Cardinality(some) = Store!Most(Cardinality(Store!Stored))
         /\ Store!Return(c, "list", [all |-> Store!Stored,
               got |-> {Store!parseGraphQLObject(i) : i \in some}])
  BY OneCardinality DEF Store!Listed, Store!Answered, Store!Most
<1>4. {Store!parseGraphQLObject(i) : i \in some}
      = {[id |-> i, record |-> Store!Held[i]] : i \in some}
  BY <1>1 DEF Store!parseGraphQLObject, Store!Stored
<1>5. storePc[c] = "list" /\ UNCHANGED Store!Held
  BY DEF Store!Listed, Store!Held
<1>6. Store!Call[c].kind = "list"
  BY <1>5 DEF Store!Call, Store!Kind
<1>7. Store!Register!End(c, "list", [all |-> present,
         got |-> {[id |-> i, record |-> Store!Held[i]] : i \in some}])
  BY <1>2, <1>3, <1>4, CallReturns
<1>. QED
  BY <1>2, <1>3, <1>5, <1>6, <1>7, OneCardinality DEF Store!Register!ReadMany

LEMMA StoreStep ==
    Store!RecordsAssumption /\ StoreTypes /\ [Store!Next]_(Store!vars)
    => [Store!Register!Next]_RegisterVars
<1>. SUFFICES ASSUME Store!RecordsAssumption, StoreTypes, [Store!Next]_(Store!vars)
              PROVE  Store!Register!Next \/ UNCHANGED RegisterVars
  OBVIOUS
<1>. DEFINE Goal == Store!Register!Next \/ UNCHANGED RegisterVars
<1>1. ASSUME NEW c \in Calls, NEW i \in Ids, NEW r \in Records, Store!Save(c, i, r)
      PROVE Goal
  <2>1. Store!Register!Start(c, "save", i, Store!Normal(r))
    BY <1>1, ReadBack, CallBegins
    DEF Store!Save, Store!Kind, Store!Register!Start, Store!Register!Idle
  <2>. QED
    BY <2>1 DEF Store!Register!Next
<1>2. ASSUME NEW c \in Calls, NEW i \in Ids, Store!FindByID(c, i) PROVE Goal
  <2>1. Store!Register!Start(c, "get", i, Store!Absent)
    BY <1>2, CallBegins DEF Store!FindByID, Store!Kind, Store!Register!Start
  <2>. QED
    BY <2>1 DEF Store!Register!Next
<1>3. ASSUME NEW c \in Calls, NEW i \in Ids, Store!Delete(c, i) PROVE Goal
  <2>1. Store!Register!Start(c, "delete", i, Store!Absent)
    BY <1>3, CallBegins DEF Store!Delete, Store!Kind, Store!Register!Start
  <2>. QED
    BY <2>1 DEF Store!Register!Next
<1>4. ASSUME NEW c \in Calls, Store!FindAll(c) PROVE Goal
  <2>1. Store!Register!Start(c, "list", Store!Absent, Store!Absent)
    BY <1>4, CallBegins DEF Store!FindAll, Store!Kind, Store!Register!Start
  <2>. QED
    BY <2>1 DEF Store!Register!Next
<1>5. ASSUME NEW c \in Calls, Store!Created(c) \/ Store!Updated(c) \/ Store!Deleted(c)
      PROVE Goal
  <2>1. Store!Register!Write(c)
    BY <1>5, WriteMaps DEF Store!Created, Store!Updated, Store!Deleted
  <2>. QED
    BY <2>1 DEF Store!Register!Next
<1>6. ASSUME NEW c \in Calls, Store!Conflict(c) PROVE Goal
  BY <1>6, ConflictMaps DEF Store!Conflict
<1>7. ASSUME NEW c \in Calls, Store!CreateFails(c) PROVE Goal
  <2>1. CASE Store!Return(c, "error", Store!Absent)
    BY <1>7, <2>1, FailMaps DEF Store!CreateFails, Store!Register!Next
  <2>2. CASE storePc' = [storePc EXCEPT ![c] = "update"] /\ UNCHANGED <<op,
          storeReply, done>>
    BY <1>7, <2>2, ConflictMaps DEF Store!CreateFails
  <2>. QED
    BY <1>7, <2>1, <2>2 DEF Store!CreateFails
<1>8. ASSUME NEW c \in Calls,
             Store!UpdateFails(c) \/ Store!GetFails(c) \/ Store!ListFails(c)
      PROVE Goal
  <2>1. CASE Store!UpdateFails(c) \/ Store!ListFails(c)
    BY <2>1, FailMaps DEF Store!UpdateFails, Store!ListFails, Store!Register!Next
  <2>2. CASE Store!GetFails(c)
    <3>1. \/ Store!Return(c, "not found", Store!Absent)
          \/ Store!Return(c, "error", Store!Absent)
      BY <2>2 DEF Store!GetFails
    <3>. QED
      BY <2>2, <3>1, FailMaps, OverlookMaps DEF Store!GetFails, Store!Register!Next
  <2>. QED BY <1>8, <2>1, <2>2
<1>9. ASSUME NEW c \in Calls, Store!DeleteFails(c) PROVE Goal
  <2>1. \/ Store!Return(c, "ok", Store!Absent)
        \/ Store!Return(c, "error", Store!Absent)
    BY <1>9 DEF Store!DeleteFails
  <2>. QED
    BY <1>9, <2>1, FailMaps, OverlookMaps DEF Store!DeleteFails, Store!Register!Next
<1>10. ASSUME NEW c \in Calls, Store!Found(c) \/ Store!NotFound(c) \/ Store!Listed(c)
       PROVE Goal
  BY <1>10, ReadMaps, ListMaps DEF Store!Register!Next
<1>11. CASE UNCHANGED Store!vars
  BY <1>11 DEF Store!vars, RegisterVars, Store!Held, Store!Call
<1>. QED
  BY <1>1, <1>2, <1>3, <1>4, <1>5, <1>6, <1>7, <1>8, <1>9, <1>10, <1>11
  DEF Store!Next, Store!Answer

\* The repository store is a register that is read and written as a whole.
THEOREM StoreIsARegister == Store!Spec => ImplementsRegister
<1>1. Store!Init => StoreTypes /\ Store!Register!Init
  BY StoreInit, StoreAssumption
<1>2. StoreTypes /\ [Store!Next]_(Store!vars) => StoreTypes'
  BY StoreTypesStep, StoreAssumption
<1>3. StoreTypes /\ [Store!Next]_(Store!vars)
      => [Store!Register!Next]_(Store!Register!vars)
  BY StoreStep, StoreAssumption DEF RegisterVars, Store!Register!vars
<1>. QED
  BY <1>1, <1>2, <1>3, PTL
  DEF Store!Spec, ImplementsRegister, Store!ImplementsRegister, Store!Register!Spec

-----------------------------------------------------------------------------
(* The race for the Weaviate classes.                                      *)

\* The types; how often a process has been started matters to nothing here.
LaunchTypes ==
    /\ stage \in [Servers -> Launch!Stages] /\ class \in [Servers -> Launch!Classes]
    /\ exit \in [Servers -> Launch!Reasons]
    /\ refused \in [Servers -> Nat]
    /\ classes \subseteq Launch!Classes

\* A process under way has no reason to have ended yet.
UnderWay == \A s \in Servers : stage[s] # "off" => exit[s] = "none"

\* The classes a process has passed exist, and it begins with the first.
Passed(s) ==
    /\ stage[s] \in {"config", "cache", "tracer", "postgres"} => class[s] = 1
    /\ stage[s] \in {"check", "create"} /\ class[s] = 2 => 1 \in classes
    /\ stage[s] \in {"embedder", "listen", "up"} => classes = Launch!Classes

\* How often the race was lost before, by the classes there are: once for each
\* at most, and never for a class that the process is still to create.
Losses(s) ==
    /\ 1 \notin classes => refused[s] = 0
    /\ 2 \notin classes => refused[s] <= 1
    /\ refused[s] <= 2
    /\ stage[s] = "create" => refused[s] <= class[s] - 1

\* A process that has not lost the race, and cannot lose one it has begun ...
SafeProcess(s) ==
    /\ exit[s] # "refused"
    /\ stage[s] = "create" => class[s] \notin classes

\* ... is there as soon as another one has lost or is about to.
LostProcess(s) ==
    \/ exit[s] = "refused"
    \/ stage[s] = "create" /\ class[s] \in classes
SomeoneSafe == (\E s \in Servers : LostProcess(s))
  => \E s \in Servers : SafeProcess(s)

LaunchInv ==
    /\ LaunchTypes /\ UnderWay
    /\ \A s \in Servers : Passed(s) /\ Losses(s)
    /\ SomeoneSafe

-----------------------------------------------------------------------------
LEMMA LaunchInit == Launch!Init => LaunchInv
BY
DEF Launch!Init, LaunchInv, LaunchTypes, UnderWay, Passed, Losses, SomeoneSafe,
    LostProcess, Launch!Classes,
       Launch!Stages, Launch!Reasons

\* One step of one process, seen by the others: they stay as they are.
OthersStay(s) ==
    \A t \in Servers \ {s} :
        /\ stage'[t] = stage[t] /\ class'[t] = class[t]
        /\ exit'[t] = exit[t] /\ refused'[t] = refused[t]

\* A step that does not touch the schema and ends with no loss.
LEMMA LaunchKept ==
    ASSUME LaunchInv, NEW s \in Servers, LaunchTypes', UnderWay', OthersStay(s),
      classes' = classes,
           exit'[s] # "refused", refused'[s] = refused[s],
           Passed(s)', stage'[s] = "create" => class[s] \notin classes
                                               /\ class'[s] = class[s]
    PROVE  LaunchInv'
<1>1. ASSUME NEW t \in Servers PROVE Passed(t)'
  BY DEF LaunchInv, Passed, OthersStay
<1>2. ASSUME NEW t \in Servers PROVE Losses(t)'
  <2>1. CASE t # s
    BY <2>1 DEF LaunchInv, Losses, OthersStay
  <2>2. CASE t = s
    BY <2>2 DEF LaunchInv, Losses, LaunchTypes, Launch!Classes
  <2> QED BY <2>1, <2>2
<1>3. SafeProcess(s)'
  BY DEF SafeProcess
<1>. QED
  BY <1>1, <1>2, <1>3 DEF LaunchInv, SomeoneSafe

\* Every step has types and leaves the other processes alone.
LEMMA LaunchStepTypes ==
    ASSUME LaunchInv, NEW s \in Servers, Launch!Start(s) \/ Launch!Step(s)
      \/ Launch!Kill(s)
    PROVE  LaunchTypes' /\ UnderWay' /\ OthersStay(s)
<1>. USE DEF LaunchInv, LaunchTypes, UnderWay, OthersStay, Launch!Stages,
             Launch!Reasons, Launch!Classes, Launch!To, Launch!Exit
<1>1. CASE Launch!Start(s)
  BY <1>1 DEF Launch!Start
<1>2. CASE Launch!LoadConfig(s) \/ Launch!NewHybridCache(s)
        \/ Launch!InitTracer(s) \/ Launch!ConnectPostgres(s)
  BY ZenonT(60), <1>2
  DEF Launch!LoadConfig, Launch!NewHybridCache, Launch!InitTracer,
      Launch!ConnectPostgres
<1>3. CASE Launch!CheckClass(s)
  BY <1>3 DEF Launch!CheckClass, Launch!Ensured
<1>4. CASE Launch!CreateClass(s)
  <2>1. CASE class[s] \notin classes /\ classes' = classes \cup {class[s]}
          /\ Launch!Ensured(s)
    BY ZenonT(60), <1>4, <2>1 DEF Launch!CreateClass, Launch!Ensured
  <2>2. CASE class[s] \notin classes /\ classes' = classes \cup {class[s]}
          /\ Launch!Exit(s, "schema")
    BY <1>4, <2>2 DEF Launch!CreateClass
  <2>3. CASE UNCHANGED classes /\ (Launch!Exit(s, "refused")
          \/ Launch!Exit(s, "schema"))
    BY <1>4, <2>3 DEF Launch!CreateClass
  <2>. QED
    BY <1>4, <2>1, <2>2, <2>3 DEF Launch!CreateClass
<1>5. CASE Launch!NewServices(s) \/ Launch!Run(s) \/ Launch!Kill(s)
  BY ZenonT(60), <1>5 DEF Launch!NewServices, Launch!Run, Launch!Kill
<1>. QED
  BY <1>1, <1>2, <1>3, <1>4, <1>5 DEF Launch!Step

\* The class that is missing is created.
LEMMA LaunchCreated ==
    ASSUME LaunchInv, NEW s \in Servers, LaunchTypes', UnderWay', OthersStay(s),
           stage[s] = "create", class[s] \notin classes,
           classes' = classes \cup {class[s]},
           Launch!Ensured(s) \/ Launch!Exit(s, "schema")
    PROVE  LaunchInv'
<1>1. refused' = refused /\ exit'[s] # "refused" /\ stage'[s] # "create"
  BY
  DEF Launch!Ensured, Launch!Exit, LaunchInv, LaunchTypes, UnderWay,
      Launch!Stages, Launch!Reasons
<1>2. class[s] \in {1, 2} /\ (class[s] = 2 => 1 \in classes)
  BY DEF LaunchInv, LaunchTypes, Launch!Classes, Passed
<1>3. ASSUME NEW t \in Servers PROVE Passed(t)'
  <2>1. CASE t # s
    BY <2>1 DEF LaunchInv, Passed, OthersStay, LaunchTypes, Launch!Classes
  <2>2. CASE t = s
    BY <1>2, <2>2
    DEF Passed, Launch!Ensured, Launch!Exit, LaunchInv, LaunchTypes, Launch!Classes
  <2>. QED BY <2>1, <2>2
<1>4. ASSUME NEW t \in Servers PROVE Losses(t)'
  BY <1>1, <1>2, <1>4 DEF LaunchInv, Losses, OthersStay, LaunchTypes
<1>5. SafeProcess(s)'
  BY <1>1 DEF SafeProcess
<1>. QED
  BY <1>3, <1>4, <1>5 DEF LaunchInv, SomeoneSafe

\* The race is lost: to somebody who will not lose it.
LEMMA LaunchRefused ==
    ASSUME LaunchInv, NEW s \in Servers, LaunchTypes', UnderWay', OthersStay(s),
           stage[s] = "create", class[s] \in classes, classes' = classes,
           Launch!Exit(s, "refused")
    PROVE  LaunchInv'
<1>1. /\ refused' = [refused EXCEPT ![s] = @ + 1]
      /\ stage'[s] = "off" /\ exit'[s] = "refused"
  BY DEF Launch!Exit, LaunchInv, LaunchTypes
<1>2. PICK t \in Servers : SafeProcess(t)
  BY DEF LaunchInv, SomeoneSafe, LostProcess
<1>3. t # s
  BY <1>2 DEF SafeProcess
<1>4. SafeProcess(t)'
  BY <1>2, <1>3 DEF SafeProcess, OthersStay
<1>5. class[s] \in {1, 2} /\ (class[s] = 2 => 1 \in classes)
  BY DEF LaunchInv, LaunchTypes, Launch!Classes, Passed
<1>6. refused[s] \in Nat /\ refused'[s] = refused[s] + 1
  BY <1>1 DEF LaunchInv, LaunchTypes
<1>7. ASSUME NEW u \in Servers PROVE Passed(u)'
  BY <1>1 DEF LaunchInv, Passed, OthersStay
<1>8. ASSUME NEW u \in Servers PROVE Losses(u)'
  <2>1. CASE u # s
    BY <2>1 DEF LaunchInv, Losses, OthersStay
  <2>2. CASE u = s
    BY <1>1, <1>5, <1>6, <2>2 DEF LaunchInv, Losses
  <2>. QED BY <2>1, <2>2
<1>. QED
  BY <1>4, <1>7, <1>8 DEF LaunchInv, SomeoneSafe

LEMMA LaunchStep == LaunchInv /\ [Launch!Next]_(Launch!vars) => LaunchInv'
<1>. SUFFICES ASSUME LaunchInv, [Launch!Next]_(Launch!vars) PROVE LaunchInv'
  OBVIOUS
<1>1. CASE UNCHANGED Launch!vars
  BY <1>1
  DEF Launch!vars, LaunchInv, LaunchTypes, UnderWay, Passed, Losses, SomeoneSafe,
      LostProcess, SafeProcess
<1>2. ASSUME NEW s \in Servers, Launch!Start(s) \/ Launch!Step(s) \/ Launch!Kill(s)
      PROVE LaunchInv'
  <2>1. LaunchTypes' /\ UnderWay' /\ OthersStay(s)
    BY <1>2, LaunchStepTypes
  <2>2. CASE Launch!Start(s)
    <3>. /\ stage'[s] = "config" /\ exit'[s] = "none"
         /\ classes' = classes /\ refused' = refused
      BY <2>2 DEF Launch!Start, LaunchInv, LaunchTypes
    <3>. Passed(s)'
      BY <2>2 DEF Passed, Launch!Start, LaunchInv, LaunchTypes
    <3>. QED BY <2>1, LaunchKept
  <2>3. ASSUME NEW next \in {"cache", "tracer", "postgres"}, Launch!To(s, next),
          UNCHANGED classes,
               stage[s] \in {"config", "cache", "tracer"}
        PROVE  LaunchInv'
    <3>. /\ stage'[s] = next /\ exit'[s] = "none"
         /\ classes' = classes /\ refused' = refused
      BY <2>3 DEF Launch!To, LaunchInv, LaunchTypes, UnderWay
    <3>. Passed(s)'
      BY <2>3 DEF Passed, Launch!To, LaunchInv
    <3>. QED BY <2>1, LaunchKept
  <2>4. ASSUME NEW reason, reason # "refused", Launch!Exit(s, reason),
          UNCHANGED classes
        PROVE  LaunchInv'
    <3>. /\ stage'[s] = "off" /\ exit'[s] = reason
         /\ classes' = classes /\ refused' = refused
      BY <2>1, <2>4 DEF Launch!Exit, LaunchInv, LaunchTypes
    <3>. Passed(s)'
      BY DEF Passed
    <3>. QED BY <2>1, <2>4, LaunchKept
  <2>5. CASE Launch!LoadConfig(s)
    BY <2>3, <2>4, <2>5 DEF Launch!LoadConfig
  <2>6. CASE Launch!NewHybridCache(s)
    BY <2>3, <2>6 DEF Launch!NewHybridCache
  <2>7. CASE Launch!InitTracer(s)
    BY <2>3, <2>4, <2>7 DEF Launch!InitTracer
  <2>8. CASE Launch!ConnectPostgres(s)
    <3>1. CASE Launch!To(s, "check") /\ UNCHANGED classes /\ stage[s] = "postgres"
      <4>. /\ stage'[s] = "check" /\ exit'[s] = "none"
           /\ classes' = classes /\ refused' = refused
        BY <3>1 DEF Launch!To, LaunchInv, LaunchTypes, UnderWay
      <4>. Passed(s)'
        BY <3>1 DEF Passed, Launch!To, LaunchInv
      <4>. QED BY <2>1, LaunchKept
    <3>. QED BY <2>4, <2>8, <3>1 DEF Launch!ConnectPostgres
  <2>9. CASE Launch!CheckClass(s)
    <3>1. CASE class[s] \in classes /\ Launch!Ensured(s) /\ UNCHANGED classes
            /\ stage[s] = "check"
      <4>1. /\ stage'[s] \in {"check", "embedder"} /\ exit'[s] = "none"
            /\ classes' = classes /\ refused' = refused
        BY <3>1 DEF Launch!Ensured, LaunchInv, LaunchTypes, UnderWay
      <4>2. Passed(s)'
        <5>1. CASE class[s] = 1
          BY <3>1, <5>1 DEF Passed, Launch!Ensured, LaunchInv, LaunchTypes
        <5>2. CASE class[s] # 1
          <6>1. class[s] = 2 /\ 1 \in classes /\ 2 \in classes
                  /\ classes \subseteq {1, 2}
            BY <3>1, <5>2 DEF Passed, LaunchInv, LaunchTypes, Launch!Classes
          <6>2. classes = Launch!Classes
            BY <6>1 DEF Launch!Classes
          <6>3. stage'[s] = "embedder"
            BY <3>1, <5>2 DEF Launch!Ensured, LaunchInv, LaunchTypes
          <6>. QED BY <3>1, <6>2, <6>3 DEF Passed
        <5>. QED BY <5>1, <5>2
      <4>. QED BY <2>1, <4>1, <4>2, LaunchKept
    <3>2. CASE class[s] \notin classes /\ Launch!To(s, "create") /\ UNCHANGED classes
               /\ stage[s] = "check"
      <4>1. /\ stage'[s] = "create" /\ exit'[s] = "none" /\ class'[s] = class[s]
            /\ classes' = classes /\ refused' = refused
        BY <3>2 DEF Launch!To, LaunchInv, LaunchTypes, UnderWay
      <4>2. Passed(s)'
        BY <3>2, <4>1 DEF Passed, LaunchInv
      <4>. QED BY <2>1, <3>2, <4>1, <4>2, LaunchKept
    <3>. QED BY <2>4, <2>9, <3>1, <3>2 DEF Launch!CheckClass
  <2>10. CASE Launch!CreateClass(s)
    BY <2>1, <2>4, <2>10, LaunchCreated, LaunchRefused DEF Launch!CreateClass
  <2>11. CASE Launch!NewServices(s)
    <3>1. CASE Launch!To(s, "listen") /\ UNCHANGED classes /\ stage[s] = "embedder"
      <4>1. /\ stage'[s] = "listen" /\ exit'[s] = "none"
            /\ classes' = classes /\ refused' = refused
        BY <3>1 DEF Launch!To, LaunchInv, LaunchTypes, UnderWay
      <4>2. Passed(s)'
        BY <3>1, <4>1 DEF Passed, LaunchInv
      <4>. QED BY <2>1, <4>1, <4>2, LaunchKept
    <3>. QED BY <2>4, <2>11, <3>1 DEF Launch!NewServices
  <2>12. CASE Launch!Run(s)
    <3>1. CASE Launch!To(s, "up") /\ UNCHANGED classes /\ stage[s] = "listen"
      <4>1. /\ stage'[s] = "up" /\ exit'[s] = "none"
            /\ classes' = classes /\ refused' = refused
        BY <3>1 DEF Launch!To, LaunchInv, LaunchTypes, UnderWay
      <4>2. Passed(s)'
        BY <3>1, <4>1 DEF Passed, LaunchInv
      <4>. QED BY <2>1, <4>1, <4>2, LaunchKept
    <3>. QED BY <2>4, <2>12, <3>1 DEF Launch!Run
  <2>13. CASE Launch!Kill(s)
    BY <2>4, <2>13 DEF Launch!Kill
  <2>. QED
    BY <1>2, <2>2, <2>5, <2>6, <2>7, <2>8, <2>9, <2>10, <2>11, <2>12, <2>13
    DEF Launch!Step
<1>. QED
  BY <1>1, <1>2 DEF Launch!Next

LEMMA LaunchInvariant == Launch!Spec => []LaunchInv
BY LaunchInit, LaunchStep, PTL DEF Launch!Spec

-----------------------------------------------------------------------------
\* Starts are counted up to the bound.
StartsCounted == starts \in [Servers -> 0..MaxStarts]

LEMMA StartsStep ==
    ASSUME MaxStarts \in Nat, StartsCounted, [Launch!Next]_(Launch!vars)
    PROVE  StartsCounted'
<1>. USE DEF StartsCounted
<1>1. ASSUME NEW s \in Servers, Launch!Start(s) PROVE StartsCounted'
  BY <1>1 DEF Launch!Start
<1>2. ASSUME NEW s \in Servers, Launch!Step(s) \/ Launch!Kill(s)
      PROVE  StartsCounted'
  BY <1>2
  DEF Launch!Step, Launch!LoadConfig, Launch!NewHybridCache, Launch!InitTracer,
      Launch!ConnectPostgres, Launch!CheckClass, Launch!CreateClass, Launch!Ensured,
      Launch!NewServices, Launch!Run, Launch!Kill, Launch!To, Launch!Exit
<1>3. CASE UNCHANGED Launch!vars
  BY <1>3 DEF Launch!vars
<1>. QED
  BY <1>1, <1>2, <1>3 DEF Launch!Next

LEMMA TwoClasses == Launch!Cardinality(Launch!Classes) = 2
<1>1. Launch!Classes = 1..2
  BY DEF Launch!Classes
<1>2. 1 \in Int /\ 2 \in Int /\ ~(1 > 2) /\ 2 - 1 + 1 = 2
  OBVIOUS
<1>3. Cardinality(1..2) = 2
  BY <1>2, FS_Interval, Zenon
<1>4. Launch!Cardinality(1..2) = Cardinality(1..2)
  BY Zenon DEF Launch!Cardinality, Cardinality
<1>. QED
  BY <1>1, <1>3, <1>4

\* No process takes requests over a Weaviate that lacks one of the classes,
\* whoever created them and whoever was killed meanwhile; whoever lost the race
\* for a class lost it to a process that went on or ended for a reason of its
\* own; and however often a process is started again, it loses the race at most
\* once for each class (ensureSchema).
THEOREM ThereIsOneSchema == Launch!Spec => []OneSchema
<1>1. Servers # {} /\ MaxStarts \in Nat
  BY LaunchAssumption DEF Launch!StartAssumption
<1>2. Launch!Init => StartsCounted
  BY <1>1 DEF Launch!Init, StartsCounted
<1>3. StartsCounted /\ [Launch!Next]_(Launch!vars) => StartsCounted'
  BY <1>1, StartsStep
<1>4. LaunchInv => Launch!ServesWithSchema
  BY DEF LaunchInv, Passed, Launch!ServesWithSchema
<1>5. LaunchInv => Launch!NotAllRefused
  BY <1>1 DEF LaunchInv, SomeoneSafe, LostProcess, SafeProcess,
              Launch!NotAllRefused
<1>6. LaunchInv => Launch!RefusedOncePerClass
  BY TwoClasses DEF LaunchInv, Losses, Launch!RefusedOncePerClass
<1>7. LaunchInv /\ StartsCounted => OneSchema
  BY <1>4, <1>5, <1>6
  DEF OneSchema, Launch!OneSchema, LaunchInv, LaunchTypes, StartsCounted,
      Launch!TypeOK
<1>. QED
  BY <1>2, <1>3, <1>7, LaunchInvariant, PTL DEF Launch!Spec

-----------------------------------------------------------------------------
(* The configuration of a production server.                               *)

LEMMA ConfigTypes == Loader!Init => Loader!TypeOK
BY DEF Loader!Init, Loader!TypeOK, Loader!Nothing

\* A process that runs has passed both checks, with what viper merged.
LoaderInv ==
    /\ Loader!TypeOK
    /\ status = "running" => Loader!Accepted(config)
    /\ status \in {"unmarshalled", "running"} =>
         config = [k \in Loader!Keys |-> Loader!Value(k)]

LEMMA LoaderStep == LoaderInv /\ [Loader!Next]_(Loader!vars) => LoaderInv'
<1>. SUFFICES ASSUME LoaderInv, [Loader!Next]_(Loader!vars) PROVE LoaderInv'
  OBVIOUS
<1>. USE DEF LoaderInv, Loader!TypeOK
\* The sources stay as they are.
<1>0. UNCHANGED <<env, cwdFile, pathFile>> =>
        \A k : Loader!Value(k)' = Loader!Value(k)
  BY DEF Loader!Value, Loader!FromEnvironment, Loader!InFile, Loader!File,
         Loader!Environment
<1>1. CASE Loader!ReadFails
  BY <1>1 DEF Loader!ReadFails
<1>2. CASE Loader!Unmarshal
  BY <1>0, <1>2 DEF Loader!Unmarshal
<1>3. CASE Loader!Validate
  BY <1>0, <1>3 DEF Loader!Validate
<1>4. CASE UNCHANGED Loader!vars
  BY <1>0, <1>4 DEF Loader!vars
<1>. QED
  BY <1>1, <1>2, <1>3, <1>4 DEF Loader!Next

\* A key that nobody has set has its default.
LEMMA UnsetIsDefault ==
    ASSUME NEW k \in {"source", "jwt_secret"}, ~Loader!Set(k)
    PROVE  Loader!Value(k) = Loader!Default[k]
BY DEF Loader!Set, Loader!Value, Loader!Registered, Loader!Keys

\* No server takes requests in production with a database or a secret that
\* nobody has set, whatever file is read and whatever the environment overrides
\* (LoadConfig).
THEOREM ProductionIsConfigured == Loader!Spec => []NothingFallsBack
<1>1. Loader!Init => LoaderInv
  BY ConfigTypes DEF LoaderInv, Loader!Init
<1>2. LoaderInv => NothingFallsBack
  <2>1. ASSUME LoaderInv, status = "running", config.environment = "production"
        PROVE  Loader!Set("source") /\ Loader!Set("jwt_secret")
    <3>1. /\ config.jwt_secret # Loader!Default.jwt_secret
          /\ config.source # Loader!Default.source
      BY <2>1 DEF LoaderInv, Loader!Accepted, Loader!SafeForProduction,
                  Loader!DefaultCredentials
    <3>2. /\ config.jwt_secret = Loader!Value("jwt_secret")
          /\ config.source = Loader!Value("source")
      BY <2>1 DEF LoaderInv, Loader!Keys
    <3>. QED
      BY <3>1, <3>2, UnsetIsDefault
  <2>. QED
    BY <2>1 DEF LoaderInv, NothingFallsBack, Loader!NothingFallsBack
<1>. QED
  BY <1>1, <1>2, LoaderStep, PTL DEF Loader!Spec

-----------------------------------------------------------------------------
(* The parts together, as the run checks them.                             *)

\* A behaviour of the parts is one of each of them.
THEOREM PartsAreComponents ==
    PartsSpec => Spec /\ Store!Spec /\ Launch!Spec /\ Loader!Spec
<1>1. PartsInit => Init /\ Store!Init /\ Launch!Init /\ Loader!Init
  BY DEF PartsInit, StartAtRest, ConfigAtRest
<1>2. [PartsNext]_<<part, vars, storeVars, startVars, configVars>> =>
        /\ [Next]_vars
        /\ [Store!Next]_(Store!vars)
        /\ [Launch!Next]_(Launch!vars)
        /\ [Loader!Next]_(Loader!vars)
  <2>1. /\ UNCHANGED storeVars => UNCHANGED Store!vars
        /\ UNCHANGED startVars => UNCHANGED Launch!vars
        /\ UNCHANGED configVars => UNCHANGED Loader!vars
    BY DEF storeVars, startVars, configVars, Store!vars, Launch!vars, Loader!vars
  <2>. QED
    BY <2>1 DEF PartsNext
<1>. QED
  BY <1>1, <1>2, PTL DEF PartsSpec, Spec, Store!Spec, Launch!Spec, Loader!Spec

\* Whatever part a behaviour of the run explores, the properties of all hold.
THEOREM PartsAreSafe ==
    PartsSpec =>
      /\ [](TokenIsTheAccounts /\ OneSchema /\ NothingFallsBack)
      /\ AccountsStay /\ PasswordsStay /\ ImplementsRegister
BY PartsAreComponents, TokensLeadHome, ThereIsOneSchema, ProductionIsConfigured,
   AccountsAreKept, PasswordsAreKept, StoreIsARegister, PTL
=============================================================================
