---------------------------- MODULE Registration ----------------------------
(***************************************************************************)
(* Accounts: the register, login and me resolvers, AuthService, the users  *)
(* table of Postgres and the tokens.  Requests of several clients run at   *)
(* the same time, and every call to the table may fail.                    *)
(*                                                                         *)
(* A hash stands for the password it is made of: CheckPasswordHash holds   *)
(* of the two and of no others.  The role is Viewer for every account this *)
(* code makes, and left out.                                               *)
(***************************************************************************)
EXTENDS Integers

CONSTANTS
    Clients,      \* each sends one request after the other
    Names,        \* usernames
    Passwords,
    NoPassword,   \* the hash of no account
    MaxRequests   \* bound: requests of a run

ASSUME PasswordAssumption == NoPassword \notin Passwords
ASSUME SomebodyAssumption == Names # {} /\ Passwords # {}
ASSUME BoundAssumption == MaxRequests \in Nat

VARIABLES
    users,     \* the table: the row of each name
    lastId,    \* the last uuid that NewUser has drawn
    pc,        \* the call the client's request is about to make
    req,       \* what each client asked last
    new,       \* the id of the *domain.User that Register makes
    row,       \* the row the request has read
    reply,     \* the answer to the last request; "none" before it
    token,     \* UserID of the client's last token; 0 without one
    requests,  \* requests so far
    excused    \* history: the name was free when the request came, or its
               \* check failed

vars == <<users, lastId, pc, req, new, row, reply, token, requests, excused>>

Row == [id : Nat \ {0}, hash : Passwords]
NoUser == [id |-> 0, hash |-> NoPassword]
Exists(n) == users[n] # NoUser

PC == {"idle", "check", "hash", "save", "find", "compare", "me"}
Request == [kind : {"register", "login", "me"}, name : Names, password : Passwords]
Reply == {"none", "token", "taken", "invalid", "error", "user", "missing"}

-----------------------------------------------------------------------------
Init ==
    /\ users = [n \in Names |-> NoUser]
    /\ lastId = 0
    /\ pc = [c \in Clients |-> "idle"]
    /\ req \in [Clients -> {[kind |-> "login", name |-> CHOOSE n \in Names : TRUE,
                             password |-> CHOOSE p \in Passwords : TRUE]}]
    /\ new = [c \in Clients |-> 0]
    /\ row = [c \in Clients |-> NoUser]
    /\ reply = [c \in Clients |-> "none"]
    /\ token = [c \in Clients |-> 0]
    /\ requests = 0
    /\ excused = [c \in Clients |-> FALSE]

\* A request comes in: its first call is `first`.
Begin(c, r, first) ==
    /\ pc[c] = "idle" /\ requests < MaxRequests
    /\ requests' = requests + 1
    /\ req' = [req EXCEPT ![c] = r]
    /\ pc' = [pc EXCEPT ![c] = first]
    /\ new' = [new EXCEPT ![c] = 0]
    /\ row' = [row EXCEPT ![c] = NoUser]
    /\ reply' = [reply EXCEPT ![c] = "none"]
    /\ excused' = [excused EXCEPT ![c] = ~Exists(r.name)]
    /\ UNCHANGED <<users, lastId>>

Register(c, n, p) ==
    /\ Begin(c, [kind |-> "register", name |-> n, password |-> p], "check")
    /\ token' = [token EXCEPT ![c] = 0]

Login(c, n, p) ==
    /\ Begin(c, [kind |-> "login", name |-> n, password |-> p], "find")
    /\ token' = [token EXCEPT ![c] = 0]

\* With the token of the client's last request.
Me(c) ==
    /\ token[c] # 0
    /\ Begin(c, [req[c] EXCEPT !.kind = "me"], "me")
    /\ UNCHANGED token

\* The request is answered with a.
Answer(c, a) ==
    /\ pc' = [pc EXCEPT ![c] = "idle"]
    /\ reply' = [reply EXCEPT ![c] = a]

\* Mutant: Register does not look for the name first.
CheckNameSkipped(c) ==
    /\ pc[c] = "check"
    /\ pc' = [pc EXCEPT ![c] = "hash"]
    /\ UNCHANGED <<users, lastId, req, new, row, reply, token, requests, excused>>

\* Register's FindByUsername.
CheckName(c) ==
    /\ pc[c] = "check"
    /\ IF Exists(req[c].name) THEN Answer(c, "taken")
       ELSE pc' = [pc EXCEPT ![c] = "hash"] /\ UNCHANGED reply
    /\ UNCHANGED <<users, lastId, req, new, row, token, requests, excused>>

\* It returns an error: to Register, any error means that the name is free.
CheckFails(c) ==
    /\ pc[c] = "check"
    /\ pc' = [pc EXCEPT ![c] = "hash"]
    /\ excused' = [excused EXCEPT ![c] = TRUE]
    /\ UNCHANGED <<users, lastId, req, new, row, reply, token, requests>>

\* HashPassword and NewUser.
Hash(c) ==
    /\ pc[c] = "hash"
    /\ lastId' = lastId + 1
    /\ new' = [new EXCEPT ![c] = lastId + 1]
    /\ pc' = [pc EXCEPT ![c] = "save"]
    /\ UNCHANGED <<users, req, row, reply, token, requests, excused>>

\* Mutant: the conflict clause updates the whole row.
UpsertId(c) ==
    users' = [users EXCEPT ![req[c].name] = [id |-> new[c], hash |-> req[c].password]]

\* INSERT ... ON CONFLICT(username) DO UPDATE: a row keeps its id.
Upsert(c) ==
    LET n == req[c].name IN
    users' = [users EXCEPT ![n] = [id   |-> IF Exists(n) THEN users[n].id ELSE new[c],
                                   hash |-> req[c].password]]

\* UserStore.Save; the resolver goes on with Login.
Save(c) ==
    /\ pc[c] = "save"
    /\ Upsert(c)
    /\ pc' = [pc EXCEPT ![c] = "find"]
    /\ UNCHANGED <<lastId, req, new, row, reply, token, requests, excused>>

\* Save's answer is lost.
SaveUnknown(c) ==
    /\ pc[c] = "save"
    /\ Upsert(c)
    /\ Answer(c, "error")
    /\ UNCHANGED <<lastId, req, new, row, token, requests, excused>>

\* Login's FindByUsername.
Find(c) ==
    /\ pc[c] = "find"
    /\ IF Exists(req[c].name)
       THEN /\ row' = [row EXCEPT ![c] = users[req[c].name]]
            /\ pc' = [pc EXCEPT ![c] = "compare"]
            /\ UNCHANGED reply
       ELSE Answer(c, "invalid") /\ UNCHANGED row
    /\ UNCHANGED <<users, lastId, req, new, token, requests, excused>>

\* Mutant: the token is for the user Register made.
CompareTokenForNew(c) ==
    /\ pc[c] = "compare"
    /\ IF row[c].hash = req[c].password
       THEN /\ token' = [token EXCEPT ![c] = IF new[c] # 0 THEN new[c] ELSE row[c].id]
            /\ Answer(c, "token")
       ELSE Answer(c, "invalid") /\ UNCHANGED token
    /\ UNCHANGED <<users, lastId, req, new, row, requests, excused>>

\* CheckPasswordHash and GenerateToken.
Compare(c) ==
    /\ pc[c] = "compare"
    /\ IF row[c].hash = req[c].password
       THEN token' = [token EXCEPT ![c] = row[c].id] /\ Answer(c, "token")
       ELSE Answer(c, "invalid") /\ UNCHANGED token
    /\ UNCHANGED <<users, lastId, req, new, row, requests, excused>>

\* ValidateToken and FindByID.
FindMe(c) ==
    /\ pc[c] = "me"
    /\ \/ \E n \in Names :
            /\ users[n].id = token[c]
            /\ row' = [row EXCEPT ![c] = users[n]]
            /\ Answer(c, "user")
       \/ /\ \A n \in Names : users[n].id # token[c]
          /\ Answer(c, "missing")
          /\ UNCHANGED row
    /\ UNCHANGED <<users, lastId, req, new, token, requests, excused>>

\* A call returns an error, or the token has expired: that is the answer.  Of
\* Login's query it is "invalid credentials" too.
Fails(c) ==
    /\ pc[c] \in {"hash", "save", "find", "me"}
    /\ Answer(c, IF pc[c] = "find" THEN "invalid" ELSE "error")
    /\ UNCHANGED <<users, lastId, req, new, row, token, requests, excused>>

Work(c) ==
    \/ CheckName(c) \/ CheckFails(c) \/ Hash(c) \/ Save(c) \/ SaveUnknown(c)
    \/ Find(c) \/ Compare(c) \/ FindMe(c) \/ Fails(c)

Next ==
    \E c \in Clients :
      \/ \E n \in Names, p \in Passwords : Register(c, n, p) \/ Login(c, n, p)
      \/ Me(c)
      \/ Work(c)

Spec == Init /\ [][Next]_vars

-----------------------------------------------------------------------------
TypeOK ==
    /\ users \in [Names -> Row \cup {NoUser}]
    /\ lastId \in Nat
    /\ requests \in 0..MaxRequests
    /\ pc \in [Clients -> PC]
    /\ req \in [Clients -> Request]
    /\ new \in [Clients -> 0..lastId]
    /\ row \in [Clients -> Row \cup {NoUser}]
    /\ reply \in [Clients -> Reply]
    /\ token \in [Clients -> 0..lastId]
    /\ excused \in [Clients -> BOOLEAN]

\* A token leads to the account it was asked for, to no other one, and still
\* does after whatever has been registered since.
TokenIsTheAccounts ==
    \A c \in Clients :
      /\ token[c] # 0 => \A n \in Names : users[n].id = token[c] <=> n = req[c].name
      /\ reply[c] # "missing"

\* An account stays, under the id it was made with.
AccountsStay ==
    [][\A n \in Names : Exists(n) => users'[n] # NoUser /\ users'[n].id = users[n].id]_vars

\* Who has registered a name keeps the password, but for another registration
\* that came before there was the account, or that could not look.
PasswordsStay ==
    [][\A n \in Names : Exists(n) /\ users'[n].hash # users[n].hash =>
         \E c \in Clients : pc[c] = "save" /\ req[c].name = n /\ excused[c]]_vars
=============================================================================
