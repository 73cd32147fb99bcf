--------------------------- MODULE AccountsProofs ---------------------------
(* What Accounts promises, for every number of workers, names, users and     *)
(* sessions, any duration of a session and any time zone of the database.    *)
EXTENDS Accounts, FiniteSetTheorems, TLAPS

USE DEF store, tools

\* What TypeOK says of the two tables and the clock ...
StoreOK ==
    /\ users \in [UserIds -> [name : Names, role : {"user", "admin"}] \cup {NoUser}]
    /\ nextUser \in 1..(MaxUsers + 1)
    /\ sessions \in [Tokens -> [user : UserIds, expires : Int] \cup {NoSession}]
    /\ nextToken \in 1..(MaxTokens + 1)
    /\ now \in 0..MaxHours
    /\ issued \in [Tokens -> 0..MaxUsers]

\* ... and of the workers and the tool.
Ats == {"idle", "checkName", "insertUser", "findUser", "stamp", "insertSession", "destroy",
        "findSession", "findOwner", "dropOrphan", "act"}
Replies == {"none", "ok", "taken", "failed", "unauthorized", "forbidden"}

WorkersOK ==
    /\ at \in [Workers -> Ats]
    /\ DOMAIN req = Workers /\ who \in [Workers -> 0..MaxUsers]
    /\ until \in [Workers -> Int]
    /\ reply \in [Workers -> Replies]
    /\ misread \subseteq Workers

ToolOK == tool \in {"sessions", "users", "find", "drop", "add"} \cup Ended /\ alone \in BOOLEAN

LEMMA TypeParts == TypeOK <=> StoreOK /\ WorkersOK /\ ToolOK
  BY DEF TypeOK, StoreOK, WorkersOK, ToolOK, Ats, Replies

\* What a request knows at its next statement.  A session that was valid neither
\* when the request began nor since does not become so, and a user that was
\* deleted does not come back: ids are not given twice and the clock does not go
\* back.
RequestOK(w) ==
    /\ at[w] \in {"checkName", "insertUser", "findUser"} => req[w].name \in Names
    /\ at[w] \in {"destroy", "findSession", "findOwner", "dropOrphan", "act"} =>
          req[w].token \in 0..(nextToken - 1)
    /\ at[w] \in {"stamp", "insertSession", "findOwner", "dropOrphan", "act"} =>
          who[w] \in UserIds /\ who[w] < nextUser
    /\ at[w] = "findSession" /\ Valid(req[w].token) => req[w].valid
    /\ at[w] \in {"findOwner", "act"} => req[w].valid
    /\ at[w] \in {"findOwner", "dropOrphan", "act"} =>
          req[w].token \in Tokens /\ who[w] = issued[req[w].token]
    /\ at[w] = "dropOrphan" => w \in misread \/ users[who[w]] = NoUser
    /\ at[w] = "act" /\ users[who[w]] # NoUser => users[who[w]].role = "admin"

\* AccountsConsistent in terms of rows.  An id that was not given yet has no row.
TablesOK ==
    /\ \A u \in UserIds : u >= nextUser => users[u] = NoUser
    /\ \A u, v \in UserIds :
          users[u] # NoUser /\ users[v] # NoUser /\ users[u].name = users[v].name => u = v
    /\ \A t \in Tokens : sessions[t] # NoSession =>
          users[sessions[t].user] # NoUser /\ sessions[t].user = issued[t]
    /\ tool = "idle" => \E u \in UserIds : users[u] = Account(Admin, "admin")

Inv == TypeOK /\ (\A w \in Workers : RequestOK(w)) /\ TablesOK
-----------------------------------------------------------------------------
LEMMA InvInit == Init => Inv
<1> SUFFICES ASSUME Init PROVE Inv
  OBVIOUS
<1>1. 1 \in UserIds /\ MaxUsers \in Nat /\ MaxTokens \in Nat /\ MaxHours \in Nat
  BY BoundAssumption DEF UserIds
<1>2. Account(Admin, "admin") \in [name : Names, role : {"user", "admin"}]
  BY NamesAssumption DEF Account
<1>3. StoreOK
  <2>1. users \in [UserIds -> [name : Names, role : {"user", "admin"}] \cup {NoUser}]
    BY <1>2 DEF Init
  <2>2. nextUser \in 1..(MaxUsers + 1) /\ nextToken \in 1..(MaxTokens + 1) /\ now \in 0..MaxHours
    BY BoundAssumption DEF Init
  <2>3. sessions \in [Tokens -> [user : UserIds, expires : Int] \cup {NoSession}]
    BY DEF Init
  <2>4. issued \in [Tokens -> 0..MaxUsers]
    BY <1>1 DEF Init
  <2> QED BY <2>1, <2>2, <2>3, <2>4 DEF StoreOK
<1>4. WorkersOK /\ ToolOK
  <2>1. at \in [Workers -> Ats] /\ reply \in [Workers -> Replies] /\ misread \subseteq Workers
    BY DEF Init, Ats, Replies
  <2>2. who \in [Workers -> 0..MaxUsers] /\ until \in [Workers -> Int] /\ DOMAIN req = Workers
    BY <1>1 DEF Init
  <2>3. ToolOK
    BY DEF Init, ToolOK, Ended
  <2> QED BY <2>1, <2>2, <2>3 DEF WorkersOK
<1>5. TablesOK
  BY <1>1, <1>2 DEF Init, TablesOK, UserIds
<1>6. \A w \in Workers : RequestOK(w)
  BY DEF Init, RequestOK
<1> QED BY <1>3, <1>4, <1>5, <1>6, TypeParts DEF Inv
-----------------------------------------------------------------------------
(* The steps, by what they leave alone.                                    *)

\* A request that is answered, with the tables as they are.
JustAnswers(w) ==
    \E s \in Replies : Answer(w, s) /\ UNCHANGED <<store, now, tools, issued>>

\* A request that goes on, with the tables as they are.
GoesOn(w) ==
    \/ NameFree(w) \/ FindUser(w) \/ Stamp(w) \/ FindSession(w) \/ OwnerIsAdmin(w)
    \/ NoOwnerFound(w) \/ \E r \in Requests : Begin(w, r)

\* A request that changes a table and is answered.
Writes(w) == InsertUser(w) \/ InsertSession(w) \/ Destroy(w) \/ DropOrphan(w)

LEMMA WorkerSteps ==
    ASSUME NEW w \in Workers,
           \/ \E r \in Requests : Begin(w, r)
           \/ Register(w) \/ Login(w) \/ Logout(w) \/ RequireAdmin(w)
    PROVE  JustAnswers(w) \/ GoesOn(w) \/ Writes(w)
<1>1. CASE NameTaken(w) \/ InsertUserFails(w) \/ LoginRefused(w) \/ InsertSessionFails(w)
           \/ DestroyFails(w)
  BY <1>1 DEF NameTaken, InsertUserFails, LoginRefused, InsertSessionFails, DestroyFails,
              JustAnswers, Replies
<1>2. CASE NoSessionFound(w) \/ OwnerIsNoAdmin(w) \/ DropOrphanFails(w) \/ Act(w)
  BY <1>2 DEF NoSessionFound, OwnerIsNoAdmin, DropOrphanFails, Act, JustAnswers, Replies
<1> QED BY <1>1, <1>2 DEF Register, Login, Logout, RequireAdmin, GoesOn, Writes
-----------------------------------------------------------------------------
(* Types.                                                                  *)

LEMMA AnswerKeepsWorkers ==
    ASSUME WorkersOK, NEW w \in Workers, NEW s \in Replies, Answer(w, s)
    PROVE  WorkersOK'
  BY BoundAssumption DEF WorkersOK, Answer, Ats, Replies

LEMMA GoesOnKeepsWorkers ==
    ASSUME Inv, NEW w \in Workers, GoesOn(w)
    PROVE  WorkersOK'
<1> USE TypeParts DEF Inv, WorkersOK, Ats, Replies, Goto
<1>1. CASE NameFree(w) \/ OwnerIsAdmin(w) \/ NoOwnerFound(w)
  BY <1>1 DEF NameFree, OwnerIsAdmin, NoOwnerFound
<1>2. CASE FindUser(w)
  BY <1>2, BoundAssumption DEF FindUser, Find, UserIds
<1>3. CASE Stamp(w)
  <2>1. now + Duration - Zone \in Int
    BY DurationAssumption, BoundAssumption DEF StoreOK
  <2> QED BY <1>3, <2>1 DEF Stamp
<1>4. CASE FindSession(w)
  <2>1. sessions[req[w].token].user \in UserIds
    BY <1>4 DEF FindSession, Valid, StoreOK
  <2> QED BY <1>4, <2>1, BoundAssumption DEF FindSession, UserIds
<1>5. ASSUME NEW r \in Requests, Begin(w, r)
      PROVE  WorkersOK'
  BY <1>5 DEF Begin, Requests
<1> QED BY <1>1, <1>2, <1>3, <1>4, <1>5 DEF GoesOn

LEMMA WritesKeepsStore ==
    ASSUME Inv, NEW w \in Workers, Writes(w)
    PROVE  StoreOK'
<1> USE TypeParts DEF Inv, StoreOK, UserIds, Tokens
<1>1. CASE InsertUser(w)
  <2>1. Account(req[w].name, "user") \in [name : Names, role : {"user", "admin"}]
    BY <1>1 DEF InsertUser, RequestOK, Account
  <2>2. users' \in [UserIds -> [name : Names, role : {"user", "admin"}] \cup {NoUser}]
    BY <1>1, <2>1 DEF InsertUser
  <2>3. nextUser' \in 1..(MaxUsers + 1)
    BY <1>1, BoundAssumption DEF InsertUser
  <2> QED BY <1>1, <2>2, <2>3 DEF InsertUser
<1>2. CASE InsertSession(w)
  <2>1. [user |-> who[w], expires |-> until[w]] \in [user : UserIds, expires : Int]
    BY <1>2 DEF InsertSession, RequestOK, WorkersOK
  <2>2. who[w] \in 0..MaxUsers
    BY DEF WorkersOK
  <2>3. sessions' \in [Tokens -> [user : UserIds, expires : Int] \cup {NoSession}]
    BY <1>2, <2>1 DEF InsertSession
  <2>4. issued' \in [Tokens -> 0..MaxUsers]
    BY <1>2, <2>2 DEF InsertSession
  <2>5. nextToken' \in 1..(MaxTokens + 1)
    BY <1>2, BoundAssumption DEF InsertSession
  <2> QED BY <1>2, <2>3, <2>4, <2>5 DEF InsertSession
<1>3. CASE Destroy(w) \/ DropOrphan(w)
  BY <1>3 DEF Destroy, DropOrphan, DeleteSession
<1> QED BY <1>1, <1>2, <1>3 DEF Writes

LEMMA RemoveKeepsStore ==
    ASSUME StoreOK, NEW S, Remove(S), UNCHANGED <<nextUser, nextToken, now, issued>>
    PROVE  StoreOK'
  BY DEF StoreOK, Remove

LEMMA ToolKeepsTypes ==
    ASSUME Inv, Tool
    PROVE  TypeOK'
<1>1. StoreOK /\ WorkersOK /\ ToolOK
  BY TypeParts DEF Inv
<1>2. ASSUME NEW here, NEW next \in {"sessions", "users", "find", "drop", "add"} \cup Ended,
             ToolStep(here, next)
      PROVE  WorkersOK' /\ ToolOK' /\ UNCHANGED <<nextToken, now, issued>>
  BY <1>1, <1>2 DEF ToolStep, WorkersOK, ToolOK
<1>3. CASE StartTool
  <2>1. StoreOK'
    BY <1>1, <1>3 DEF StartTool, StoreOK
  <2>2. WorkersOK'
    BY <1>1, <1>3 DEF StartTool, WorkersOK
  <2>3. ToolOK'
    BY <1>3 DEF StartTool, ToolOK
  <2> QED BY <2>1, <2>2, <2>3, TypeParts, PTL
<1>4. CASE CleanSessions
  <2>1. StoreOK'
    BY <1>1, <1>4 DEF CleanSessions, ToolStep, StoreOK
  <2>2. WorkersOK' /\ ToolOK'
    BY <1>2, <1>4 DEF CleanSessions
  <2> QED BY <2>1, <2>2, TypeParts, PTL
<1>5. CASE CleanNonAdminUsers \/ DropAdmin
  <2>1. /\ \E S : Remove(S)
        /\ UNCHANGED <<nextUser, nextToken, now, issued>>
        /\ ToolStep("users", "find") \/ ToolStep("drop", "add")
    BY <1>5 DEF CleanNonAdminUsers, DropAdmin, ToolStep
  <2>2. StoreOK'
    BY <1>1, <2>1, RemoveKeepsStore
  <2>3. WorkersOK' /\ ToolOK'
    BY <1>2, <2>1
  <2> QED BY <2>2, <2>3, TypeParts, PTL
<1>6. CASE AddAdmin
  <2>1. Account(Admin, "admin") \in [name : Names, role : {"user", "admin"}]
    BY NamesAssumption DEF Account
  <2>2. users' \in [UserIds -> [name : Names, role : {"user", "admin"}] \cup {NoUser}]
    BY <1>1, <1>6, <2>1 DEF AddAdmin, StoreOK
  <2>3. nextUser' \in 1..(MaxUsers + 1)
    BY <1>1, <1>6, BoundAssumption DEF AddAdmin, StoreOK, UserIds
  <2>4. StoreOK'
    BY <1>1, <1>6, <2>2, <2>3 DEF AddAdmin, ToolStep, StoreOK
  <2>5. WorkersOK' /\ ToolOK'
    BY <1>2, <1>6 DEF AddAdmin, Ended
  <2> QED BY <2>4, <2>5, TypeParts, PTL
<1>7. CASE FindAdmin \/ AddAdminFails \/ ToolFails
  <2>1. /\ UNCHANGED <<users, nextUser, sessions>>
        /\ \E here : \E next \in {"users", "find", "drop", "add"} \cup Ended : ToolStep(here, next)
    BY <1>7 DEF FindAdmin, AddAdminFails, ToolFails, Ended
  <2>2. WorkersOK' /\ ToolOK' /\ UNCHANGED <<nextToken, now, issued>>
    BY <1>2, <2>1
  <2>3. StoreOK'
    BY <1>1, <2>1, <2>2 DEF StoreOK
  <2> QED BY <2>2, <2>3, TypeParts, PTL
<1> QED BY <1>3, <1>4, <1>5, <1>6, <1>7 DEF Tool

LEMMA TypeStep ==
    ASSUME Inv, [Next]_vars
    PROVE  TypeOK'
<1>1. StoreOK /\ WorkersOK /\ ToolOK
  BY TypeParts DEF Inv
<1>2. ASSUME NEW w \in Workers, JustAnswers(w)
      PROVE  TypeOK'
  <2>1. WorkersOK'
    BY <1>1, <1>2, AnswerKeepsWorkers DEF JustAnswers
  <2>2. StoreOK' /\ ToolOK'
    BY <1>1, <1>2 DEF JustAnswers, StoreOK, ToolOK
  <2> QED BY <2>1, <2>2, TypeParts, PTL
<1>3. ASSUME NEW w \in Workers, GoesOn(w)
      PROVE  TypeOK'
  <2>1. WorkersOK'
    BY <1>3, GoesOnKeepsWorkers
  <2>2. UNCHANGED <<store, now, tools, issued>>
    BY <1>3 DEF GoesOn, NameFree, FindUser, Stamp, FindSession, OwnerIsAdmin, NoOwnerFound, Begin
  <2>3. StoreOK' /\ ToolOK'
    BY <1>1, <2>2 DEF StoreOK, ToolOK
  <2> QED BY <2>1, <2>3, TypeParts, PTL
<1>4. ASSUME NEW w \in Workers, Writes(w)
      PROVE  TypeOK'
  <2>1. /\ \E s \in Replies : Answer(w, s)
        /\ UNCHANGED tools
    BY <1>4 DEF Writes, InsertUser, InsertSession, Destroy, DropOrphan, Replies
  <2>2. WorkersOK' /\ ToolOK'
    BY <1>1, <2>1, AnswerKeepsWorkers DEF ToolOK
  <2>3. StoreOK'
    BY <1>4, WritesKeepsStore
  <2> QED BY <2>2, <2>3, TypeParts, PTL
<1>5. CASE Cleanup \/ Tick \/ UNCHANGED vars
  <2>1. StoreOK'
    <3>1. CASE Cleanup
      BY <1>1, <3>1 DEF Cleanup, StoreOK
    <3>2. CASE Tick
      BY <1>1, <3>2, BoundAssumption DEF Tick, StoreOK
    <3>3. CASE UNCHANGED vars
      BY <1>1, <3>3 DEF vars, StoreOK
    <3> QED BY <1>5, <3>1, <3>2, <3>3
  <2>2. WorkersOK' /\ ToolOK'
    BY <1>1, <1>5 DEF Cleanup, Tick, vars, WorkersOK, ToolOK
  <2> QED BY <2>1, <2>2, TypeParts, PTL
<1> QED BY <1>2, <1>3, <1>4, <1>5, WorkerSteps, ToolKeepsTypes DEF Next
-----------------------------------------------------------------------------
(* The tables.                                                             *)

\* Deleting sessions disturbs nothing.
LEMMA FewerSessions ==
    ASSUME TypeOK, TablesOK, UNCHANGED <<users, nextUser, issued>>,
           \A t \in Tokens : sessions'[t] = sessions[t] \/ sessions'[t] = NoSession,
           tool' = "idle" => tool = "idle"
    PROVE  TablesOK'
  BY DEF TablesOK

\* Deleting users takes their sessions along.
LEMMA FewerUsers ==
    ASSUME TypeOK, TablesOK, NEW S, Remove(S), UNCHANGED <<nextUser, issued>>, tool' # "idle"
    PROVE  TablesOK'
<1>1. users \in [UserIds -> [name : Names, role : {"user", "admin"}] \cup {NoUser}]
      /\ sessions \in [Tokens -> [user : UserIds, expires : Int] \cup {NoSession}]
  BY DEF TypeOK
<1>2. \A u \in UserIds : users'[u] = IF u \in S THEN NoUser ELSE users[u]
  BY DEF Remove
<1>3. \A t \in Tokens : sessions'[t] # NoSession =>
          sessions'[t] = sessions[t] /\ sessions[t].user \in UserIds \ S
  BY <1>1 DEF Remove
<1> QED BY <1>2, <1>3 DEF TablesOK

\* A new account, whose name the unique key found free.
LEMMA NewUser ==
    ASSUME TypeOK, TablesOK,
           NEW n \in Names, NEW r \in {"user", "admin"},
           Find(n) = {}, nextUser \in UserIds,
           users' = [users EXCEPT ![nextUser] = Account(n, r)],
           nextUser' = nextUser + 1,
           UNCHANGED <<sessions, issued>>,
           tool' = "idle" => tool = "idle" \/ (n = Admin /\ r = "admin")
    PROVE  TablesOK'
<1>1. users \in [UserIds -> [name : Names, role : {"user", "admin"}] \cup {NoUser}]
      /\ sessions \in [Tokens -> [user : UserIds, expires : Int] \cup {NoSession}]
  BY DEF TypeOK
<1>2. users[nextUser] = NoUser
  BY <1>1 DEF TablesOK, UserIds
<1>3. /\ users'[nextUser] = Account(n, r)
      /\ \A u \in UserIds \ {nextUser} : users'[u] = users[u]
  BY <1>1
<1>4. Account(n, r) # NoUser /\ Account(n, r).name = n
  BY NoneAssumption DEF Account
<1>5. \A u \in UserIds : u >= nextUser' => users'[u] = NoUser
  BY <1>3 DEF TablesOK, UserIds
<1>6. \A u \in UserIds : users[u] # NoUser => users[u].name # n
  BY DEF Find
<1>7. \A u, v \in UserIds :
          users'[u] # NoUser /\ users'[v] # NoUser /\ users'[u].name = users'[v].name => u = v
  BY <1>3, <1>4, <1>6 DEF TablesOK
<1>8. \A t \in Tokens : sessions'[t] # NoSession =>
          users'[sessions'[t].user] # NoUser /\ sessions'[t].user = issued'[t]
  BY <1>1, <1>3, <1>4 DEF TablesOK
<1>9. tool' = "idle" => \E u \in UserIds : users'[u] = Account(Admin, "admin")
  <2>1. CASE tool = "idle"
    <3>1. PICK u \in UserIds : users[u] = Account(Admin, "admin")
      BY <2>1 DEF TablesOK
    <3>2. Account(Admin, "admin") # NoUser
      BY NamesAssumption, NoneAssumption DEF Account
    <3> QED BY <1>2, <1>3, <3>1, <3>2
  <2> QED BY <1>3, <2>1
<1> QED BY <1>5, <1>7, <1>8, <1>9 DEF TablesOK

LEMMA TablesStep ==
    ASSUME Inv, [Next]_vars
    PROVE  TablesOK'
<1>1. TypeOK /\ TablesOK
  BY DEF Inv
<1>2. ASSUME UNCHANGED <<users, nextUser, sessions, issued>>, tool' = "idle" => tool = "idle"
      PROVE  TablesOK'
  BY <1>1, <1>2 DEF TablesOK
<1>3. ASSUME NEW w \in Workers, JustAnswers(w) \/ GoesOn(w)
      PROVE  TablesOK'
  <2>1. UNCHANGED <<users, nextUser, sessions, issued, tool>>
    BY <1>3 DEF JustAnswers, GoesOn, NameFree, FindUser, Stamp, FindSession, OwnerIsAdmin,
                NoOwnerFound, Begin
  <2> QED BY <1>2, <2>1
<1>4. ASSUME NEW w \in Workers, InsertUser(w)
      PROVE  TablesOK'
  <2>1. req[w].name \in Names
    BY <1>4 DEF InsertUser, Inv, RequestOK
  <2> QED BY <1>1, <1>4, <2>1, NewUser DEF InsertUser
<1>5. ASSUME NEW w \in Workers, InsertSession(w)
      PROVE  TablesOK'
  <2>1. sessions \in [Tokens -> [user : UserIds, expires : Int] \cup {NoSession}]
        /\ issued \in [Tokens -> 0..MaxUsers]
    BY <1>1 DEF TypeOK
  <2>2. /\ sessions' = [sessions EXCEPT ![nextToken] = [user |-> who[w], expires |-> until[w]]]
        /\ issued' = [issued EXCEPT ![nextToken] = who[w]]
        /\ users[who[w]] # NoUser /\ UNCHANGED <<users, nextUser, tool>>
    BY <1>5 DEF InsertSession
  <2> QED BY <1>1, <2>1, <2>2 DEF TablesOK
<1>6. ASSUME NEW w \in Workers, Destroy(w) \/ DropOrphan(w)
      PROVE  TablesOK'
  BY <1>1, <1>6, FewerSessions DEF Destroy, DropOrphan, DeleteSession
<1>7. CASE Cleanup \/ CleanSessions
  <2>1. \A t \in Tokens : sessions'[t] = sessions[t] \/ sessions'[t] = NoSession
    BY <1>7 DEF Cleanup, CleanSessions
  <2>2. UNCHANGED <<users, nextUser, issued>> /\ (tool' = "idle" => tool = "idle")
    BY <1>7 DEF Cleanup, CleanSessions, ToolStep
  <2> QED BY <1>1, <2>1, <2>2, FewerSessions
<1>8. CASE CleanNonAdminUsers \/ DropAdmin
  <2>1. (\E S : Remove(S)) /\ UNCHANGED <<nextUser, issued>> /\ tool' # "idle"
    BY <1>8 DEF CleanNonAdminUsers, DropAdmin, ToolStep
  <2> QED BY <1>1, <2>1, FewerUsers
<1>9. CASE AddAdmin
  <2>1. Admin \in Names /\ "admin" \in {"user", "admin"}
    BY NamesAssumption
  <2> QED BY <1>1, <1>9, <2>1, NewUser DEF AddAdmin, ToolStep
<1>10. CASE StartTool \/ FindAdmin \/ AddAdminFails \/ ToolFails \/ Tick \/ UNCHANGED vars
  BY <1>2, <1>10 DEF StartTool, FindAdmin, AddAdminFails, ToolFails, ToolStep, Tick, vars
<1> QED BY <1>3, <1>4, <1>5, <1>6, <1>7, <1>8, <1>9, <1>10, WorkerSteps DEF Next, Writes, Tool
-----------------------------------------------------------------------------
(* The requests.                                                           *)

\* What every step grants the requests it does not belong to: a session id keeps
\* its owner, and does not become valid again; a user keeps the role and the name
\* until it is deleted, and stays deleted.
Grants ==
    /\ nextUser' \in {nextUser, nextUser + 1}
    /\ \A u \in UserIds : u < nextUser => users'[u] = users[u] \/ users'[u] = NoUser
    /\ nextToken' \in {nextToken, nextToken + 1}
    /\ \A t \in 0..(nextToken - 1) :
          issued'[t] = issued[t] /\ (Valid(t)' => Valid(t))

LEMMA StepGrants ==
    ASSUME Inv, [Next]_vars
    PROVE  Grants
<1>1. /\ nextToken \in 1..(MaxTokens + 1) /\ now \in 0..MaxHours
      /\ users \in [UserIds -> [name : Names, role : {"user", "admin"}] \cup {NoUser}]
      /\ nextUser \in 1..(MaxUsers + 1)
      /\ sessions \in [Tokens -> [user : UserIds, expires : Int] \cup {NoSession}]
      /\ issued \in [Tokens -> 0..MaxUsers]
  BY DEF Inv, TypeOK
<1>2. ASSUME UNCHANGED <<nextToken, now, issued, nextUser>>,
             \A u \in UserIds : users'[u] = users[u] \/ users'[u] = NoUser,
             \A t \in Tokens : sessions'[t] = sessions[t] \/ sessions'[t] = NoSession
      PROVE  Grants
  BY <1>1, <1>2 DEF Grants, Valid
<1>3. ASSUME NEW w \in Workers, JustAnswers(w) \/ GoesOn(w)
      PROVE  Grants
  <2>1. UNCHANGED <<nextToken, now, issued, users, nextUser, sessions>>
    BY <1>3 DEF JustAnswers, GoesOn, NameFree, FindUser, Stamp, FindSession, OwnerIsAdmin,
                NoOwnerFound, Begin
  <2> QED BY <1>2, <2>1
<1>4. ASSUME NEW w \in Workers, InsertSession(w)
      PROVE  Grants
  <2>1. \A t \in 0..(nextToken - 1) : t # nextToken /\ t \in Int
    BY <1>1
  <2>2. nextToken' = nextToken + 1 /\ UNCHANGED <<now, users, nextUser>>
    BY <1>4 DEF InsertSession
  <2>3. \A t \in 0..(nextToken - 1) : issued'[t] = issued[t] /\ sessions'[t] = sessions[t]
    BY <1>1, <1>4, <2>1 DEF InsertSession
  <2> QED BY <1>1, <2>2, <2>3 DEF Grants, Valid
<1>5. ASSUME NEW w \in Workers, Destroy(w) \/ DropOrphan(w)
      PROVE  Grants
  BY <1>2, <1>5 DEF Destroy, DropOrphan, DeleteSession
<1>10. ASSUME (\E w \in Workers : InsertUser(w)) \/ AddAdmin
       PROVE  Grants
  <2>1. PICK a : users' = [users EXCEPT ![nextUser] = a]
    BY <1>10 DEF InsertUser, AddAdmin
  <2>2. nextUser' = nextUser + 1 /\ UNCHANGED <<nextToken, now, issued, sessions>>
    BY <1>10 DEF InsertUser, AddAdmin, ToolStep
  <2>3. \A u \in UserIds : u < nextUser => users'[u] = users[u]
    BY <1>1, <2>1 DEF UserIds
  <2> QED BY <1>1, <2>2, <2>3 DEF Grants, Valid
<1>6. CASE Cleanup \/ CleanSessions
  BY <1>2, <1>6 DEF Cleanup, CleanSessions, ToolStep
<1>7. CASE CleanNonAdminUsers \/ DropAdmin
  BY <1>2, <1>7 DEF CleanNonAdminUsers, DropAdmin, ToolStep, Remove
<1>8. CASE StartTool \/ FindAdmin \/ AddAdminFails \/ ToolFails \/ UNCHANGED vars
  BY <1>2, <1>8 DEF StartTool, FindAdmin, AddAdminFails, ToolFails, ToolStep, vars
<1>9. CASE Tick
  <2>1. UNCHANGED <<nextToken, issued, sessions, users, nextUser>> /\ now' = now + 1
    BY <1>9 DEF Tick
  <2>2. \A t \in Tokens : sessions[t] # NoSession => sessions[t].expires \in Int
    BY <1>1
  <2> QED BY <1>1, <2>1, <2>2 DEF Grants, Valid
<1> QED BY <1>3, <1>4, <1>5, <1>6, <1>7, <1>8, <1>9, <1>10, WorkerSteps DEF Next, Writes, Tool

LEMMA OthersKeepRequest ==
    ASSUME Inv, Grants, NEW v \in Workers,
           at'[v] = at[v], req'[v] = req[v], who'[v] = who[v], v \in misread => v \in misread'
    PROVE  RequestOK(v)'
<1>1. RequestOK(v)
  BY DEF Inv
<1>2. \A t \in 0..(nextToken - 1) : t \in 0..(nextToken' - 1)
  <2>1. nextToken \in Int /\ (nextToken' = nextToken \/ nextToken' = nextToken + 1)
    BY DEF Inv, TypeOK, Grants
  <2>2. CASE nextToken' = nextToken
    BY <2>2
  <2>3. CASE nextToken' = nextToken + 1
    BY <2>1, <2>3
  <2> QED BY <2>1, <2>2, <2>3
<1>3. ASSUME at[v] \in {"destroy", "findSession", "findOwner", "dropOrphan", "act"}
      PROVE  /\ req[v].token \in 0..(nextToken - 1)
             /\ issued'[req[v].token] = issued[req[v].token]
             /\ Valid(req[v].token)' => Valid(req[v].token)
  <2>1. req[v].token \in 0..(nextToken - 1)
    BY <1>1, <1>3 DEF RequestOK
  <2> QED BY <2>1 DEF Grants, Valid
<1>4. ASSUME at[v] \in {"stamp", "insertSession", "findOwner", "dropOrphan", "act"}
      PROVE  /\ who[v] \in UserIds /\ who[v] < nextUser'
             /\ users'[who[v]] = users[who[v]] \/ users'[who[v]] = NoUser
  <2>1. who[v] \in UserIds /\ who[v] < nextUser
    BY <1>1, <1>4 DEF RequestOK
  <2>2. nextUser \in Int /\ (nextUser' = nextUser \/ nextUser' = nextUser + 1)
    BY DEF Inv, TypeOK, Grants
  <2>3. who[v] < nextUser'
    BY <2>1, <2>2 DEF UserIds
  <2> QED BY <2>1, <2>3 DEF Grants
<1> QED BY <1>1, <1>2, <1>3, <1>4 DEF RequestOK, Valid

LEMMA OwnStep ==
    ASSUME Inv, NEW w \in Workers, JustAnswers(w) \/ GoesOn(w) \/ Writes(w)
    PROVE  RequestOK(w)'
<1>1. /\ at \in [Workers -> Ats] /\ who \in [Workers -> 0..MaxUsers] /\ DOMAIN req = Workers
      /\ RequestOK(w)
      /\ nextToken \in 1..(MaxTokens + 1)
  BY TypeParts DEF Inv, WorkersOK, StoreOK
<1>2. CASE JustAnswers(w) \/ Writes(w)
  <2>1. at'[w] = "idle"
    BY <1>1, <1>2 DEF JustAnswers, Writes, InsertUser, InsertSession, Destroy, DropOrphan, Answer
  <2> QED BY <2>1 DEF RequestOK
<1>3. CASE NameFree(w) \/ OwnerIsAdmin(w) \/ NoOwnerFound(w)
  BY <1>1, <1>3 DEF NameFree, OwnerIsAdmin, NoOwnerFound, Goto, RequestOK
<1>4. CASE FindUser(w)
  <2>1. \A u \in UserIds : users[u] # NoUser => u < nextUser
    BY TypeParts DEF Inv, TablesOK, StoreOK, UserIds
  <2> QED BY <1>1, <1>4, <2>1 DEF FindUser, Find, Goto, RequestOK
<1>5. CASE Stamp(w)
  BY <1>1, <1>5 DEF Stamp, Goto, RequestOK
<1>6. CASE FindSession(w)
  <2> DEFINE t == req[w].token
  <2>1. /\ t \in Tokens /\ sessions[t] # NoSession /\ t \in 0..(nextToken - 1)
        /\ req[w].valid
    BY <1>1, <1>6 DEF FindSession, Goto, RequestOK, Valid
  <2>2. sessions[t].user \in UserIds /\ sessions[t].user = issued[t] /\ sessions[t].user < nextUser
    BY <2>1, TypeParts DEF Inv, TablesOK, StoreOK, UserIds
  <2>3. at'[w] = "findOwner" /\ who'[w] = sessions[t].user
        /\ UNCHANGED <<req, nextUser, nextToken, issued>>
    BY <1>1, <1>6 DEF FindSession, Goto
  <2> QED BY <2>1, <2>2, <2>3 DEF RequestOK
<1>7. ASSUME NEW r \in Requests, Begin(w, r)
      PROVE  RequestOK(w)'
  <2>1. nextToken' = nextToken /\ sessions' = sessions /\ now' = now
    BY <1>7 DEF Begin
  <2>2. CASE r.op = "register" \/ r.op = "login"
    <3>1. req'[w] = r /\ r.name \in Names /\ at'[w] \in {"checkName", "findUser"}
      BY <1>1, <1>7, <2>2 DEF Begin, Goto, Requests
    <3> QED BY <3>1 DEF RequestOK
  <2>3. CASE r.op = "logout"
    <3>1. req'[w] = r /\ r.token \in 0..(nextToken - 1) /\ at'[w] = "destroy"
      BY <1>1, <1>7, <2>3 DEF Begin, Goto, Requests, Tokens
    <3> QED BY <2>1, <3>1 DEF RequestOK
  <2>4. CASE r.op = "admin"
    <3>1. /\ r.token \in 0..(nextToken - 1) /\ at'[w] = "findSession"
          /\ req'[w] = [op |-> "admin", token |-> r.token, valid |-> Valid(r.token)]
      BY <1>1, <1>7, <2>4 DEF Begin, Goto, Requests, Tokens
    <3>2. req'[w].token = r.token /\ req'[w].valid = Valid(r.token)
      BY <3>1
    <3>3. Valid(r.token)' = Valid(r.token)
      BY <2>1 DEF Valid
    <3>4. (at[w] = "findSession" /\ Valid(req[w].token) => req[w].valid)'
      BY <3>2, <3>3, Zenon DEF Valid
    <3> QED BY <2>1, <3>1, <3>2, <3>4 DEF RequestOK
  <2> QED BY <2>2, <2>3, <2>4 DEF Requests
<1> QED BY <1>2, <1>3, <1>4, <1>5, <1>6, <1>7 DEF GoesOn

LEMMA RequestsStep ==
    ASSUME Inv, [Next]_vars
    PROVE  \A v \in Workers : RequestOK(v)'
<1>1. SUFFICES ASSUME NEW v \in Workers
               PROVE  RequestOK(v)'
  OBVIOUS
<1>2. /\ at \in [Workers -> Ats] /\ DOMAIN req = Workers /\ who \in [Workers -> 0..MaxUsers]
  BY TypeParts DEF Inv, WorkersOK
<1>3. Grants
  BY StepGrants
<1>4. ASSUME NEW w \in Workers, JustAnswers(w) \/ GoesOn(w) \/ Writes(w)
      PROVE  RequestOK(v)'
  <2>1. CASE v = w
    BY <1>4, <2>1, OwnStep
  <2>2. CASE v # w
    <3>1. CASE GoesOn(w)
      BY <1>2, <2>2, <3>1, <1>3, OthersKeepRequest DEF GoesOn, NameFree, FindUser, Stamp, FindSession,
          OwnerIsAdmin, NoOwnerFound, Begin, Goto
    <3>2. CASE JustAnswers(w) \/ Writes(w)
      <4>1. \E s : Answer(w, s)
        BY <3>2 DEF JustAnswers, Writes, InsertUser, InsertSession, Destroy, DropOrphan
      <4>2. at'[v] = at[v] /\ req'[v] = req[v] /\ who'[v] = who[v] /\ (v \in misread => v \in misread')
        BY <1>2, <2>2, <4>1 DEF Answer
      <4> QED BY <4>2, <1>3, OthersKeepRequest
    <3> QED BY <1>4, <3>1, <3>2
  <2> QED BY <2>1, <2>2
<1>5. CASE Cleanup \/ Tool \/ Tick \/ UNCHANGED vars
  <2>1. UNCHANGED <<at, req, who, misread>>
    BY <1>5 DEF Cleanup, Tool, StartTool, CleanSessions, CleanNonAdminUsers, FindAdmin, DropAdmin,
                AddAdmin, AddAdminFails, ToolFails, ToolStep, Tick, vars
  <2> QED BY <1>3, <2>1, OthersKeepRequest
<1> QED BY <1>4, <1>5, WorkerSteps DEF Next
-----------------------------------------------------------------------------
LEMMA Invariant == Spec => []Inv
<1>1. Init => Inv
  BY InvInit
<1>2. Inv /\ [Next]_vars => Inv'
  BY TypeStep, TablesStep, RequestsStep DEF Inv
<1> QED BY <1>1, <1>2, PTL DEF Spec

\* Every reachable state of the accounts is well typed.
THEOREM TypeCorrect == Spec => []TypeOK
<1>1. Inv => TypeOK
  BY DEF Inv
<1> QED BY <1>1, Invariant, PTL

\* One account per name, an owner for every session, and an admin after every tool
\* that ended well, however registrations, logins and tools come between each
\* other's checks and inserts and whichever of their statements fail.
THEOREM ConsistentAccounts == Spec => []AccountsConsistent
<1>1. ASSUME Inv
      PROVE  AccountsConsistent
  <2>1. ASSUME NEW n \in Names
        PROVE  Cardinality(Find(n)) <= 1
    <3>1. \A u, v \in Find(n) : u = v
      BY <1>1 DEF Inv, TablesOK, Find
    <3>2. CASE Find(n) = {}
      BY <3>2, FS_EmptySet
    <3>3. CASE Find(n) # {}
      <4>1. PICK u \in Find(n) : Find(n) = {u}
        BY <3>1, <3>3
      <4> QED BY <4>1, FS_Singleton
    <3> QED BY <3>2, <3>3
  <2>2. tool = "idle" => \E u \in Find(Admin) : users[u].role = "admin"
    <3>1. Account(Admin, "admin") # NoUser /\ Account(Admin, "admin").name = Admin
          /\ Account(Admin, "admin").role = "admin"
      BY NamesAssumption, NoneAssumption DEF Account
    <3> QED BY <1>1, <3>1 DEF Inv, TablesOK, Find
  <2> QED BY <1>1, <2>1, <2>2 DEF AccountsConsistent, Inv, TablesOK
<1> QED BY <1>1, Invariant, PTL

\* An admin request is executed only with a session that was valid when the request
\* began, as the user it was issued to, who is an admin or deleted: nothing the other
\* workers, the cleanup, the tools and the clock do between its statements gives it
\* another's rights.
THEOREM AuthorisedActs == Spec => []ActsAreAuthorised
<1>1. Inv => ActsAreAuthorised
  BY DEF Inv, RequestOK, ActsAreAuthorised
<1> QED BY <1>1, Invariant, PTL

\* No session with an owner disappears as an "orphaned session" unless its request
\* could not read the owner: the check and the DELETE are two statements, and in
\* between the session keeps its owner and the owner does not come back.
THEOREM ReasonedEnds == Spec => SessionsEndForAReason
<1> DEFINE Reason(t) ==
        \/ sessions[t].expires < now
        \/ users'[sessions[t].user] = NoUser
        \/ tool = "sessions"
        \/ \E w \in Workers :
            /\ at[w] = "destroy" \/ (at[w] = "dropOrphan" /\ w \in misread)
            /\ at'[w] = "idle"
            /\ req[w].token = t
<1>1. ASSUME Inv, [Next]_vars, NEW t \in Tokens, sessions[t] # NoSession, sessions'[t] = NoSession
      PROVE  Reason(t)
  <2>1. /\ at \in [Workers -> Ats]
        /\ sessions \in [Tokens -> [user : UserIds, expires : Int] \cup {NoSession}]
    BY <1>1, TypeParts DEF Inv, WorkersOK, StoreOK
  <2>2. sessions' # sessions
    BY <1>1
  <2>3. ASSUME NEW w \in Workers, Destroy(w)
        PROVE  Reason(t)
    BY <1>1, <2>1, <2>3 DEF Destroy, DeleteSession, Answer
  <2>4. ASSUME NEW w \in Workers, DropOrphan(w)
        PROVE  Reason(t)
    <3>1. at[w] = "dropOrphan" /\ at'[w] = "idle" /\ req[w].token = t /\ users' = users
      BY <1>1, <2>1, <2>4 DEF DropOrphan, DeleteSession, Answer
    <3>2. w \in misread \/ users[who[w]] = NoUser
      BY <1>1, <3>1 DEF Inv, RequestOK
    <3>3. who[w] = issued[t] /\ sessions[t].user = issued[t]
      BY <1>1, <3>1 DEF Inv, RequestOK, TablesOK
    <3> QED BY <3>1, <3>2, <3>3
  <2>5. ASSUME NEW w \in Workers, InsertSession(w)
        PROVE  Reason(t)
    <3>1. [user |-> who[w], expires |-> until[w]] \in [user : UserIds, expires : Int]
      BY <1>1, <2>5, TypeParts DEF Inv, InsertSession, RequestOK, WorkersOK
    <3> QED BY <1>1, <2>1, <2>5, <3>1, NoneAssumption DEF InsertSession, UserIds
  <2>6. CASE Cleanup
    BY <1>1, <2>6 DEF Cleanup
  <2>7. CASE CleanSessions
    BY <2>7 DEF CleanSessions, ToolStep
  <2>8. ASSUME NEW S, Remove(S)
        PROVE  Reason(t)
    BY <1>1, <2>1, <2>8 DEF Remove
  <2>9. CASE CleanNonAdminUsers \/ DropAdmin
    BY <2>8, <2>9 DEF CleanNonAdminUsers, DropAdmin
  <2>10. ASSUME NEW w \in Workers, JustAnswers(w) \/ GoesOn(w) \/ InsertUser(w)
         PROVE  FALSE
    BY <2>2, <2>10 DEF JustAnswers, InsertUser, GoesOn, NameFree, FindUser, Stamp, FindSession,
           OwnerIsAdmin, NoOwnerFound, Begin
  <2>11. CASE StartTool \/ FindAdmin \/ AddAdmin \/ AddAdminFails \/ ToolFails \/ Tick
              \/ UNCHANGED vars
    BY <2>2, <2>11 DEF StartTool, FindAdmin, AddAdmin, AddAdminFails, ToolFails, Tick, vars
  <2> QED BY <1>1, <2>3, <2>4, <2>5, <2>6, <2>7, <2>9, <2>10, <2>11, WorkerSteps
          DEF Next, Writes, Tool
<1>2. Inv /\ [Next]_vars =>
        [\A t \in Tokens : sessions[t] # NoSession /\ sessions'[t] = NoSession => Reason(t)]_vars
  BY <1>1
<1> QED BY <1>2, Invariant, PTL DEF Spec, SessionsEndForAReason
=============================================================================
