------------------------------ MODULE Accounts -------------------------------
(***************************************************************************)
(* Users and sessions (src/service/session_service.cc, auth_service.cc,    *)
(* src/model/user.cc, session.cc, src/handler/auth_handler.cc): register,  *)
(* login, logout, and the requireAdmin() at the start of every admin       *)
(* request, as the SQL statements of concurrent workers; with the cleanup  *)
(* thread of the server and the tools that reset the accounts from another *)
(* process.  A statement, or the connection for it, may fail; a SELECT     *)
(* that fails looks like one that found nothing.                           *)
(*                                                                         *)
(* A password is abstracted to whether it is the right one, a session id   *)
(* to a number that is never drawn twice.                                  *)
(***************************************************************************)
EXTENDS Integers, FiniteSets

CONSTANTS
    Workers,    \* worker threads, each serving one request at a time
    Names,      \* user names
    Admin,      \* the name "admin"
    NoUser,     \* no row in users has this id
    NoSession,  \* no row in sessions has this id
    Duration,   \* kSessionDurationHours
    Zone,       \* the time zone of the database session, in hours ahead of UTC
    MaxUsers,   \* bound: user ids; an INSERT after the last fails
    MaxTokens,  \* bound: session ids; an INSERT after the last fails
    MaxHours,   \* bound: the clock
    MayFail     \* may statements fail?

ASSUME NamesAssumption    == Admin \in Names
ASSUME DurationAssumption == Duration \in Nat \ {0} /\ Zone \in Int
ASSUME BoundAssumption    == /\ MaxUsers \in Nat \ {0} /\ MaxTokens \in Nat
                             /\ MaxHours \in Nat /\ MayFail \in BOOLEAN

ASSUME NoneAssumption     == /\ NoUser \notin [name : Names, role : {"user", "admin"}]
                             /\ NoSession \notin [user : 1..MaxUsers, expires : Int]

VARIABLES
    users,      \* users[u]: the row with id u
    nextUser,   \* the next AUTO_INCREMENT id
    sessions,   \* sessions[t]: the row with id t
    nextToken,  \* the next session id to be drawn
    now,        \* the time in hours
    at,         \* at[w]: the next statement of w's request
    req,        \* req[w]: the request w serves
    who,        \* who[w]: the user id the request has found
    until,      \* until[w]: the expires_at the login has computed
    reply,      \* reply[w]: the answer
    tool,       \* the next statement of db_reset or add_admin, or how it ended
    alone,      \* the tool is add_admin
    issued,     \* history: the user each session id was issued to
    misread     \* history: the workers whose SELECT of a user failed

tools == <<tool, alone>>
store == <<users, nextUser, sessions, nextToken>>
vars == <<store, now, at, req, who, until, reply, tools, issued, misread>>

\* How a tool ended: well (or none has run), with an error, or without having
\* looked after the admin.
Ended == {"idle", "failed", "skipped"}

UserIds == 1..MaxUsers
Tokens  == 1..MaxTokens

NoRequest == [op |-> "none"]

\* A cookie may carry the id of any session that was ever issued; 0 is none of them.
Requests ==
    [op : {"register"}, name : Names]
        \cup [op : {"login"}, name : Names, right : BOOLEAN]
        \cup [op : {"logout", "admin"}, token : Tokens \cup {0}]

Account(name, role) == [name |-> name, role |-> role]

Find(name) == {u \in UserIds : users[u] # NoUser /\ users[u].name = name}

\* expires_at > NOW()
Valid(t) == t \in Tokens /\ sessions[t] # NoSession /\ sessions[t].expires > now

\* DELETE FROM users, with ON DELETE CASCADE on their sessions.
Remove(S) ==
    /\ users' = [u \in UserIds |-> IF u \in S THEN NoUser ELSE users[u]]
    /\ sessions' = [t \in Tokens |->
        IF sessions[t] # NoSession /\ sessions[t].user \in S THEN NoSession ELSE sessions[t]]
-----------------------------------------------------------------------------
TypeOK ==
    /\ users \in [UserIds -> [name : Names, role : {"user", "admin"}] \cup {NoUser}]
    /\ nextUser \in 1..(MaxUsers + 1)
    /\ sessions \in [Tokens -> [user : UserIds, expires : Int] \cup {NoSession}]
    /\ nextToken \in 1..(MaxTokens + 1)
    /\ now \in 0..MaxHours
    /\ at \in [Workers -> {"idle", "checkName", "insertUser", "findUser", "stamp",
                           "insertSession", "destroy", "findSession", "findOwner",
                           "dropOrphan", "act"}]
    /\ DOMAIN req = Workers /\ who \in [Workers -> 0..MaxUsers]
    /\ until \in [Workers -> Int]
    /\ reply \in [Workers -> {"none", "ok", "taken", "failed", "unauthorized", "forbidden"}]
    /\ tool \in {"sessions", "users", "find", "drop", "add"} \cup Ended
    /\ alone \in BOOLEAN
    /\ issued \in [Tokens -> 0..MaxUsers]
    /\ misread \subseteq Workers

Init ==
    /\ users = [u \in UserIds |-> IF u = 1 THEN Account(Admin, "admin") ELSE NoUser]
    /\ nextUser = 2
    /\ sessions = [t \in Tokens |-> NoSession]
    /\ nextToken = 1
    /\ now = 0
    /\ at = [w \in Workers |-> "idle"]
    /\ req = [w \in Workers |-> NoRequest]
    /\ who = [w \in Workers |-> 0]
    /\ until = [w \in Workers |-> 0]
    /\ reply = [w \in Workers |-> "none"]
    /\ tool = "idle" /\ alone = FALSE
    /\ issued = [t \in Tokens |-> 0]
    /\ misread = {}
-----------------------------------------------------------------------------
Goto(w, here, next) == at[w] = here /\ at' = [at EXCEPT ![w] = next]

\* The handler returns, and what it knew is gone.
Answer(w, status) ==
    /\ at' = [at EXCEPT ![w] = "idle"]
    /\ reply' = [reply EXCEPT ![w] = status]
    /\ req' = [req EXCEPT ![w] = NoRequest]
    /\ who' = [who EXCEPT ![w] = 0]
    /\ until' = [until EXCEPT ![w] = 0]
    /\ misread' = misread \ {w}

\* A request that passed the checks of its body.  History: was its session valid?
Begin(w, r) ==
    /\ r.op \in {"logout", "admin"} => r.token < nextToken
    /\ Goto(w, "idle", CASE r.op = "register" -> "checkName"
                         [] r.op = "login"    -> "findUser"
                         [] r.op = "logout"   -> "destroy"
                         [] r.op = "admin"    -> "findSession")
    /\ req' = [req EXCEPT ![w] =
        IF r.op = "admin" THEN [op |-> "admin", token |-> r.token, valid |-> Valid(r.token)]
        ELSE r]
    /\ reply' = [reply EXCEPT ![w] = "none"]
    /\ UNCHANGED <<store, now, who, until, tools, issued, misread>>
-----------------------------------------------------------------------------
(* handleRegister().                                                       *)

NameTaken(w) ==
    /\ at[w] = "checkName"
    /\ Find(req[w].name) # {}
    /\ Answer(w, "taken")
    /\ UNCHANGED <<store, now, tools, issued>>

NameFree(w) ==
    /\ Goto(w, "checkName", "insertUser")
    /\ Find(req[w].name) = {} \/ MayFail
    /\ UNCHANGED <<store, now, req, who, until, reply, tools, issued, misread>>

\* Mutant: the table has no unique key on the name.
InsertUserUnchecked(w) ==
    /\ at[w] = "insertUser"
    /\ nextUser \in UserIds
    /\ users' = [users EXCEPT ![nextUser] = Account(req[w].name, "user")]
    /\ nextUser' = nextUser + 1
    /\ Answer(w, "ok")
    /\ UNCHANGED <<sessions, nextToken, now, tools, issued>>

\* The unique key lets a name in only once.
InsertUser(w) ==
    /\ at[w] = "insertUser"
    /\ Find(req[w].name) = {}
    /\ nextUser \in UserIds
    /\ users' = [users EXCEPT ![nextUser] = Account(req[w].name, "user")]
    /\ nextUser' = nextUser + 1
    /\ Answer(w, "ok")
    /\ UNCHANGED <<sessions, nextToken, now, tools, issued>>

InsertUserFails(w) ==
    /\ at[w] = "insertUser"
    /\ MayFail \/ Find(req[w].name) # {} \/ nextUser \notin UserIds
    /\ Answer(w, "failed")
    /\ UNCHANGED <<store, now, tools, issued>>
-----------------------------------------------------------------------------
(* handleLogin().                                                          *)

FindUser(w) ==
    /\ Goto(w, "findUser", "stamp")
    /\ req[w].right
    /\ \E u \in Find(req[w].name) : who' = [who EXCEPT ![w] = u]
    /\ UNCHANGED <<store, now, req, until, reply, tools, issued, misread>>

LoginRefused(w) ==
    /\ at[w] = "findUser"
    /\ MayFail \/ Find(req[w].name) = {} \/ ~req[w].right
    /\ Answer(w, "unauthorized")
    /\ UNCHANGED <<store, now, tools, issued>>

\* nowPlusHours() writes the time in UTC; the database reads it in its own zone.
Stamp(w) ==
    /\ Goto(w, "stamp", "insertSession")
    /\ until' = [until EXCEPT ![w] = now + Duration - Zone]
    /\ UNCHANGED <<store, now, req, who, reply, tools, issued, misread>>

\* The foreign key lets a session in only while its user is there.
InsertSession(w) ==
    /\ at[w] = "insertSession"
    /\ users[who[w]] # NoUser
    /\ nextToken \in Tokens
    /\ sessions' = [sessions EXCEPT ![nextToken] = [user |-> who[w], expires |-> until[w]]]
    /\ issued' = [issued EXCEPT ![nextToken] = who[w]]
    /\ nextToken' = nextToken + 1
    /\ Answer(w, "ok")
    /\ UNCHANGED <<users, nextUser, now, tools>>

InsertSessionFails(w) ==
    /\ at[w] = "insertSession"
    /\ MayFail \/ users[who[w]] = NoUser \/ nextToken \notin Tokens
    /\ Answer(w, "failed")
    /\ UNCHANGED <<store, now, tools, issued>>
-----------------------------------------------------------------------------
(* handleLogout(): "Logged out successfully", whatever became of the DELETE. *)

DeleteSession(t) ==
    sessions' = [s \in Tokens |-> IF s = t THEN NoSession ELSE sessions[s]]

Destroy(w) ==
    /\ at[w] = "destroy"
    /\ DeleteSession(req[w].token)
    /\ Answer(w, "ok")
    /\ UNCHANGED <<users, nextUser, nextToken, now, tools, issued>>

DestroyFails(w) ==
    /\ MayFail
    /\ at[w] = "destroy"
    /\ Answer(w, "ok")
    /\ UNCHANGED <<store, now, tools, issued>>
-----------------------------------------------------------------------------
(* requireAdmin(), with SessionManager::validate(), and the request behind it. *)

\* Mutant: the SELECT does not look at expires_at.
FindSessionOfAnyAge(w) ==
    /\ Goto(w, "findSession", "findOwner")
    /\ req[w].token \in Tokens
    /\ sessions[req[w].token] # NoSession
    /\ who' = [who EXCEPT ![w] = sessions[req[w].token].user]
    /\ UNCHANGED <<store, now, req, until, reply, tools, issued, misread>>

FindSession(w) ==
    /\ Goto(w, "findSession", "findOwner")
    /\ Valid(req[w].token)
    /\ who' = [who EXCEPT ![w] = sessions[req[w].token].user]
    /\ UNCHANGED <<store, now, req, until, reply, tools, issued, misread>>

NoSessionFound(w) ==
    /\ at[w] = "findSession"
    /\ MayFail \/ ~Valid(req[w].token)
    /\ Answer(w, "unauthorized")
    /\ UNCHANGED <<store, now, tools, issued>>

OwnerIsAdmin(w) ==
    /\ Goto(w, "findOwner", "act")
    /\ users[who[w]] # NoUser
    /\ users[who[w]].role = "admin"
    /\ UNCHANGED <<store, now, req, who, until, reply, tools, issued, misread>>

OwnerIsNoAdmin(w) ==
    /\ at[w] = "findOwner"
    /\ users[who[w]] # NoUser
    /\ users[who[w]].role # "admin"
    /\ Answer(w, "forbidden")
    /\ UNCHANGED <<store, now, tools, issued>>

\* The owner is gone, or could not be read: "Orphaned session".
NoOwnerFound(w) ==
    /\ Goto(w, "findOwner", "dropOrphan")
    /\ MayFail \/ users[who[w]] = NoUser
    /\ misread' = IF users[who[w]] = NoUser THEN misread ELSE misread \cup {w}
    /\ UNCHANGED <<store, now, req, who, until, reply, tools, issued>>

DropOrphan(w) ==
    /\ at[w] = "dropOrphan"
    /\ DeleteSession(req[w].token)
    /\ Answer(w, "unauthorized")
    /\ UNCHANGED <<users, nextUser, nextToken, now, tools, issued>>

DropOrphanFails(w) ==
    /\ MayFail
    /\ at[w] = "dropOrphan"
    /\ Answer(w, "unauthorized")
    /\ UNCHANGED <<store, now, tools, issued>>

\* The admin handler does what it was asked to do; nothing is checked again.
Act(w) ==
    /\ at[w] = "act"
    /\ Answer(w, "ok")
    /\ UNCHANGED <<store, now, tools, issued>>
-----------------------------------------------------------------------------
(* The cleanup thread, the tools and the clock.                            *)

\* Mutant: the comparison the wrong way round.
CleanupValid ==
    /\ sessions' = [t \in Tokens |-> IF Valid(t) THEN NoSession ELSE sessions[t]]
    /\ sessions' # sessions
    /\ UNCHANGED <<users, nextUser, nextToken, now, at, req, who, until, reply, tool,
                   alone, issued, misread>>

\* expires_at < NOW(); a run that deletes nothing is not a step.
Cleanup ==
    /\ sessions' = [t \in Tokens |->
        IF sessions[t] # NoSession /\ sessions[t].expires < now THEN NoSession ELSE sessions[t]]
    /\ sessions' # sessions
    /\ UNCHANGED <<users, nextUser, nextToken, now, at, req, who, until, reply, tool,
                   alone, issued, misread>>

\* db_reset or add_admin is started (alone), unless one of them runs.
StartTool ==
    /\ tool \in Ended
    /\ \/ tool' = "sessions" /\ alone' = FALSE
       \/ tool' = "find" /\ alone' = TRUE
    /\ UNCHANGED <<store, now, at, req, who, until, reply, issued, misread>>

ToolStep(here, next) ==
    /\ tool = here /\ tool' = next
    /\ alone' = (alone /\ next \notin Ended)
    /\ UNCHANGED <<nextToken, now, at, req, who, until, reply, issued, misread>>

CleanSessions ==
    /\ ToolStep("sessions", "users")
    /\ sessions' = [t \in Tokens |-> NoSession]
    /\ UNCHANGED <<users, nextUser>>

CleanNonAdminUsers ==
    /\ ToolStep("users", "find")
    /\ Remove({u \in UserIds : users[u] # NoUser /\ users[u].name # Admin})
    /\ UNCHANGED nextUser

\* The old admin is deleted only when it was found.
FindAdmin ==
    /\ \/ ToolStep("find", "drop") /\ Find(Admin) # {}
       \/ ToolStep("find", "add") /\ (MayFail \/ Find(Admin) = {})
    /\ UNCHANGED <<users, nextUser, sessions>>

DropAdmin ==
    /\ ToolStep("drop", "add")
    /\ Remove(Find(Admin))
    /\ UNCHANGED nextUser

AddAdmin ==
    /\ ToolStep("add", "idle")
    /\ Find(Admin) = {} /\ nextUser \in UserIds
    /\ users' = [users EXCEPT ![nextUser] = Account(Admin, "admin")]
    /\ nextUser' = nextUser + 1
    /\ UNCHANGED sessions

\* insert() returned -1: somebody took the name, or the statement failed.
AddAdminFails ==
    /\ ToolStep("add", "failed")
    /\ MayFail \/ Find(Admin) # {} \/ nextUser \notin UserIds
    /\ UNCHANGED <<users, nextUser, sessions>>

\* The statements that clean up are warnings when they fail.  So is the one that
\* deletes the admin in db_reset, which is over when there is no connection for
\* it; add_admin ends with an error.
ToolFails ==
    /\ MayFail
    /\ \/ ToolStep("sessions", "users") \/ ToolStep("users", "find")
       \/ alone /\ ToolStep("drop", "failed")
       \/ ~alone /\ (ToolStep("drop", "add") \/ ToolStep("drop", "skipped"))
    /\ UNCHANGED <<users, nextUser, sessions>>

Tick ==
    /\ now < MaxHours
    /\ now' = now + 1
    /\ UNCHANGED <<store, at, req, who, until, reply, tools, issued, misread>>
-----------------------------------------------------------------------------
Register(w) == NameTaken(w) \/ NameFree(w) \/ InsertUser(w) \/ InsertUserFails(w)

Login(w) ==
    \/ FindUser(w) \/ LoginRefused(w)
    \/ Stamp(w) \/ InsertSession(w) \/ InsertSessionFails(w)

Logout(w) == Destroy(w) \/ DestroyFails(w)

RequireAdmin(w) ==
    \/ FindSession(w) \/ NoSessionFound(w)
    \/ OwnerIsAdmin(w) \/ OwnerIsNoAdmin(w) \/ NoOwnerFound(w)
    \/ DropOrphan(w) \/ DropOrphanFails(w) \/ Act(w)

Tool ==
    \/ StartTool \/ CleanSessions \/ CleanNonAdminUsers
    \/ FindAdmin \/ DropAdmin \/ AddAdmin \/ AddAdminFails \/ ToolFails

Next ==
    \/ \E w \in Workers :
        \/ \E r \in Requests : Begin(w, r)
        \/ Register(w) \/ Login(w) \/ Logout(w) \/ RequireAdmin(w)
    \/ Cleanup \/ Tool \/ Tick

Spec == Init /\ [][Next]_vars
-----------------------------------------------------------------------------
(* Properties.                                                             *)

\* One account per name and an owner for every session, although registrations,
\* logins and the tools check first and insert later; and an admin, as long as the
\* last tool ended well: nobody who registers as "admin" between the DELETE and the
\* INSERT of a tool is taken for it.
AccountsConsistent ==
    /\ \A n \in Names : Cardinality(Find(n)) <= 1
    /\ \A t \in Tokens : sessions[t] # NoSession =>
        /\ users[sessions[t].user] # NoUser
        /\ sessions[t].user = issued[t]
    /\ tool = "idle" => \E u \in Find(Admin) : users[u].role = "admin"

\* An admin request is executed only with a session that had neither ended nor
\* expired when the request began, as the user who logged in with it, and that user
\* is an admin even now, unless the account was deleted since.
ActsAreAuthorised ==
    \A w \in Workers : at[w] = "act" =>
        /\ req[w].valid
        /\ who[w] = issued[req[w].token]
        /\ users[who[w]] # NoUser => users[who[w]].role = "admin"

\* A session ends by logout, by expiry, with its user or with db_reset, or when a
\* request that carries it could not read its user; in no other order of events
\* does an "orphaned session" with an owner disappear.
SessionsEndForAReason ==
    [][\A t \in Tokens : sessions[t] # NoSession /\ sessions'[t] = NoSession =>
        \/ sessions[t].expires < now
        \/ users'[sessions[t].user] = NoUser
        \/ tool = "sessions"
        \/ \E w \in Workers :
            /\ at[w] = "destroy" \/ (at[w] = "dropOrphan" /\ w \in misread)
            /\ at'[w] = "idle"
            /\ req[w].token = t]_vars
=============================================================================
