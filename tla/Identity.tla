------------------------------ MODULE Identity ------------------------------
(***************************************************************************)
(* Accounts: UserService, AdminUserService, APIKeyService, ExportService   *)
(* and WebhookService (internal/identity) behind the authentication        *)
(* middleware, over the tables users, api_keys, export_jobs and            *)
(* audit_events, the export files, and the auth provider (Supabase), which *)
(* keeps an account per subject of its own.                                *)
(*                                                                         *)
(* A request authenticates, is checked against the role it authenticated   *)
(* with, and runs its handler.  A step is one statement on the pool, one   *)
(* transaction, or one call of the auth provider; only UpdateMe reads and  *)
(* writes in steps of their own inside its transaction, since its write    *)
(* depends on an unlocked read.  Requests may be cut short at any point.   *)
(* Each request is made once; the account, key, job or file it creates is  *)
(* named after it.                                                         *)
(***************************************************************************)
EXTENDS Naturals, FiniteSets

CONSTANTS
    Requests,       \* the requests
    Subjects,       \* the auth provider's users; also the ids of initial accounts
    Admins,         \* the subjects with an account that is an admin at first
    Plain,          \* the subjects with an account that is not
    EmailOf,        \* each subject's email
    OldKey,         \* an API key that exists from the start, of some initial account
    Bootstrap,      \* the subject that every start of the program makes an admin
    Mixes,          \* what happens together: operations, credentials and targets of
                    \* requests, and (a bound) starts of the program
    None,           \* no row, no value
    Gone            \* a deleted row

SelfService == {"UpdateMe", "DeleteMe", "RequestMyExport", "CreateAPIKey", "RevokeAPIKey"}
AdminOnly   == {"SetUserStatus", "SetUserRole", "DeleteUser", "RequestUserExport"}
Operations  == SelfService \cup AdminOnly \cup {"AuthWebhook"}

ASSUME IdentityAssumption ==
    /\ IsFiniteSet(Requests) /\ IsFiniteSet(Subjects)
    /\ Admins \subseteq Subjects /\ Plain \subseteq Subjects \ Admins
    /\ Bootstrap \in Subjects
    /\ Requests \cap Subjects = {} /\ OldKey \notin Requests
    /\ {None, Gone} \cap (Requests \cup Subjects) = {} /\ None # Gone

VARIABLES
    users,      \* users: id -> row
    keys,       \* api_keys: id -> row
    jobs,       \* export_jobs: id -> row
    files,      \* the export files that exist
    audit,      \* audit_events, each with the id of the user it names
    idp,        \* the auth provider's account of each subject
    req,        \* each request: where it is, its input, its local variables
    had,        \* history: roles and key each request's account had since it began
    unsure,     \* history: subjects for which a change of status was not clean
    mix,        \* what happens in this behaviour
    seeds       \* starts of the program so far

tables    == <<users, keys, jobs, files, audit>>
identVars == <<users, keys, jobs, files, audit, idp, req, had, unsure, mix, seeds>>

Roles  == {"user", "admin"}
Fields == {"default_location_id", "preferences"}

\* The ids a row may have: an initial account's, one made by a request, or one
\* made when the program starts.
Ids  == Subjects \cup Requests \cup {"seeded"}
Keys == Requests \cup {OldKey}

\* A profile is the set of its fields that have been set.
User == [subject : Subjects, role : Roles, status : {"active", "disabled"},
         profile : SUBSET Fields]

Key == [owner : Ids, revoked : BOOLEAN]

Job == [by : Ids, target : Ids \cup {None}, status : {"pending", "completed", "failed"}]

PCs == {"idle", "key", "keyUser", "resolve", "provision", "reread", "touch", "lookup",
        "ban", "read", "write", "purge", "store", "complete", "fail", "ingest",
        "done", "cut"}

\* cred is a subject (its JWT) or a key; value is the status or role asked for,
\* fields those of the profile, first as sent, then as read and overwritten.  user
\* and role make the Principal; subject is the target's, as looked up.
Request == [pc : PCs, op : Operations \cup {None}, cred : Subjects \cup Keys \cup {None},
            target : Ids \cup Keys \cup {None},
            value : {"active", "disabled", None} \cup Roles, fields : SUBSET Fields,
            user : Ids \cup {None}, role : Roles \cup {None},
            subject : Subjects \cup {None}]

NoRequest == [pc |-> "idle", op |-> None, cred |-> None, target |-> None,
              value |-> None, fields |-> {}, user |-> None, role |-> None,
              subject |-> None]

Ended(how) == [NoRequest EXCEPT !.pc = how]

\* The names of rows are told apart, and a row from no row.
ASSUME RowsAssumption ==
    /\ "seeded" \notin Requests /\ OldKey \notin Subjects
    /\ None \notin Operations \cup {"seeded", OldKey}
    /\ None \notin User /\ Gone \notin User /\ None \notin Key /\ None \notin Job

\* What is requested is an operation of the API, by somebody, about an account.
ASSUME MixAssumption ==
    \A m \in Mixes : /\ m.ops \subseteq Operations /\ m.starts \in Nat
                     /\ m.creds \subseteq Subjects \cup Keys /\ m.targets \subseteq Ids

\* Every variable has its type.
IdentityTypeOK ==
    /\ users \in [Ids -> User \cup {None, Gone}]
    /\ keys \in [Keys -> Key \cup {None}]
    /\ jobs \in [Requests -> Job \cup {None}]
    /\ files \subseteq Requests
    /\ audit \subseteq [of : Requests, user : Ids \cup {None}]
    /\ idp \in [Subjects -> {"active", "banned", "deleted"}]
    /\ req \in [Requests -> Request]
    /\ had \in [Requests -> SUBSET (Roles \cup {"key"})]
    /\ unsure \subseteq Subjects
    /\ mix \in Mixes
    /\ seeds \in 0..mix.starts

-----------------------------------------------------------------------------
(* The tables.                                                             *)

Stored(u) == users[u] \notin {None, Gone}

\* User.Active and Role.IsAdmin.
IsActive(u) == Stored(u) /\ users[u].status = "active"

ActiveAdmin(u) == IsActive(u) /\ users[u].role = "admin"

AccountsOf(s) == {u \in Ids : Stored(u) /\ users[u].subject = s}

\* auth_subject and email are unique.
Clashes(s) == \E u \in Ids : Stored(u) /\ EmailOf[users[u].subject] = EmailOf[s]

NewUser(s) == [subject |-> s, role |-> "user", status |-> "active", profile |-> {}]

\* Insert of the row of a new user by request r; its audit event goes with it.
InsertUser(r, s) ==
    /\ users' = [users EXCEPT ![r] = NewUser(s)]
    /\ audit' = audit \cup {[of |-> r, user |-> r]}

\* An audit event names the user that acts.  The foreign key refuses it, and with
\* it the whole transaction, when that user's row is gone.
CanRecord(r) == Stored(req[r].user)

Recorded(r) == audit \cup {[of |-> r, user |-> req[r].user]}

\* Mutant of RemoveUser: a job about the user keeps its reference.
RemoveUserKeepsTarget(r, u) ==
    /\ users' = [users EXCEPT ![u] = Gone]
    /\ keys' = [k \in Keys |-> IF keys[k] # None /\ keys[k].owner = u
                               THEN None ELSE keys[k]]
    /\ jobs' = [j \in Requests |-> IF jobs[j] # None /\ jobs[j].by = u
                                   THEN None ELSE jobs[j]]
    /\ audit' = {[e EXCEPT !.user = IF @ = u THEN None ELSE @] : e \in Recorded(r)}

\* DELETE FROM users with what hangs on it: keys and requested jobs cascade, audit
\* events and jobs about the user lose the reference.
RemoveUser(r, u) ==
    /\ users' = [users EXCEPT ![u] = Gone]
    /\ keys' = [k \in Keys |-> IF keys[k] # None /\ keys[k].owner = u
                               THEN None ELSE keys[k]]
    /\ jobs' = [j \in Requests |->
                  IF jobs[j] # None /\ jobs[j].by = u THEN None
                  ELSE IF jobs[j] # None /\ jobs[j].target = u
                  THEN [jobs[j] EXCEPT !.target = None]
                  ELSE jobs[j]]
    /\ audit' = {[e EXCEPT !.user = IF @ = u THEN None ELSE @] : e \in Recorded(r)}

-----------------------------------------------------------------------------
(* Requests.                                                               *)

\* What a request may ask.  DeleteMe and RequestMyExport have the caller as target.
Call(op, cred, target, value, fields) ==
    [pc |-> IF op = "AuthWebhook" THEN "ingest"
            ELSE IF cred \in Keys THEN "key" ELSE "resolve",
     op |-> op, cred |-> cred, target |-> target, value |-> value, fields |-> fields,
     user |-> None, role |-> None, subject |-> None]

\* An operation is asked for by a subject, or with a key that was made.
Credentials == {c \in mix.creds : c \in Keys => keys[c] # None}

Calls ==
    LET By(op) == IF op \in mix.ops THEN Credentials ELSE {}
        Simple == {"DeleteMe", "RequestMyExport", "CreateAPIKey"}
    IN  {Call("UpdateMe", c, None, None, f) : c \in By("UpdateMe"), f \in SUBSET Fields}
        \cup {Call(op, c, None, None, {}) : op \in mix.ops \cap Simple, c \in Credentials}
        \cup {Call("RevokeAPIKey", c, k, None, {}) : c \in By("RevokeAPIKey"), k \in Keys}
        \cup {Call("SetUserStatus", c, u, v, {}) : c \in By("SetUserStatus"),
                  u \in mix.targets, v \in {"active", "disabled"}}
        \cup {Call("SetUserRole", c, u, v, {}) : c \in By("SetUserRole"),
                  u \in mix.targets, v \in Roles}
        \cup {Call(op, c, u, None, {}) :
                  op \in mix.ops \cap {"DeleteUser", "RequestUserExport"},
                  c \in Credentials, u \in mix.targets}
        \cup {Call("AuthWebhook", c, None, None, {}) : c \in By("AuthWebhook") \cap Subjects}

Begin(r) ==
    /\ req[r].pc = "idle"
    /\ \E c \in Calls : req' = [req EXCEPT ![r] = c]
    /\ UNCHANGED <<tables, idp, unsure>>

End(r) == req' = [req EXCEPT ![r] = Ended("done")]

Goto(r, pc) == req' = [req EXCEPT ![r].pc = pc]

\* The context of a request is cancelled: the client left, or the program stopped.
\* A change that reached only one of the table and the auth provider is not clean.
Cut(r) ==
    /\ req[r].pc \notin {"idle", "done", "cut"}
    /\ req' = [req EXCEPT ![r] = Ended(IF jobs[r] = None THEN "done" ELSE "cut")]
    /\ unsure' = IF (req[r].op = "SetUserStatus" /\ req[r].pc = "write")
                    \/ req[r].pc = "purge"
                 THEN unsure \cup {req[r].subject} ELSE unsure
    /\ UNCHANGED <<tables, idp>>

-----------------------------------------------------------------------------
(* Authentication.                                                         *)

\* The row is looked at once; its role goes into the principal.
Admit(r, u) ==
    IF IsActive(u)
    THEN req' = [req EXCEPT ![r].pc = "touch", ![r].user = u, ![r].role = users[u].role]
    ELSE End(r)

\* UserService.resolveOrProvision: GetByAuthSubject.
Resolve(r) ==
    /\ req[r].pc = "resolve"
    /\ IF AccountsOf(req[r].cred) = {}
       THEN Goto(r, "provision")
       ELSE \E u \in AccountsOf(req[r].cred) : Admit(r, u)
    /\ UNCHANGED <<tables, idp, unsure>>

\* The insert of an unknown subject's account; ErrDuplicateSubject makes it read
\* the winner's row.
Provision(r) ==
    /\ req[r].pc = "provision"
    /\ IF Clashes(req[r].cred)
       THEN Goto(r, "reread") /\ UNCHANGED <<users, audit>>
       ELSE /\ InsertUser(r, req[r].cred)
            /\ req' = [req EXCEPT ![r].pc = "touch", ![r].user = r, ![r].role = "user"]
    /\ UNCHANGED <<keys, jobs, files, idp, unsure>>

\* Nothing is found when the clash was about the email, or the winner is deleted.
Reread(r) ==
    /\ req[r].pc = "reread"
    /\ IF AccountsOf(req[r].cred) = {}
       THEN End(r)
       ELSE \E u \in AccountsOf(req[r].cred) : Admit(r, u)
    /\ UNCHANGED <<tables, idp, unsure>>

\* APIKeyService.AuthenticateAPIKey: the key ...
KeyLookup(r) ==
    LET k == keys[req[r].cred]
    IN  /\ req[r].pc = "key"
        /\ IF k = None THEN End(r)
           ELSE IF k.revoked THEN End(r)
           ELSE req' = [req EXCEPT ![r].pc = "keyUser", ![r].user = k.owner]
        /\ UNCHANGED <<tables, idp, unsure>>

\* Mutant of KeyUser: a usable key is enough.
KeyUserAnyStatus(r) ==
    LET u == req[r].user
    IN  /\ req[r].pc = "keyUser"
        /\ IF Stored(u)
           THEN req' = [req EXCEPT ![r].pc = "touch", ![r].role = users[u].role]
           ELSE End(r)
        /\ UNCHANGED <<tables, idp, unsure>>

\* ... then its owner.
KeyUser(r) ==
    LET u == req[r].user
    IN  /\ req[r].pc = "keyUser"
        /\ IF Stored(u) THEN Admit(r, u) ELSE End(r)
        /\ UNCHANGED <<tables, idp, unsure>>

\* RequireRole, on the role in the principal.
Allowed(r) == req[r].op \in AdminOnly => req[r].role = "admin"

\* Mutant of SelfLockout: the check is missing.
NoSelfLockout(r) == FALSE

\* ErrSelfLockout.
SelfLockout(r) ==
    req[r].op \in {"SetUserStatus", "SetUserRole", "DeleteUser"} /\ req[r].target = req[r].user

FirstStep(op) ==
    IF op = "UpdateMe" THEN "read"
    ELSE IF op \in {"CreateAPIKey", "RevokeAPIKey"} THEN "write" ELSE "lookup"

\* TouchLastLogin or TouchLastUsed, then the checks that need no table.
Touch(r) ==
    /\ req[r].pc = "touch"
    /\ IF ~Allowed(r) \/ SelfLockout(r)
       THEN End(r)
       ELSE req' = [req EXCEPT ![r].pc = FirstStep(req[r].op),
                               ![r].target = IF req[r].op \in {"DeleteMe", "RequestMyExport"}
                                             THEN req[r].user ELSE @]
    /\ UNCHANGED <<tables, idp, unsure>>

-----------------------------------------------------------------------------
(* AdminUserService, and UpdateMe.                                         *)

At(r, pc, ops) == req[r].pc = pc /\ req[r].op \in ops

\* The target is read from the pool, outside the transaction that changes it.
Lookup(r) ==
    LET u == req[r].target
    IN  /\ req[r].pc = "lookup"
        /\ IF Stored(u)
           THEN req' = [req EXCEPT ![r].subject = users[u].subject,
                                   ![r].pc = IF req[r].op = "SetUserStatus"
                                             THEN "ban" ELSE "write"]
           ELSE End(r)
        /\ UNCHANGED <<tables, idp, unsure>>

\* Some other request is between the auth provider and the table.
Overlaps(r) ==
    \E q \in Requests \ {r} : /\ req[q].subject = req[r].subject
                              /\ \/ At(q, "write", {"SetUserStatus"})
                                 \/ req[q].pc = "purge"

\* Mutant of BanState: the status is sent where a ban is expected.
BanStateIsStatus(r) == req[r].value

BanState(r) == IF req[r].value = "disabled" THEN "banned" ELSE "active"

\* Mutant of SetBannedFails: the error is logged and the update goes on.
SetBannedIgnored(r) ==
    /\ req[r].pc = "ban"
    /\ Goto(r, "write")
    /\ UNCHANGED <<tables, idp, unsure>>

\* The call of SetBanned fails: refused or not sent, or carried out and its answer
\* lost, which the caller cannot tell apart (ErrUpstreamAuth).
SetBannedFails(r) ==
    /\ req[r].pc = "ban"
    /\ End(r)
    /\ \/ UNCHANGED <<idp, unsure>>
       \/ /\ idp[req[r].subject] # "deleted"
          /\ idp' = [idp EXCEPT ![req[r].subject] = BanState(r)]
          /\ unsure' = unsure \cup {req[r].subject}
    /\ UNCHANGED tables

\* SetBanned succeeds.
SetBanned(r) ==
    LET s == req[r].subject
    IN  /\ req[r].pc = "ban"
        /\ idp[s] # "deleted"
        /\ idp' = [idp EXCEPT ![s] = BanState(r)]
        /\ unsure' = IF Overlaps(r) THEN unsure \cup {s} ELSE unsure \ {s}
        /\ Goto(r, "write")
        /\ UNCHANGED tables

\* SetStatus's transaction.
SetStatus(r) ==
    LET u == req[r].target
    IN  /\ At(r, "write", {"SetUserStatus"})
        /\ IF Stored(u) /\ CanRecord(r)
           THEN /\ users' = [users EXCEPT ![u].status = req[r].value]
                /\ audit' = Recorded(r)
                /\ UNCHANGED unsure
           ELSE /\ unsure' = unsure \cup {req[r].subject}
                /\ UNCHANGED <<users, audit>>
        /\ End(r)
        /\ UNCHANGED <<keys, jobs, files, idp>>

\* SetRole's transaction.
SetRole(r) ==
    LET u == req[r].target
    IN  /\ At(r, "write", {"SetUserRole"})
        /\ IF Stored(u) /\ CanRecord(r)
           THEN users' = [users EXCEPT ![u].role = req[r].value] /\ audit' = Recorded(r)
           ELSE UNCHANGED <<users, audit>>
        /\ End(r)
        /\ UNCHANGED <<keys, jobs, files, idp, unsure>>

\* Delete's transaction.
Delete(r) ==
    LET u == req[r].target
    IN  /\ At(r, "write", {"DeleteMe", "DeleteUser"})
        /\ IF Stored(u) /\ CanRecord(r)
           THEN RemoveUser(r, u) /\ Goto(r, "purge")
           ELSE End(r) /\ UNCHANGED <<users, keys, jobs, audit>>
        /\ UNCHANGED <<files, idp, unsure>>

\* The auth provider is told of the deletion, whether it succeeds or not.
DeleteUser(r) ==
    /\ req[r].pc = "purge"
    /\ \/ idp' = [idp EXCEPT ![req[r].subject] = "deleted"] /\ UNCHANGED unsure
       \/ unsure' = unsure \cup {req[r].subject} /\ UNCHANGED idp
    /\ End(r)
    /\ UNCHANGED tables

\* UpdateMe's transaction: the row is read and the fields sent are set in the copy ...
ReadProfile(r) ==
    /\ req[r].pc = "read"
    /\ IF Stored(req[r].user)
       THEN req' = [req EXCEPT ![r].fields = @ \cup users[req[r].user].profile,
                               ![r].pc = "write"]
       ELSE End(r)
    /\ UNCHANGED <<tables, idp, unsure>>

\* ... and both columns are written back.
UpdateProfile(r) ==
    LET u == req[r].user
    IN  /\ At(r, "write", {"UpdateMe"})
        /\ IF CanRecord(r)
           THEN users' = [users EXCEPT ![u].profile = req[r].fields] /\ audit' = Recorded(r)
           ELSE UNCHANGED <<users, audit>>
        /\ End(r)
        /\ UNCHANGED <<keys, jobs, files, idp, unsure>>

-----------------------------------------------------------------------------
(* APIKeyService and WebhookService.                                       *)

CreateKey(r) ==
    /\ At(r, "write", {"CreateAPIKey"})
    /\ IF CanRecord(r)
       THEN /\ keys' = [keys EXCEPT ![r] = [owner |-> req[r].user, revoked |-> FALSE]]
            /\ audit' = Recorded(r)
       ELSE UNCHANGED <<keys, audit>>
    /\ End(r)
    /\ UNCHANGED <<users, jobs, files, idp, unsure>>

\* Only the owner's keys are found.
Owns(r, k) == keys[k] # None /\ keys[k].owner = req[r].user

RevokeKey(r) ==
    LET k == req[r].target
    IN  /\ At(r, "write", {"RevokeAPIKey"})
        /\ IF Owns(r, k) /\ CanRecord(r)
           THEN keys' = [keys EXCEPT ![k].revoked = TRUE] /\ audit' = Recorded(r)
           ELSE UNCHANGED <<keys, audit>>
        /\ End(r)
        /\ UNCHANGED <<users, jobs, files, idp, unsure>>

\* Ingest resolves the subject to a user, if there is one ...
ResolveEvent(r) ==
    /\ req[r].pc = "ingest"
    /\ LET us == AccountsOf(req[r].cred)
       IN  req' = [req EXCEPT ![r].pc = "write",
                              ![r].user = IF us = {} THEN None ELSE CHOOSE u \in us : TRUE]
    /\ UNCHANGED <<tables, idp, unsure>>

\* ... and records the event, which is lost when that user is gone by now.  The
\* handler answers the same either way.
Ingest(r) ==
    /\ At(r, "write", {"AuthWebhook"})
    /\ audit' = IF req[r].user = None THEN Recorded(r)
                ELSE IF CanRecord(r) THEN Recorded(r) ELSE audit
    /\ End(r)
    /\ UNCHANGED <<users, keys, jobs, files, idp, unsure>>

-----------------------------------------------------------------------------
(* ExportService.                                                          *)

\* The partial unique index: one pending job per target.
InProgress(u) == \E j \in Requests : jobs[j] # None /\ jobs[j].target = u
                                                    /\ jobs[j].status = "pending"

\* RequestExport's first transaction.
InsertJob(r) ==
    LET u == req[r].target
    IN  /\ At(r, "write", {"RequestMyExport", "RequestUserExport"})
        /\ IF Stored(u) /\ CanRecord(r) /\ ~InProgress(u)
           THEN /\ jobs' = [jobs EXCEPT ![r] = [by |-> req[r].user, target |-> u,
                                                status |-> "pending"]]
                /\ audit' = Recorded(r)
                /\ Goto(r, "store")
           ELSE End(r) /\ UNCHANGED <<jobs, audit>>
        /\ UNCHANGED <<users, keys, files, idp, unsure>>

\* The document is assembled and written; either may fail.
StoreExport(r) ==
    /\ req[r].pc = "store"
    /\ \/ files' = files \cup {r} /\ Goto(r, "complete")
       \/ UNCHANGED files /\ Goto(r, "fail")
    /\ UNCHANGED <<users, keys, jobs, audit, idp, unsure>>

\* The row is updated by id, if it still exists.
SetJob(r, status) ==
    jobs' = IF jobs[r] = None THEN jobs ELSE [jobs EXCEPT ![r].status = status]

\* The transaction that completes the job, which may fail like any other.
Complete(r) ==
    /\ req[r].pc = "complete"
    /\ \/ CanRecord(r) /\ SetJob(r, "completed") /\ audit' = Recorded(r) /\ End(r)
       \/ Goto(r, "fail") /\ UNCHANGED <<jobs, audit>>
    /\ UNCHANGED <<users, keys, files, idp, unsure>>

\* The job is marked failed, best effort; an error here is an instance of Cut.
Fail(r) ==
    /\ req[r].pc = "fail"
    /\ SetJob(r, "failed")
    /\ End(r)
    /\ UNCHANGED <<users, keys, files, audit, idp, unsure>>

-----------------------------------------------------------------------------
(* The start of the program, and the specification.                        *)

\* seedBootstrapAdmin: the account is made, or made an active admin again.  The
\* auth provider is not told.  The statement fails when the email is another's.
SeedBootstrapAdmin ==
    LET us == AccountsOf(Bootstrap)
    IN  /\ seeds < mix.starts
        /\ seeds' = seeds + 1
        /\ IF us # {}
           THEN users' = [u \in Ids |-> IF u \in us
                            THEN [users[u] EXCEPT !.role = "admin", !.status = "active"]
                            ELSE users[u]]
           ELSE IF Clashes(Bootstrap) \/ users["seeded"] # None
           THEN UNCHANGED users
           ELSE users' = [users EXCEPT !["seeded"] = [NewUser(Bootstrap)
                                                        EXCEPT !.role = "admin"]]
        /\ unsure' = unsure \cup {Bootstrap}
        /\ UNCHANGED <<keys, jobs, files, audit, idp, req>>

Authenticate(r) ==
    \/ Resolve(r) \/ Provision(r) \/ Reread(r)
    \/ KeyLookup(r) \/ KeyUser(r) \/ Touch(r)

Administer(r) ==
    \/ Lookup(r) \/ SetBanned(r) \/ SetBannedFails(r) \/ SetStatus(r) \/ SetRole(r)
    \/ Delete(r) \/ DeleteUser(r)

SelfServe(r) ==
    \/ ReadProfile(r) \/ UpdateProfile(r) \/ CreateKey(r) \/ RevokeKey(r)
    \/ ResolveEvent(r) \/ Ingest(r)

Export(r) == InsertJob(r) \/ StoreExport(r) \/ Complete(r) \/ Fail(r)

\* The roles of a credential's account while it is active, and "key" while the key
\* is usable.
RightsOf(c) ==
    IF c \in Subjects THEN {users[u].role : u \in {v \in AccountsOf(c) : IsActive(v)}}
    ELSE {x \in Roles \cup {"key"} :
            /\ c \in Keys /\ keys[c] # None
            /\ IF x = "key" THEN ~keys[c].revoked
               ELSE IsActive(keys[c].owner) /\ users[keys[c].owner].role = x}

\* The history of rights is kept for the requests under way.
Remember ==
    had' = [r \in Requests |-> IF req'[r].cred = None THEN {}
                               ELSE had[r] \cup RightsOf(req[r].cred)']

IdentityInit ==
    /\ users = [u \in Ids |-> IF u \in Admins THEN [NewUser(u) EXCEPT !.role = "admin"]
                              ELSE IF u \in Plain THEN NewUser(u) ELSE None]
    /\ \E u \in Admins \cup Plain :
         keys = [k \in Keys |-> IF k = OldKey THEN [owner |-> u, revoked |-> FALSE]
                                ELSE None]
    /\ jobs = [r \in Requests |-> None]
    /\ files = {} /\ audit = {} /\ unsure = {} /\ seeds = 0
    /\ idp = [s \in Subjects |-> "active"]
    /\ req = [r \in Requests |-> NoRequest]
    /\ had = [r \in Requests |-> {}]
    /\ mix \in Mixes

IdentityNext ==
    /\ \/ \E r \in Requests :
            /\ \/ Begin(r) \/ Authenticate(r) \/ Administer(r) \/ SelfServe(r)
               \/ Export(r) \/ Cut(r)
            /\ UNCHANGED seeds
       \/ SeedBootstrapAdmin
    /\ Remember
    /\ UNCHANGED mix

IdentitySpec == IdentityInit /\ [][IdentityNext]_identVars

-----------------------------------------------------------------------------
(* Properties.                                                             *)

\* Whoever is let in has an account: the principal's id is one that was stored, for
\* the very subject of the token (or the owner of the key), or that has been deleted
\* since.  Two first requests of a subject race to create its account, another
\* subject may have its email, and the loser has nothing of its own to go on with.
PrincipalHasAccount ==
    \A r \in Requests :
        req[r].role # None =>
            LET u == req[r].user
            IN  /\ users[u] # None
                /\ Stored(u) /\ req[r].cred \in Subjects => users[u].subject = req[r].cred
                /\ Stored(u) /\ req[r].cred \in Keys =>
                       keys[req[r].cred] # None /\ keys[req[r].cred].owner = u

\* A disable, a demotion or a revocation that was over before a request began has
\* effect on it: the role a request acts with is one its account had, while active,
\* at some moment since the request began, and its key was usable at some moment
\* ("the role is read per request, so an admin disable is immediately effective").
RightsWereHeld ==
    \A r \in Requests :
        req[r].role # None => /\ req[r].role \in had[r]
                              /\ req[r].cred \in Keys => "key" \in had[r]

\* The auth provider and the table agree on who is disabled whenever no change is
\* under way, unless one was cut off between the two, its answer was lost, two
\* overlapped, or the seed re-enabled the account ("propagated to the auth provider
\* first, so a propagation failure leaves the local row unchanged").
ProviderAgrees ==
    \A u \in Ids :
        LET s == users[u].subject
        IN  Stored(u) /\ s \notin unsure /\ idp[s] # "deleted"
              /\ (\A r \in Requests : req[r].subject = s => req[r].pc \notin {"write", "purge"})
            => (idp[s] = "banned" <=> users[u].status = "disabled")

\* The operator surface is stranded only by an admin who deletes their own account,
\* or by one whose own right was taken away after it was checked: refusing the caller
\* as target is enough while admins act one after the other.
LastAdminGoes ==
    [][ \A r \in Requests :
          (\E u \in Ids : ActiveAdmin(u)) /\ ~(\E u \in Ids : ActiveAdmin(u)')
            /\ req'[r] # req[r]
          => req[r].op = "DeleteMe" \/ ~ActiveAdmin(req[r].user) ]_identVars

\* Nothing names a deleted account: not a key, a job or an audit event, however the
\* deletion falls between the authentication of a request and what it writes.
NoDangling ==
    /\ \A k \in Keys : keys[k] # None => Stored(keys[k].owner)
    /\ \A j \in Requests : jobs[j] # None =>
          Stored(jobs[j].by) /\ (jobs[j].target # None => Stored(jobs[j].target))
    /\ \A e \in audit : e.user # None => Stored(e.user)

\* A completed export has its file: the download that the job promises finds it.
CompletedHasFile ==
    \A j \in Requests : jobs[j] # None /\ jobs[j].status = "completed" => j \in files

\* A pending job, which refuses every other export of its target, has a request that
\* works on it, unless that request was cut off ("marked failed, freeing the guard").
PendingHasWorker ==
    \A j \in Requests : jobs[j] # None /\ jobs[j].status = "pending" =>
        req[j].pc \in {"store", "complete", "fail", "cut"}

\* A request acts for an account there is or was, with rights it had while the request
\* ran.
AccessIsEarned == PrincipalHasAccount /\ RightsWereHeld

\* What the tables say is so: accounts that are named exist, completed exports have their
\* file, and pending ones somebody who works on them.
RecordsHold == NoDangling /\ CompletedHasFile /\ PendingHasWorker
=============================================================================
