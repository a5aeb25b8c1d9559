--------------------------- MODULE IdentityProofs ---------------------------
(***************************************************************************)
(* Accounts, for any requests, subjects and mixes of operations: access is *)
(* earned, the tables hold, the auth provider agrees, and the last admin   *)
(* goes by its own hand.                                                   *)
(*                                                                         *)
(* IdentityInv says of each request what it may rely on where it is: its   *)
(* input and local variables (LocalOK), the rows that are its own          *)
(* (RowsOK), the account it acts for (AccountOK) and the one it acts on    *)
(* (TargetOK).  All of that rests on rows of other requests only so far as *)
(* Tame allows them to change: a row keeps its subject until it is         *)
(* deleted, and a deleted row stays deleted.  What is left is about the    *)
(* tables as a whole: nothing dangles, a subject has one account, and the  *)
(* auth provider is in step with the table or with the one request between *)
(* the two (SyncOK).                                                       *)
(***************************************************************************)
EXTENDS Identity, TLAPS

-----------------------------------------------------------------------------
(* The invariant.                                                          *)

\* A request that has not begun or is over.
Over == {"idle", "done", "cut"}

\* A request whose caller is known, and one that may still create its caller's account.
Working  == {"touch", "lookup", "ban", "read", "write", "purge", "store", "complete", "fail"}
Newcomer == {"idle", "key", "keyUser", "resolve", "provision", "reread"}

\* The operations on an account that is looked up, and those never on the caller's own.
OnTarget == AdminOnly \cup {"DeleteMe", "RequestMyExport"}
OnOthers == {"SetUserStatus", "SetUserRole", "DeleteUser"}

\* The input and the local variables of a request, by where it is.
LocalOK(w) ==
    /\ w.pc \in Over => w.user = None /\ w.role = None /\ w.subject = None
    /\ w.pc \notin Over => w.cred # None /\ w.op # None
    /\ w.pc \in {"resolve", "provision", "reread", "ingest"} => w.cred \in Subjects
    /\ w.pc \in {"key", "keyUser"} => w.cred \in Keys
    /\ w.pc = "keyUser" => w.user # None
    /\ w.pc \in Working => w.user # None \/ w.op = "AuthWebhook"
    /\ w.op = "AuthWebhook" => w.pc \in {"ingest", "write"} /\ w.role = None
    /\ w.pc = "ingest" => w.op = "AuthWebhook"
    /\ w.pc = "read" => w.op = "UpdateMe"
    /\ w.role # None => w.user # None
    /\ w.op = "SetUserStatus" => w.value \in {"active", "disabled"}
    /\ w.op = "SetUserRole" => w.value \in Roles
    /\ w.op = "RevokeAPIKey" => w.target \in Keys
    /\ w.op \in AdminOnly \/ w.pc = "lookup" \/ w.subject # None => w.target \in Ids
    /\ w.subject # None => w.pc \in Working \ {"touch", "lookup", "read"}
    /\ w.pc \in {"ban", "purge"} => w.subject # None
    /\ w.pc = "write" /\ w.op \in OnTarget => w.subject # None
    /\ w.pc = "ban" => w.op = "SetUserStatus"
    /\ w.pc \in {"lookup", "ban", "write"} /\ w.op \in OnOthers => w.target # w.user

\* The rows named after a request: made by it, once, and the job with it.
RowsOK(r) ==
    /\ req[r].pc \in Newcomer => users[r] = None
    /\ keys[r] # None => req[r].pc \in {"done", "cut"}
    /\ jobs[r] # None => req[r].pc \in {"store", "complete", "fail", "done", "cut"}
    /\ jobs[r] # None /\ jobs[r].status = "pending" => req[r].pc # "done"
    /\ jobs[r] # None /\ jobs[r].status = "completed" => r \in files
    /\ req[r].pc = "complete" => r \in files

\* The account it acts for is or was stored, is its credential's, and had the rights.
AccountOK(r) ==
    /\ req[r].user # None =>
          /\ users[req[r].user] # None
          /\ Stored(req[r].user) /\ req[r].cred \in Subjects
                => users[req[r].user].subject = req[r].cred
          /\ Stored(req[r].user) /\ req[r].cred \in Keys
                => keys[req[r].cred] # None /\ keys[req[r].cred].owner = req[r].user
          /\ req[r].cred \in Keys => "key" \in had[r]
    /\ req[r].role # None => req[r].role \in had[r]

\* The account it acts on is or was stored, for the subject that was looked up.
TargetOK(r) ==
    req[r].subject # None =>
        /\ users[req[r].target] # None
        /\ Stored(req[r].target) => users[req[r].target].subject = req[r].subject

RequestsOK ==
    \A r \in Requests : LocalOK(req[r]) /\ RowsOK(r) /\ AccountOK(r) /\ TargetOK(r)

\* auth_subject is unique.
OneAccount ==
    \A u, v \in Ids : Stored(u) /\ Stored(v) /\ users[u].subject = users[v].subject => u = v

\* A request between the auth provider and the table, on either way.
Writes(q, s) == req[q].subject = s /\ At(q, "write", {"SetUserStatus"})
Purges(q, s) == req[q].subject = s /\ req[q].pc = "purge"

Disabled(s) ==
    \E u \in Ids : Stored(u) /\ users[u].subject = s /\ users[u].status = "disabled"

\* The auth provider is in step with the table, or with whoever is about to write it.
SyncOK(s) ==
    s \notin unsure /\ idp[s] # "deleted" =>
        /\ (\A q \in Requests : ~Writes(q, s) /\ ~Purges(q, s))
             => (idp[s] = "banned" <=> Disabled(s))
        /\ \A q \in Requests : Writes(q, s) => idp[s] = BanState(q)

InStep == \A s \in Subjects : SyncOK(s)

IdentityInv == IdentityTypeOK /\ RequestsOK /\ NoDangling /\ OneAccount /\ InStep

-----------------------------------------------------------------------------
(* Steps.                                                                  *)

\* The step is one of request r, which goes on as w.
Moves(r, w) == w \in Request /\ LocalOK(w) /\ req' = [req EXCEPT ![r] = w]

\* The tables change as they may in a step of request r: a row is made once, under the
\* name of r (or by a start of the program), keeps its subject until it is deleted, and
\* stays deleted; a key stays its owner's while there is one; a job is changed by its own
\* request only, except that it goes with an account.
UsersTame(r) ==
    \A u \in Ids : /\ users[u] # None => users'[u] # None
                   /\ users[u] = None /\ u # r /\ u # "seeded" => users'[u] = None
                   /\ users[u] # None /\ Stored(u)'
                         => Stored(u) /\ users'[u].subject = users[u].subject

KeysTame(r) ==
    \A k \in Keys : /\ keys[k] = None /\ k # r => keys'[k] = None
                    /\ keys[k] # None /\ users'[keys[k].owner] \notin {None, Gone}
                          => keys'[k] # None /\ keys'[k].owner = keys[k].owner

JobsTame(r) ==
    \A j \in Requests \ {r} :
        jobs'[j] # None => jobs[j] # None /\ jobs'[j].status = jobs[j].status

Tame(r) == UsersTame(r) /\ KeysTame(r) /\ JobsTame(r) /\ files \subseteq files'

\* Rights are not forgotten while a request runs.
Keeps(r) ==
    \A c \in Subjects \cup Keys :
        c = req'[r].cred => had[r] \subseteq had'[r] /\ RightsOf(c)' \subseteq had'[r]

-----------------------------------------------------------------------------
(* What a step leaves of what the requests know.                          *)

\* The history of rights grows ...
LEMMA RightsKept ==
    ASSUME Remember
    PROVE  \A r \in Requests : Keeps(r)
<1>1. SUFFICES ASSUME NEW r \in Requests, NEW c \in Subjects \cup Keys, c = req'[r].cred
               PROVE  had[r] \subseteq had'[r] /\ RightsOf(c)' \subseteq had'[r]
  BY DEF Keeps
<1>2. c # None
  <2>1. None \notin Subjects /\ None \notin Requests /\ None # OldKey
    BY IdentityAssumption, RowsAssumption, Zenon
  <2> QED BY <2>1 DEF Keys
<1>3. RightsOf(req[r].cred)' = RightsOf(c)'
  BY <1>1, Zenon DEF RightsOf, AccountsOf
<1>4. had'[r] = IF req'[r].cred = None THEN {} ELSE had[r] \cup RightsOf(req[r].cred)'
  BY DEF Remember
<1> QED BY <1>1, <1>2, <1>3, <1>4, Zenon

\* ... and has its type.
LEMMA HistoryTyped ==
    ASSUME IdentityTypeOK, Remember,
           users' \in [Ids -> User \cup {None, Gone}], keys' \in [Keys -> Key \cup {None}]
    PROVE  had' \in [Requests -> SUBSET (Roles \cup {"key"})]
<1>1. ASSUME NEW c PROVE RightsOf(c)' \subseteq Roles \cup {"key"}
  <2>1. \A u \in Ids : Stored(u)' => users'[u].role \in Roles
    BY DEF Stored, User
  <2>2. \A u \in AccountsOf(c)' : u \in Ids /\ Stored(u)'
    BY DEF AccountsOf
  <2>3. CASE c \in Subjects
    BY <2>1, <2>2, <2>3 DEF RightsOf
  <2>4. CASE c \notin Subjects /\ c \in Keys
    BY <2>4 DEF RightsOf
  <2>5. CASE c \notin Subjects /\ c \notin Keys
    BY <2>5 DEF RightsOf
  <2> QED BY <2>3, <2>4, <2>5
<1>2. \A r \in Requests : had'[r] = IF req'[r].cred = None THEN {}
                                   ELSE had[r] \cup RightsOf(req[r].cred)'
  BY DEF Remember
<1>3. ASSUME NEW r \in Requests PROVE had'[r] \subseteq Roles \cup {"key"}
  <2>1. had[r] \subseteq Roles \cup {"key"}
    BY DEF IdentityTypeOK
  <2>2. RightsOf(req[r].cred)' \subseteq Roles \cup {"key"}
    BY <1>1
  <2> QED BY <1>2, <2>1, <2>2, Zenon
<1> QED BY <1>3 DEF Remember

\* What a request knows of the account it acts for outlives the steps of any request.
LEMMA AccountKept ==
    ASSUME IdentityTypeOK, NEW r, NEW q \in Requests, req' \in [Requests -> Request],
           AccountOK(q), Tame(r), Keeps(q),
           \/ req'[q].user = None /\ req'[q].role = None
           \/ /\ req'[q].cred = req[q].cred /\ req'[q].cred # None
              /\ req'[q].user = req[q].user /\ req'[q].role = req[q].role
    PROVE  AccountOK(q)'
<1>1. CASE req'[q].user = None /\ req'[q].role = None
  BY <1>1, Zenon DEF AccountOK
<1>2. CASE /\ req'[q].cred = req[q].cred /\ req'[q].cred # None
           /\ req'[q].user = req[q].user /\ req'[q].role = req[q].role
  <2>1. had[q] \subseteq had'[q]
    <3>1. req'[q].cred \in Subjects \cup Keys
      BY <1>2, Zenon DEF Request
    <3> QED BY <3>1, Zenon DEF Keeps
  <2>2. req'[q].role # None => req'[q].role \in had'[q]
    BY <1>2, <2>1, Zenon DEF AccountOK
  <2>3. SUFFICES ASSUME req'[q].user # None
                 PROVE  /\ users'[req'[q].user] # None
                        /\ Stored(req[q].user)' /\ req'[q].cred \in Subjects
                              => users'[req'[q].user].subject = req'[q].cred
                        /\ Stored(req[q].user)' /\ req'[q].cred \in Keys
                              => /\ keys'[req'[q].cred] # None
                                 /\ keys'[req'[q].cred].owner = req'[q].user
                        /\ req'[q].cred \in Keys => "key" \in had'[q]
    BY <2>2, <2>3, Zenon DEF AccountOK
  <2>4. PICK u \in Ids : u = req[q].user /\ u = req'[q].user /\ u # None
    BY <1>2, <2>3, Zenon DEF IdentityTypeOK, Request
  <2>5. PICK c : c = req[q].cred /\ c = req'[q].cred
    BY <1>2, Zenon
  <2>6. users'[u] # None /\ (Stored(u)' => Stored(u) /\ users'[u].subject = users[u].subject)
    BY <2>4, Zenon DEF AccountOK, Tame, UsersTame, KeysTame, JobsTame
  <2>7. Stored(u)' /\ c \in Keys => keys'[c] # None /\ keys'[c].owner = u
    BY <2>4, <2>5, <2>6 DEF AccountOK, Tame, UsersTame, KeysTame, JobsTame, Stored
  <2>8. c \in Keys => "key" \in had'[q]
    BY <2>1, <2>4, <2>5, Zenon DEF AccountOK
  <2>9. Stored(u)' /\ c \in Subjects => users'[u].subject = c
    BY <2>4, <2>5, <2>6, Zenon DEF AccountOK
  <2>10. Stored(req[q].user)' <=> Stored(u)'
    BY <2>4, Zenon DEF Stored
  <2> QED BY <2>4, <2>5, <2>6, <2>7, <2>8, <2>9, <2>10, Zenon
<1> QED BY <1>1, <1>2

\* And so does what it knows of the one it acts on.
LEMMA TargetKept ==
    ASSUME IdentityTypeOK, NEW r, NEW q \in Requests, req' \in [Requests -> Request],
           LocalOK(req[q]), TargetOK(q), Tame(r),
           \/ req'[q].subject = None
           \/ req'[q].subject = req[q].subject /\ req'[q].target = req[q].target
    PROVE  TargetOK(q)'
<1>1. CASE req'[q].subject = None
  BY <1>1, Zenon DEF TargetOK
<1>2. CASE req'[q].subject # None /\ req'[q].subject = req[q].subject
                                  /\ req'[q].target = req[q].target
  <2>1. req[q].target \in Ids
    BY <1>2, Zenon DEF LocalOK
  <2>2. req[q].target = req'[q].target /\ req[q].subject = req'[q].subject
    BY <1>2, Zenon
  <2>3. users'[req'[q].target] # None
    BY <1>2, <2>1, <2>2, Zenon DEF TargetOK, Tame, UsersTame, KeysTame, JobsTame
  <2>4. Stored(req[q].target)' => Stored(req[q].target)
                            /\ users'[req[q].target].subject = users[req[q].target].subject
    BY <1>2, <2>1, <2>2, Zenon DEF TargetOK, Tame, UsersTame, KeysTame, JobsTame, Stored
  <2> QED BY <1>2, <2>2, <2>3, <2>4, Zenon DEF TargetOK, Stored
<1> QED BY <1>1, <1>2, Zenon

\* The rows of the other requests.
LEMMA RowsKept ==
    ASSUME IdentityTypeOK, NEW r, NEW q \in Requests \ {r}, q # "seeded",
           RowsOK(q), Tame(r), req'[q] = req[q]
    PROVE  RowsOK(q)'
<1>1. q \in Ids /\ q \in Keys
  BY Zenon DEF Ids, Keys
<1>2. users[q] = None => users'[q] = None
  BY <1>1, Zenon DEF Tame, UsersTame, KeysTame, JobsTame
<1>3. keys'[q] # None => keys[q] # None
  BY <1>1 DEF Tame, UsersTame, KeysTame, JobsTame
<1>4. jobs'[q] # None => jobs[q] # None /\ jobs'[q].status = jobs[q].status
  BY Zenon DEF Tame, UsersTame, KeysTame, JobsTame
<1>5. files \subseteq files'
  BY DEF Tame, UsersTame, KeysTame, JobsTame
<1> QED BY <1>2, <1>3, <1>4, <1>5, Zenon DEF RowsOK

\* The request of the step goes on as it should.
GoesOn(r) == \E w : Moves(r, w) /\ RowsOK(r)' /\ AccountOK(r)' /\ TargetOK(r)'

\* So it is enough to look at the request of the step, and at what the step writes.
LEMMA RequestsKept ==
    ASSUME IdentityTypeOK, RequestsOK, NEW r \in Requests, Tame(r), GoesOn(r),
           \A q \in Requests : Keeps(q)
    PROVE  req' \in [Requests -> Request] /\ RequestsOK'
<1>1. PICK w : Moves(r, w) /\ RowsOK(r)' /\ AccountOK(r)' /\ TargetOK(r)'
  BY Zenon DEF GoesOn
<1>2. w \in Request /\ LocalOK(w) /\ req' = [req EXCEPT ![r] = w]
  BY <1>1 DEF Moves
<1>3. req' \in [Requests -> Request] /\ req'[r] = w
  BY <1>2, Zenon DEF IdentityTypeOK
<1>4. ASSUME NEW q \in Requests, q # r
      PROVE  LocalOK(req'[q]) /\ RowsOK(q)' /\ AccountOK(q)' /\ TargetOK(q)'
  <2>1. req'[q] = req[q]
    BY <1>2, <1>4, Zenon DEF IdentityTypeOK
  <2>2. LocalOK(req[q]) /\ RowsOK(q) /\ AccountOK(q) /\ TargetOK(q) /\ Keeps(q)
    BY DEF RequestsOK
  <2>3. RowsOK(q)'
    BY <1>4, <2>1, <2>2, RowsKept, RowsAssumption, Zenon
  <2>4. (req[q].user = None /\ req[q].role = None) \/ req[q].cred # None
    BY <2>2, Zenon DEF LocalOK
  <2>5. AccountOK(q)'
    BY <1>3, <2>1, <2>2, <2>4, AccountKept, Zenon
  <2>6. TargetOK(q)'
    BY <1>3, <2>1, <2>2, TargetKept, Zenon
  <2> QED BY <2>1, <2>2, <2>3, <2>5, <2>6, Zenon
<1> QED BY <1>1, <1>2, <1>3, <1>4 DEF RequestsOK

\* A request that ends, with its job settled or cut off.
LEMMA Finishes ==
    ASSUME IdentityTypeOK, NEW r \in Requests, NEW p \in {"done", "cut"},
           req' = [req EXCEPT ![r] = Ended(p)],
           jobs'[r] # None /\ jobs'[r].status = "pending" => p = "cut",
           jobs'[r] # None /\ jobs'[r].status = "completed" => r \in files'
    PROVE  GoesOn(r)
<1>1. /\ Ended(p).pc = p /\ Ended(p).user = None /\ Ended(p).role = None
      /\ Ended(p).subject = None /\ Ended(p).op = None /\ Ended(p) \in Request
  BY Zenon DEF Ended, NoRequest, Request, PCs
<1>2. req'[r] = Ended(p)
  BY Zenon DEF IdentityTypeOK
<1>3. None \notin Operations
  BY RowsAssumption
<1>4. LocalOK(Ended(p))
  BY <1>1, <1>3, Zenon DEF LocalOK, Over, Working, Operations, AdminOnly, SelfService
<1>5. RowsOK(r)'
  BY <1>1, <1>2, Zenon DEF RowsOK, Newcomer
<1>6. AccountOK(r)' /\ TargetOK(r)'
  BY <1>1, <1>2, Zenon DEF AccountOK, TargetOK
<1> QED BY <1>1, <1>4, <1>5, <1>6, Zenon DEF GoesOn, Moves

\* A request that goes on with the same account, and the same target.
LEMMA Continues ==
    ASSUME IdentityTypeOK, RequestsOK, NEW r \in Requests, Tame(r), Keeps(r),
           req[r].pc \notin Over,
           NEW w \in Request, LocalOK(w), req' = [req EXCEPT ![r] = w],
           w.cred = req[r].cred, w.user = req[r].user, w.role = req[r].role,
           w.subject # None => w.subject = req[r].subject /\ w.target = req[r].target,
           RowsOK(r)'
    PROVE  GoesOn(r)
<1>1. req'[r] = w /\ req' \in [Requests -> Request]
  BY Zenon DEF IdentityTypeOK
<1>2. LocalOK(req[r]) /\ AccountOK(r) /\ TargetOK(r) /\ req[r].cred # None
  BY DEF RequestsOK, LocalOK
<1>3. AccountOK(r)'
  BY <1>1, <1>2, AccountKept, Zenon
<1>4. TargetOK(r)'
  BY <1>1, <1>2, TargetKept, Zenon
<1> QED BY <1>3, <1>4, Zenon DEF GoesOn, Moves

\* A table that is not written is tame.
LEMMA QuietIsTame ==
    ASSUME NEW r
    PROVE  /\ users' = users => UsersTame(r)
           /\ keys' = keys => KeysTame(r)
           /\ jobs' = jobs => JobsTame(r)
           /\ UNCHANGED tables => Tame(r)
<1>1. users' = users => UsersTame(r)
  BY Zenon DEF UsersTame, Stored
<1>2. keys' = keys => KeysTame(r)
  BY Zenon DEF KeysTame
<1>3. jobs' = jobs => JobsTame(r)
  BY DEF JobsTame
<1> QED BY <1>1, <1>2, <1>3, Zenon DEF Tame, tables

\* A request that only goes elsewhere.
Same(w, v) ==
    /\ w \in Request /\ w.op = v.op /\ w.cred = v.cred /\ w.target = v.target
    /\ w.value = v.value /\ w.user = v.user /\ w.role = v.role /\ w.subject = v.subject

LEMMA GotoKeeps ==
    ASSUME IdentityTypeOK, RequestsOK, NEW r \in Requests, NEW p \in PCs, Goto(r, p),
           Tame(r), Keeps(r), req[r].pc \notin Over,
           ASSUME NEW w, Same(w, req[r]), w.pc = p, req'[r] = w
           PROVE  LocalOK(w) /\ RowsOK(r)'
    PROVE  GoesOn(r)
<1> DEFINE w == [req[r] EXCEPT !.pc = p]
<1>1. req' = [req EXCEPT ![r] = w] /\ req'[r] = w
  BY Zenon DEF Goto, IdentityTypeOK
<1>2. req[r] \in Request
  BY Zenon DEF IdentityTypeOK
<1>3. Same(w, req[r]) /\ w.pc = p
  BY <1>2 DEF Request, Same
<1> HIDE DEF w
<1>4. LocalOK(w) /\ RowsOK(r)'
  BY <1>1, <1>3, Zenon
<1> QED BY <1>1, <1>3, <1>4, Continues, Zenon DEF Same

-----------------------------------------------------------------------------
(* Authentication.                                                         *)

\* A request that is made is one of the API's.
Asked(c) == /\ c \in Request /\ LocalOK(c) /\ c.user = None /\ c.role = None
            /\ c.subject = None /\ c.pc \in {"ingest", "key", "resolve"}

LEMMA CallIsAsked ==
    ASSUME NEW op \in Operations, NEW cred \in Subjects \cup Keys,
           NEW target \in Ids \cup Keys \cup {None},
           NEW value \in {"active", "disabled", None} \cup Roles, NEW fields \in SUBSET Fields,
           op \in AdminOnly => target \in Ids,
           op = "SetUserStatus" => value \in {"active", "disabled"},
           op = "SetUserRole" => value \in Roles,
           op = "RevokeAPIKey" => target \in Keys,
           op = "AuthWebhook" => cred \in Subjects
    PROVE  Asked(Call(op, cred, target, value, fields))
<1> DEFINE c == Call(op, cred, target, value, fields)
<1>1. /\ c.op = op /\ c.cred = cred /\ c.target = target /\ c.value = value
      /\ c.user = None /\ c.role = None /\ c.subject = None /\ c \in Request
      /\ c.pc = IF op = "AuthWebhook" THEN "ingest"
                ELSE IF cred \in Keys THEN "key" ELSE "resolve"
  <2> DEFINE pc == IF op = "AuthWebhook" THEN "ingest"
                   ELSE IF cred \in Keys THEN "key" ELSE "resolve"
  <2>1. c = [pc |-> pc, op |-> op, cred |-> cred, target |-> target, value |-> value,
             fields |-> fields, user |-> None, role |-> None, subject |-> None]
    BY Zenon DEF Call
  <2>2. pc \in PCs
    BY DEF PCs
  <2> HIDE DEF c, pc
  <2>3. c \in Request
    BY <2>1, <2>2, Zenon DEF Request
  <2> QED BY <2>1, <2>3, Zenon DEF pc
<1> HIDE DEF c
<1>2. c.pc \in {"ingest", "key", "resolve"}
  BY <1>1, Zenon
<1>3. cred # None /\ op # None
  <2>1. None \notin Subjects /\ None \notin Requests /\ None # OldKey
    BY IdentityAssumption, RowsAssumption, Zenon
  <2>2. None \notin Operations
    BY RowsAssumption, Zenon
  <2> QED BY <2>1, <2>2, Zenon DEF Keys
<1>4. LocalOK(c)
  BY <1>1, <1>3 DEF LocalOK, Over, Working
<1>5. Asked(c)
  BY <1>1, <1>2, <1>4, Zenon DEF Asked
<1> QED BY <1>5, Zenon DEF c

LEMMA CallsAreAsked ==
    ASSUME IdentityTypeOK, NEW c \in Calls
    PROVE  Asked(c)
<1> DEFINE By(op) == IF op \in mix.ops THEN Credentials ELSE {}
           Simple == {"DeleteMe", "RequestMyExport", "CreateAPIKey"}
           On == {"DeleteUser", "RequestUserExport"}
<1> USE DEF Operations, SelfService, AdminOnly
<1>1. mix.ops \subseteq Operations /\ mix.creds \subseteq Subjects \cup Keys
      /\ mix.targets \subseteq Ids
  BY MixAssumption, Zenon DEF IdentityTypeOK
<1>2. Credentials \subseteq Subjects \cup Keys /\ \A op : By(op) \subseteq Subjects \cup Keys
  BY <1>1, Zenon DEF Credentials
<1>3. CASE \E d \in By("UpdateMe"), f \in SUBSET Fields : c = Call("UpdateMe", d, None, None, f)
  BY <1>2, <1>3, CallIsAsked, Zenon
<1>4. CASE \E op \in mix.ops \cap Simple, d \in Credentials : c = Call(op, d, None, None, {})
  BY <1>2, <1>4, CallIsAsked, Zenon
<1>5. CASE \E d \in By("RevokeAPIKey"), k \in Keys : c = Call("RevokeAPIKey", d, k, None, {})
  BY <1>2, <1>5, CallIsAsked, Zenon
<1>6. CASE \E d \in By("SetUserStatus"), u \in mix.targets, v \in {"active", "disabled"} :
              c = Call("SetUserStatus", d, u, v, {})
  BY <1>1, <1>2, <1>6, CallIsAsked
<1>7. CASE \E d \in By("SetUserRole"), u \in mix.targets, v \in Roles :
              c = Call("SetUserRole", d, u, v, {})
  <2>1. PICK d \in By("SetUserRole"), u \in mix.targets, v \in Roles :
              c = Call("SetUserRole", d, u, v, {})
    BY <1>7, Zenon
  <2>2. d \in Subjects \cup Keys /\ u \in Ids
    BY <1>1, <1>2, Zenon
  <2> QED BY <2>1, <2>2, CallIsAsked, Zenon
<1>8. CASE \E op \in mix.ops \cap On, d \in Credentials, u \in mix.targets :
              c = Call(op, d, u, None, {})
  <2>1. PICK op \in mix.ops \cap On, d \in Credentials, u \in mix.targets :
              c = Call(op, d, u, None, {})
    BY <1>8, Zenon
  <2>2. op \in On /\ d \in Subjects \cup Keys /\ u \in Ids
    BY <1>1, <1>2, Zenon
  <2>3. op \in Operations /\ op \notin {"SetUserStatus", "SetUserRole", "RevokeAPIKey", "AuthWebhook"}
    BY <2>2, Zenon
  <2> QED BY <2>1, <2>2, <2>3, CallIsAsked, Zenon
<1>9. CASE \E d \in By("AuthWebhook") \cap Subjects : c = Call("AuthWebhook", d, None, None, {})
  BY <1>2, <1>9, CallIsAsked, Zenon
<1> QED BY <1>3, <1>4, <1>5, <1>6, <1>7, <1>8, <1>9 DEF Calls

LEMMA BeginKeeps ==
    ASSUME IdentityTypeOK, RequestsOK, NEW r \in Requests, Begin(r)
    PROVE  GoesOn(r)
<1>1. PICK c \in Calls : req' = [req EXCEPT ![r] = c]
  BY Zenon DEF Begin
<1>2. /\ c \in Request /\ LocalOK(c) /\ c.user = None /\ c.role = None
      /\ c.subject = None /\ c.pc \in {"ingest", "key", "resolve"}
  BY CallsAreAsked, Zenon DEF Asked
<1>3. req'[r] = c
  BY <1>1, Zenon DEF IdentityTypeOK
<1>4. users[r] = None /\ keys[r] = None /\ jobs[r] = None
  BY Zenon DEF Begin, RequestsOK, RowsOK, Newcomer
<1>5. users' = users /\ keys' = keys /\ jobs' = jobs
  BY DEF Begin, tables
<1>6. RowsOK(r)'
  BY <1>2, <1>3, <1>4, <1>5, Zenon DEF RowsOK
<1>7. AccountOK(r)' /\ TargetOK(r)'
  BY <1>2, <1>3, Zenon DEF AccountOK, TargetOK
<1> QED BY <1>1, <1>2, <1>6, <1>7, Zenon DEF GoesOn, Moves

\* Before its caller is known a request has made no key, job or file.
LEMMA NothingMade ==
    ASSUME RequestsOK, NEW r \in Requests,
           req[r].pc \notin {"store", "complete", "fail", "done", "cut"}
    PROVE  keys[r] = None /\ jobs[r] = None
BY Zenon DEF RequestsOK, RowsOK

\* The end of a request that has made no job.
LEMMA EndsEarly ==
    ASSUME IdentityTypeOK, RequestsOK, NEW r \in Requests, End(r),
           req[r].pc \notin {"store", "complete", "fail", "done", "cut"}, jobs'[r] = jobs[r]
    PROVE  GoesOn(r)
BY NothingMade, Finishes, Zenon DEF End

\* The rights of an active account are among those of its credential.
LEMMA RightIsHeld ==
    ASSUME NEW u \in Ids, NEW c, IsActive(u), users[u].role \in Roles,
           \/ c \in Subjects /\ users[u].subject = c
           \/ c \in Keys \ Subjects /\ keys[c] # None /\ keys[c].owner = u
    PROVE  users[u].role \in RightsOf(c)
<1>1. CASE c \in Subjects /\ users[u].subject = c
  BY <1>1, Zenon DEF RightsOf, AccountsOf, IsActive
<1>2. CASE c \in Keys \ Subjects /\ keys[c] # None /\ keys[c].owner = u
  BY <1>2, Zenon DEF RightsOf, Roles
<1> QED BY <1>1, <1>2, Zenon

LEMMA SameRights ==
    ASSUME NEW c, UNCHANGED <<users, keys>>
    PROVE  RightsOf(c)' = RightsOf(c)
<1>1. \A u : (Stored(u)' <=> Stored(u)) /\ (IsActive(u)' <=> IsActive(u))
  BY Zenon DEF Stored, IsActive
<1>2. AccountsOf(c)' = AccountsOf(c)
  BY <1>1 DEF AccountsOf
<1> QED BY <1>1, <1>2, Zenon DEF RightsOf

\* A request that goes elsewhere with some of its local variables set.
GoWithCaller(v, p, u, x) == [v EXCEPT !.pc = p, !.user = u, !.role = x]
GoWithUser(v, p, u)      == [v EXCEPT !.pc = p, !.user = u]
GoWithTarget(v, p, t)    == [v EXCEPT !.pc = p, !.target = t]
GoWithSubject(v, p, s)   == [v EXCEPT !.subject = s, !.pc = p]
GoWithFields(v, p, f)    == [v EXCEPT !.fields = f, !.pc = p]

LEMMA WithCaller ==
    ASSUME NEW v \in Request, NEW p \in PCs, NEW u \in Ids, NEW x \in Roles, NEW w,
           w = GoWithCaller(v, p, u, x)
    PROVE  /\ w \in Request /\ w.pc = p /\ w.user = u /\ w.role = x
           /\ w.cred = v.cred /\ w.op = v.op /\ w.value = v.value /\ w.target = v.target /\ w.subject = v.subject
<1>1. w \in Request
  BY Zenon DEF Request, GoWithCaller
<1> QED BY <1>1 DEF Request, GoWithCaller

LEMMA WithUser ==
    ASSUME NEW v \in Request, NEW p \in PCs, NEW u \in Ids \cup {None}, NEW w,
           w = GoWithUser(v, p, u)
    PROVE  /\ w \in Request /\ w.pc = p /\ w.user = u /\ w.role = v.role
           /\ w.cred = v.cred /\ w.op = v.op /\ w.value = v.value /\ w.target = v.target /\ w.subject = v.subject
<1>1. w \in Request
  BY Zenon DEF Request, GoWithUser
<1> QED BY <1>1 DEF Request, GoWithUser

LEMMA WithTarget ==
    ASSUME NEW v \in Request, NEW p \in PCs, NEW t \in Ids \cup Keys \cup {None}, NEW w,
           w = GoWithTarget(v, p, t)
    PROVE  /\ w \in Request /\ w.pc = p /\ w.user = v.user /\ w.role = v.role
           /\ w.cred = v.cred /\ w.op = v.op /\ w.value = v.value /\ w.target = t /\ w.subject = v.subject
<1>1. w \in Request
  BY Zenon DEF Request, GoWithTarget
<1> QED BY <1>1, Zenon DEF Request, GoWithTarget

LEMMA WithSubject ==
    ASSUME NEW v \in Request, NEW p \in PCs, NEW s \in Subjects, NEW w,
           w = GoWithSubject(v, p, s)
    PROVE  /\ w \in Request /\ w.pc = p /\ w.user = v.user /\ w.role = v.role
           /\ w.cred = v.cred /\ w.op = v.op /\ w.value = v.value /\ w.target = v.target /\ w.subject = s
<1>1. w \in Request
  BY Zenon DEF Request, GoWithSubject
<1> QED BY <1>1 DEF Request, GoWithSubject

LEMMA WithFields ==
    ASSUME NEW v \in Request, NEW p \in PCs, NEW f \in SUBSET Fields, NEW w,
           w = GoWithFields(v, p, f)
    PROVE  /\ w \in Request /\ w.pc = p /\ w.user = v.user /\ w.role = v.role
           /\ w.cred = v.cred /\ w.op = v.op /\ w.value = v.value /\ w.target = v.target /\ w.subject = v.subject
<1>1. w \in Request
  BY Zenon DEF Request, GoWithFields
<1> QED BY <1>1 DEF Request, GoWithFields

\* Whoever is admitted acts for the account that was read, with the role in its row.
LEMMA AdmitKeeps ==
    ASSUME IdentityTypeOK, RequestsOK, NEW r \in Requests, Keeps(r), UNCHANGED tables,
           req[r].pc \in {"resolve", "reread", "keyUser"}, NEW u \in Ids, Stored(u),
           req[r].cred \in Subjects => users[u].subject = req[r].cred,
           req[r].cred \in Keys => /\ keys[req[r].cred] # None /\ "key" \in had[r]
                                   /\ keys[req[r].cred].owner = u,
           Admit(r, u)
    PROVE  GoesOn(r)
<1>1. CASE ~IsActive(u)
  BY <1>1, EndsEarly, Zenon DEF Admit, tables
<1>2. CASE IsActive(u)
  <2> DEFINE w == GoWithCaller(req[r], "touch", u, users[u].role)
  <2>1. req[r] \in Request /\ LocalOK(req[r]) /\ u # None
    BY IdentityAssumption, RowsAssumption, Zenon DEF IdentityTypeOK, RequestsOK, Ids
  <2>2. users[u].role \in Roles
    BY Zenon DEF IdentityTypeOK, Stored, User
  <2>3. req' = [req EXCEPT ![r] = w]
    BY <1>2, Zenon DEF Admit, IdentityTypeOK, GoWithCaller
  <2>4. /\ w \in Request /\ w.pc = "touch" /\ w.user = u /\ w.role = users[u].role
        /\ w.cred = req[r].cred /\ w.op = req[r].op /\ w.target = req[r].target
        /\ w.value = req[r].value /\ w.subject = req[r].subject
    <3>1. "touch" \in PCs
      BY Zenon DEF PCs
    <3> QED BY <2>1, <2>2, <3>1, WithCaller
  <2> HIDE DEF w
  <2>5. req'[r] = w
    BY <2>3, Zenon DEF IdentityTypeOK
  <2>6. req[r].cred # None /\ (req[r].cred \in Subjects \/ req[r].cred \in Keys)
    BY <2>1, Zenon DEF LocalOK, Over
  <2>7. LocalOK(w)
    BY <2>1, <2>4, <2>6 DEF LocalOK, Over, Working
  <2>8. RowsOK(r)'
    BY <2>4, <2>5, Zenon DEF RowsOK, RequestsOK, tables, Newcomer
  <2>9. users[u].role \in RightsOf(req[r].cred)
    BY <1>2, <2>2, <2>6, RightIsHeld, Zenon
  <2>10. PICK c \in Subjects \cup Keys : c = req[r].cred /\ c = req'[r].cred
    BY <2>4, <2>5, <2>6, Zenon
  <2>11. users[u].role \in had'[r] /\ had[r] \subseteq had'[r]
    <3>1. RightsOf(c)' = RightsOf(c)
      BY SameRights, Zenon DEF tables
    <3> QED BY <2>9, <2>10, <3>1, Zenon DEF Keeps
  <2>12. AccountOK(r)'
    <3>1. req'[r].user = u /\ req'[r].role = users[u].role /\ req'[r].cred = req[r].cred
      BY <2>4, <2>5, Zenon
    <3>2. users' = users /\ keys' = keys
      BY Zenon DEF tables
    <3>3. users[u] # None
      BY Zenon DEF Stored
    <3>4. req[r].cred \in Keys => "key" \in had'[r]
      BY <2>11, Zenon
    <3> QED BY <2>11, <3>1, <3>2, <3>3, <3>4, Zenon DEF AccountOK
  <2>13. TargetOK(r)'
    BY <2>4, <2>5 DEF TargetOK, RequestsOK, tables, Stored
  <2> QED BY <2>3, <2>4, <2>7, <2>8, <2>12, <2>13, Zenon DEF GoesOn, Moves
<1> QED BY <1>1, <1>2, Zenon

LEMMA ResolveKeeps ==
    ASSUME IdentityTypeOK, RequestsOK, NEW r \in Requests, Keeps(r), Resolve(r)
    PROVE  GoesOn(r)
<1>1. req[r] \in Request /\ LocalOK(req[r]) /\ req[r].pc = "resolve" /\ req[r].cred \in Subjects
  BY Zenon DEF IdentityTypeOK, RequestsOK, Resolve, LocalOK
<1>2. CASE AccountsOf(req[r].cred) = {}
  <2>1. Goto(r, "provision") /\ "provision" \in PCs
    BY <1>2, Zenon DEF Resolve, PCs
  <2>2. ASSUME NEW w, Same(w, req[r]), w.pc = "provision", req'[r] = w
        PROVE  LocalOK(w) /\ RowsOK(r)'
    <3>1. LocalOK(w)
      BY <1>1, <2>2 DEF LocalOK, Same, Over, Working
    <3>2. RowsOK(r)'
      BY <1>1, <2>2, Zenon DEF RowsOK, RequestsOK, Resolve, tables, Newcomer
    <3> QED BY <3>1, <3>2, Zenon
  <2>3. Tame(r) /\ req[r].pc \notin Over
    BY <1>1, QuietIsTame, Zenon DEF Resolve, Over
  <2> QED BY <2>1, <2>2, <2>3, GotoKeeps, Zenon
<1>3. ASSUME NEW u \in AccountsOf(req[r].cred), Admit(r, u) PROVE GoesOn(r)
  <2>1. req[r].cred \notin Keys
    BY <1>1, IdentityAssumption, RowsAssumption, Zenon DEF Keys
  <2>2. u \in Ids /\ Stored(u) /\ users[u].subject = req[r].cred
    BY Zenon DEF AccountsOf
  <2>3. UNCHANGED tables
    BY Zenon DEF Resolve
  <2> QED BY <1>1, <1>3, <2>1, <2>2, <2>3, AdmitKeeps, Zenon
<1> QED BY <1>2, <1>3, Zenon DEF Resolve

LEMMA RereadKeeps ==
    ASSUME IdentityTypeOK, RequestsOK, NEW r \in Requests, Keeps(r), Reread(r)
    PROVE  GoesOn(r)
<1>1. req[r] \in Request /\ LocalOK(req[r]) /\ req[r].pc = "reread" /\ req[r].cred \in Subjects
  BY Zenon DEF IdentityTypeOK, RequestsOK, Reread, LocalOK
<1>2. CASE AccountsOf(req[r].cred) = {}
  BY <1>1, <1>2, EndsEarly, Zenon DEF Reread, tables
<1>3. ASSUME NEW u \in AccountsOf(req[r].cred), Admit(r, u) PROVE GoesOn(r)
  <2>1. req[r].cred \notin Keys
    BY <1>1, IdentityAssumption, RowsAssumption, Zenon DEF Keys
  <2>2. u \in Ids /\ Stored(u) /\ users[u].subject = req[r].cred
    BY Zenon DEF AccountsOf
  <2>3. UNCHANGED tables
    BY Zenon DEF Reread
  <2> QED BY <1>1, <1>3, <2>1, <2>2, <2>3, AdmitKeeps, Zenon
<1> QED BY <1>2, <1>3, Zenon DEF Reread

\* A usable key is read, and its owner, who is stored, becomes the caller to be checked.
LEMMA KeyLookupKeeps ==
    ASSUME IdentityTypeOK, RequestsOK, NoDangling, NEW r \in Requests, Keeps(r), KeyLookup(r)
    PROVE  GoesOn(r)
<1>1. /\ req[r] \in Request /\ LocalOK(req[r]) /\ req[r].pc = "key" /\ req[r].cred \in Keys
      /\ UNCHANGED tables /\ RowsOK(r) /\ AccountOK(r) /\ TargetOK(r)
  BY DEF IdentityTypeOK, RequestsOK, KeyLookup, LocalOK
<1>2. CASE keys[req[r].cred] = None \/ keys[req[r].cred].revoked
  BY <1>1, <1>2, EndsEarly, Zenon DEF KeyLookup, tables
<1>3. CASE keys[req[r].cred] # None /\ ~keys[req[r].cred].revoked
  <2>1. PICK c \in Keys : c = req[r].cred /\ c \notin Subjects /\ c # None
    BY <1>1, IdentityAssumption, RowsAssumption, Zenon DEF Keys
  <2>2. PICK u \in Ids : u = keys[c].owner /\ Stored(u) /\ u # None
    BY <1>3, <2>1, IdentityAssumption, RowsAssumption DEF IdentityTypeOK, NoDangling, Key, Ids
  <2> DEFINE w == GoWithUser(req[r], "keyUser", u)
  <2>3. req' = [req EXCEPT ![r] = w]
    BY <1>3, <2>1, <2>2, Zenon DEF KeyLookup, IdentityTypeOK, GoWithUser
  <2>4. /\ w \in Request /\ w.pc = "keyUser" /\ w.user = u /\ w.role = req[r].role
        /\ w.cred = c /\ w.op = req[r].op /\ w.target = req[r].target
        /\ w.value = req[r].value /\ w.subject = req[r].subject
    <3>1. "keyUser" \in PCs
      BY Zenon DEF PCs
    <3>2. u \in Ids \cup {None} /\ req[r] \in Request /\ w = GoWithUser(req[r], "keyUser", u)
      BY <1>1, Zenon
    <3> HIDE DEF w
    <3>3. /\ w \in Request /\ w.pc = "keyUser" /\ w.user = u /\ w.role = req[r].role
          /\ w.cred = req[r].cred /\ w.op = req[r].op /\ w.value = req[r].value
          /\ w.target = req[r].target /\ w.subject = req[r].subject
      BY <3>1, <3>2, WithUser, SMTT(20)
    <3> QED BY <2>1, <3>3, Zenon
  <2> HIDE DEF w
  <2>5. req'[r] = w
    BY <2>3, Zenon DEF IdentityTypeOK
  <2>6. LocalOK(w)
    BY <1>1, <2>1, <2>2, <2>4, Zenon DEF LocalOK, Over, Working
  <2>7. RowsOK(r)'
    BY <1>1, <2>4, <2>5, Zenon DEF RowsOK, tables, Newcomer
  <2>8. "key" \in had'[r] /\ had[r] \subseteq had'[r]
    <3>1. "key" \in RightsOf(c)
      BY <1>3, <2>1, Zenon DEF RightsOf
    <3>2. RightsOf(c)' = RightsOf(c)
      BY <1>1, SameRights, Zenon DEF tables
    <3> QED BY <2>4, <2>5, <3>1, <3>2, Zenon DEF Keeps
  <2>9. AccountOK(r)'
    <3>1. req'[r].user = u /\ req'[r].role = req[r].role /\ req'[r].cred = c
      BY <2>4, <2>5, Zenon
    <3>2. users' = users /\ keys' = keys
      BY <1>1, Zenon DEF tables
    <3>3. users[u] # None /\ keys[c] # None
      BY <1>3, <2>1, <2>2, Zenon DEF Stored
    <3>4. req[r].role # None => req[r].role \in had'[r]
      BY <1>1, <2>8, Zenon DEF AccountOK
    <3> QED BY <2>1, <2>2, <2>8, <3>1, <3>2, <3>3, <3>4, Zenon DEF AccountOK
  <2>10. TargetOK(r)'
    BY <1>1, <2>4, <2>5, Zenon DEF TargetOK, tables, Stored
  <2> QED BY <2>3, <2>4, <2>6, <2>7, <2>9, <2>10, Zenon DEF GoesOn, Moves
<1> QED BY <1>2, <1>3, Zenon

LEMMA KeyUserKeeps ==
    ASSUME IdentityTypeOK, RequestsOK, NEW r \in Requests, Keeps(r), KeyUser(r)
    PROVE  GoesOn(r)
<1>1. /\ req[r] \in Request /\ LocalOK(req[r]) /\ req[r].pc = "keyUser" /\ req[r].cred \in Keys
      /\ UNCHANGED tables /\ AccountOK(r)
  BY DEF IdentityTypeOK, RequestsOK, KeyUser, LocalOK
<1>2. CASE ~Stored(req[r].user)
  BY <1>1, <1>2, EndsEarly, Zenon DEF KeyUser, tables
<1>3. CASE Stored(req[r].user)
  <2>1. PICK u \in Ids : u = req[r].user /\ u # None
    BY <1>1, Zenon DEF Request, LocalOK
  <2>2. req[r].cred \notin Subjects
    BY <1>1, IdentityAssumption, RowsAssumption, Zenon DEF Keys
  <2>3. Stored(u) /\ Admit(r, u)
    BY <1>3, <2>1, Zenon DEF KeyUser
  <2>4. keys[req[r].cred] # None /\ keys[req[r].cred].owner = u /\ "key" \in had[r]
    BY <1>1, <2>1, <2>3, Zenon DEF AccountOK
  <2> QED BY <1>1, <2>2, <2>3, <2>4, AdmitKeeps, Zenon
<1> QED BY <1>2, <1>3, Zenon

\* The caller passes the checks on its role and on acting on itself.
LEMMA TouchKeeps ==
    ASSUME IdentityTypeOK, RequestsOK, NEW r \in Requests, Keeps(r), Touch(r)
    PROVE  GoesOn(r)
<1>1. /\ req[r] \in Request /\ LocalOK(req[r]) /\ req[r].pc = "touch"
      /\ UNCHANGED tables /\ RowsOK(r)
  BY Zenon DEF IdentityTypeOK, RequestsOK, Touch
<1>2. CASE ~Allowed(r) \/ SelfLockout(r)
  BY <1>1, <1>2, EndsEarly DEF Touch, tables
<1>3. CASE ~(~Allowed(r) \/ SelfLockout(r))
  <2> DEFINE t == IF req[r].op \in {"DeleteMe", "RequestMyExport"}
                  THEN req[r].user ELSE req[r].target
             p == FirstStep(req[r].op)
             w == GoWithTarget(req[r], p, t)
  <2>1. req' = [req EXCEPT ![r] = w]
    BY <1>3, Zenon DEF Touch, IdentityTypeOK, GoWithTarget
  <2>2. p \in {"read", "write", "lookup"} /\ p \in PCs /\ t \in Ids \cup Keys \cup {None}
    BY <1>1, Zenon DEF FirstStep, PCs, Request
  <2>3. /\ p = "read" => req[r].op = "UpdateMe"
        /\ p = "write" => req[r].op \in {"CreateAPIKey", "RevokeAPIKey"}
        /\ p = "lookup" => req[r].op \notin {"UpdateMe", "CreateAPIKey", "RevokeAPIKey"}
    BY Zenon DEF FirstStep
  <2>4. /\ req[r].op \notin {"DeleteMe", "RequestMyExport"} => t = req[r].target
        /\ req[r].op \in {"DeleteMe", "RequestMyExport"} => t = req[r].user
    BY Zenon
  <2> HIDE DEF p, t
  <2>5. /\ w.pc = p /\ w.op = req[r].op /\ w.target = t
        /\ w.cred = req[r].cred /\ w.value = req[r].value /\ w.user = req[r].user
        /\ w.role = req[r].role /\ w.subject = req[r].subject /\ w \in Request
    <3>1. req[r] \in Request /\ w = GoWithTarget(req[r], p, t)
      BY <1>1, Zenon
    <3> HIDE DEF w
    <3> QED BY <2>2, <3>1, WithTarget, SMTT(20)
  <2> HIDE DEF w
  <2>6. /\ req[r].subject = None /\ req[r].op # "AuthWebhook" /\ req[r].user \in Ids
        /\ req[r].user # None /\ req[r].op \in Operations
    BY <1>1, Zenon DEF LocalOK, Over, Working, Request
  <2>7. req[r].op \in OnOthers => req[r].target # req[r].user
    BY <1>3, Zenon DEF SelfLockout, OnOthers
  <2>8. p = "lookup" => t \in Ids
    BY <1>1, <2>3, <2>4, <2>6, Zenon DEF LocalOK, Operations, SelfService, AdminOnly
  <2>9. LocalOK(w)
    BY <1>1, <2>2, <2>3, <2>4, <2>5, <2>6, <2>7, <2>8, Zenon
       DEF LocalOK, Over, Working, OnOthers, OnTarget, AdminOnly
  <2>10. RowsOK(r)'
    <3>1. req'[r] = w
      BY <2>1, Zenon DEF IdentityTypeOK
    <3> QED BY <1>1, <2>2, <2>5, <3>1, Zenon DEF RowsOK, tables, Newcomer
  <2>11. Tame(r) /\ req[r].pc \notin Over
    BY <1>1, QuietIsTame, Zenon DEF Over
  <2> QED BY <2>1, <2>5, <2>6, <2>9, <2>10, <2>11, Continues, Zenon
<1> QED BY <1>2, <1>3, Zenon

-----------------------------------------------------------------------------
(* The services, where they write no table.                                *)

\* The target is read; its subject is the one the auth provider will be told of.
LEMMA LookupKeeps ==
    ASSUME IdentityTypeOK, RequestsOK, NEW r \in Requests, Keeps(r), Lookup(r)
    PROVE  GoesOn(r)
<1>1. /\ req[r] \in Request /\ LocalOK(req[r]) /\ req[r].pc = "lookup"
      /\ UNCHANGED tables /\ RowsOK(r) /\ AccountOK(r)
  BY Zenon DEF IdentityTypeOK, RequestsOK, Lookup
<1>2. CASE ~Stored(req[r].target)
  BY <1>1, <1>2, EndsEarly DEF Lookup, tables
<1>3. CASE Stored(req[r].target)
  <2>1. PICK u \in Ids : u = req[r].target
    BY <1>1, Zenon DEF LocalOK
  <2>2. PICK s \in Subjects : s = users[u].subject /\ s # None
    BY <1>3, <2>1, IdentityAssumption DEF IdentityTypeOK, Stored, User
  <2> DEFINE p == IF req[r].op = "SetUserStatus" THEN "ban" ELSE "write"
             w == GoWithSubject(req[r], p, s)
  <2>3. req' = [req EXCEPT ![r] = w]
    BY <1>3, <2>1, <2>2, Zenon DEF Lookup, IdentityTypeOK, GoWithSubject
  <2>4. p \in PCs /\ p \in {"ban", "write"} /\ (p = "ban" <=> req[r].op = "SetUserStatus")
    BY Zenon DEF PCs
  <2> HIDE DEF p
  <2>5. /\ w \in Request /\ w.pc = p /\ w.op = req[r].op /\ w.target = u
        /\ w.cred = req[r].cred /\ w.value = req[r].value /\ w.user = req[r].user
        /\ w.role = req[r].role /\ w.subject = s
    <3>1. req[r] \in Request /\ w = GoWithSubject(req[r], p, s)
      BY <1>1, Zenon
    <3> HIDE DEF w
    <3>2. /\ w \in Request /\ w.pc = p /\ w.op = req[r].op /\ w.target = req[r].target
          /\ w.cred = req[r].cred /\ w.value = req[r].value /\ w.user = req[r].user
          /\ w.role = req[r].role /\ w.subject = s
      BY <2>4, <3>1, WithSubject, SMTT(20)
    <3> QED BY <2>1, <3>2, Zenon
  <2> HIDE DEF w
  <2>6. req'[r] = w /\ req' \in [Requests -> Request]
    BY <2>3, <2>5, Zenon DEF IdentityTypeOK
  <2>7. LocalOK(w)
    BY <1>1, <2>1, <2>2, <2>4, <2>5, Zenon DEF LocalOK, Over, Working, OnOthers
  <2>8. RowsOK(r)'
    BY <1>1, <2>4, <2>5, <2>6, Zenon DEF RowsOK, tables, Newcomer
  <2>9. Tame(r) /\ req[r].cred # None
    BY <1>1, QuietIsTame, Zenon DEF Over, LocalOK
  <2>10. AccountOK(r)'
    BY <1>1, <2>5, <2>6, <2>9, AccountKept, Zenon
  <2>11. TargetOK(r)'
    <3>1. users[u] # None /\ users' = users
      BY <1>1, <1>3, <2>1, Zenon DEF Stored, tables
    <3> QED BY <2>2, <2>5, <2>6, <3>1, Zenon DEF TargetOK
  <2> QED BY <2>3, <2>5, <2>7, <2>8, <2>10, <2>11, Zenon DEF GoesOn, Moves
<1> QED BY <1>2, <1>3, Zenon

LEMMA ReadProfileKeeps ==
    ASSUME IdentityTypeOK, RequestsOK, NEW r \in Requests, Keeps(r), ReadProfile(r)
    PROVE  GoesOn(r)
<1>1. /\ req[r] \in Request /\ LocalOK(req[r]) /\ req[r].pc = "read"
      /\ UNCHANGED tables /\ RowsOK(r)
  BY Zenon DEF IdentityTypeOK, RequestsOK, ReadProfile
<1>2. CASE ~Stored(req[r].user)
  BY <1>1, <1>2, EndsEarly DEF ReadProfile, tables
<1>3. CASE Stored(req[r].user)
  <2>1. PICK u \in Ids : u = req[r].user /\ u # None
    BY <1>1, Zenon DEF LocalOK, Working, Request
  <2>2. PICK f \in SUBSET Fields : f = req[r].fields \cup users[u].profile
    BY <1>1, <1>3, <2>1, Zenon DEF IdentityTypeOK, Stored, User, Request
  <2> DEFINE w == GoWithFields(req[r], "write", f)
  <2>3. req' = [req EXCEPT ![r] = w]
    <3>1. req' = [req EXCEPT ![r].fields = req[r].fields \cup users[req[r].user].profile,
                             ![r].pc = "write"]
      BY <1>3, Zenon DEF ReadProfile
    <3>2. req' = [req EXCEPT ![r].fields = f, ![r].pc = "write"]
      BY <2>1, <2>2, <3>1, Zenon
    <3> QED BY <3>2, Zenon DEF IdentityTypeOK, GoWithFields
  <2>4. Same(w, req[r]) /\ w.pc = "write"
    <3>1. "write" \in PCs
      BY Zenon DEF PCs
    <3> QED BY <1>1, <2>2, <3>1, WithFields DEF Same
  <2> HIDE DEF w
  <2>5. LocalOK(w)
    BY <1>1, <2>4, Zenon DEF Same, LocalOK, Over, Working, OnOthers, OnTarget, AdminOnly
  <2>6. RowsOK(r)'
    <3>1. req'[r] = w
      BY <2>3, Zenon DEF IdentityTypeOK
    <3> QED BY <1>1, <2>4, <3>1, Zenon DEF RowsOK, tables, Newcomer
  <2>7. Tame(r) /\ req[r].pc \notin Over
    BY <1>1, QuietIsTame, Zenon DEF Over
  <2> QED BY <2>3, <2>4, <2>5, <2>6, <2>7, Continues, Zenon DEF Same
<1> QED BY <1>2, <1>3

\* The webhook's event is about the account of its subject, if there is one.
LEMMA ResolveEventKeeps ==
    ASSUME IdentityTypeOK, RequestsOK, NEW r \in Requests, ResolveEvent(r)
    PROVE  GoesOn(r)
<1>1. /\ req[r] \in Request /\ LocalOK(req[r]) /\ req[r].pc = "ingest"
      /\ UNCHANGED tables /\ RowsOK(r) /\ TargetOK(r)
  BY Zenon DEF IdentityTypeOK, RequestsOK, ResolveEvent
<1>2. PICK u : u = IF AccountsOf(req[r].cred) = {} THEN None
                  ELSE CHOOSE v \in AccountsOf(req[r].cred) : TRUE
  OBVIOUS
<1>3. u = None \/ (u \in Ids /\ Stored(u) /\ users[u].subject = req[r].cred)
  BY <1>2, Zenon DEF AccountsOf
<1> DEFINE w == GoWithUser(req[r], "write", u)
<1>4. req' = [req EXCEPT ![r] = w]
  <2>1. req' = [req EXCEPT ![r].pc = "write", ![r].user = u]
    BY <1>2, Zenon DEF ResolveEvent
  <2> QED BY <2>1, Zenon DEF IdentityTypeOK, GoWithUser
<1>5. /\ w \in Request /\ w.pc = "write" /\ w.op = req[r].op /\ w.target = req[r].target
      /\ w.cred = req[r].cred /\ w.value = req[r].value /\ w.user = u
      /\ w.role = req[r].role /\ w.subject = req[r].subject
  <2>1. "write" \in PCs /\ u \in Ids \cup {None}
    BY <1>3, Zenon DEF PCs
  <2> QED BY <1>1, <2>1, WithUser
<1> HIDE DEF w
<1>6. /\ req[r].cred \in Subjects /\ req[r].cred \notin Keys /\ req[r].role = None
      /\ req[r].op = "AuthWebhook" /\ req[r].subject = None
  BY <1>1, IdentityAssumption, RowsAssumption, Zenon DEF LocalOK, Keys, Working
<1>7. req'[r] = w
  BY <1>4, Zenon DEF IdentityTypeOK
<1>8. LocalOK(w)
  BY <1>1, <1>5, <1>6, Zenon DEF LocalOK, Over, Working, OnOthers, OnTarget, AdminOnly
<1>9. RowsOK(r)'
  BY <1>1, <1>5, <1>7, Zenon DEF RowsOK, tables, Newcomer
<1>10. AccountOK(r)'
  <2>1. req'[r].user = u /\ req'[r].role = None /\ req'[r].cred = req[r].cred
    BY <1>5, <1>6, <1>7, Zenon
  <2>2. users' = users /\ keys' = keys
    BY <1>1, Zenon DEF tables
  <2>3. u # None => users[u] # None
    BY <1>3, Zenon DEF Stored
  <2> QED BY <1>3, <1>6, <2>1, <2>2, <2>3, Zenon DEF AccountOK
<1>11. TargetOK(r)'
  BY <1>5, <1>6, <1>7, Zenon DEF TargetOK
<1> QED BY <1>4, <1>5, <1>8, <1>9, <1>10, <1>11, Zenon DEF GoesOn, Moves

-----------------------------------------------------------------------------
(* What the services write.                                                *)

KeysFine == keys \in [Keys -> Key \cup {None}]
            /\ \A k \in Keys : keys[k] # None => Stored(keys[k].owner)

JobsFine == jobs \in [Requests -> Job \cup {None}]
            /\ \A j \in Requests : jobs[j] # None =>
                  Stored(jobs[j].by) /\ (jobs[j].target # None => Stored(jobs[j].target))

AuditFine == audit \subseteq [of : Requests, user : Ids \cup {None}]
             /\ \A e \in audit : e.user # None => Stored(e.user)

UsersFine == users \in [Ids -> User \cup {None, Gone}] /\ OneAccount

\* The tables are as they should be after a step of request r.
TablesKept(r) == /\ UsersFine' /\ KeysFine' /\ JobsFine' /\ AuditFine'
                 /\ files' \subseteq Requests /\ Tame(r)

\* While accounts stay, the tables that are not written stay fine, and events are recorded.
LEMMA RowsStay ==
    ASSUME IdentityTypeOK, NoDangling, \A u \in Ids : Stored(u) => Stored(u)'
    PROVE  /\ keys' = keys => KeysFine'
           /\ jobs' = jobs => JobsFine'
           /\ audit' = audit => AuditFine'
<1>1. \A k \in Keys : keys[k] # None => keys[k].owner \in Ids /\ Stored(keys[k].owner)
  BY Zenon DEF IdentityTypeOK, NoDangling, Key
<1>2. keys' = keys => KeysFine'
  BY <1>1, Zenon DEF KeysFine, IdentityTypeOK, Stored
<1>3. \A j \in Requests : jobs[j] # None =>
          /\ jobs[j].by \in Ids /\ Stored(jobs[j].by)
          /\ jobs[j].target # None => jobs[j].target \in Ids /\ Stored(jobs[j].target)
  BY Zenon DEF IdentityTypeOK, NoDangling, Job
<1>4. jobs' = jobs => JobsFine'
  BY <1>3, Zenon DEF JobsFine, IdentityTypeOK, Stored
<1>5. \A e \in audit : e.user # None => e.user \in Ids /\ Stored(e.user)
  BY Zenon DEF IdentityTypeOK, NoDangling
<1>6. audit' = audit => AuditFine'
  BY <1>5, Zenon DEF AuditFine, IdentityTypeOK
<1> QED BY <1>2, <1>4, <1>6, Zenon

LEMMA AccountsStay ==
    ASSUME IdentityTypeOK, NoDangling, NEW r \in Requests,
           \A u \in Ids : Stored(u) => Stored(u)'
    PROVE  /\ keys' = keys => KeysFine'
           /\ jobs' = jobs => JobsFine'
           /\ audit' = audit => AuditFine'
           /\ CanRecord(r) /\ req[r].user \in Ids /\ audit' = Recorded(r) => AuditFine'
<1>1. \A e \in audit : e.user # None => e.user \in Ids /\ Stored(e.user)
  BY Zenon DEF IdentityTypeOK, NoDangling
<1>2. ASSUME CanRecord(r), req[r].user \in Ids, audit' = Recorded(r) PROVE AuditFine'
  <2>1. PICK u \in Ids : u = req[r].user /\ Stored(u)
    BY <1>2, Zenon DEF CanRecord
  <2>2. audit' = audit \cup {[of |-> r, user |-> u]}
    BY <1>2, <2>1, Zenon DEF Recorded
  <2>3. audit' \subseteq [of : Requests, user : Ids \cup {None}]
    BY <2>2 DEF IdentityTypeOK
  <2>4. \A e \in audit' : e.user # None => e.user \in Ids /\ Stored(e.user)
    BY <1>1, <2>1, <2>2
  <2> QED BY <2>3, <2>4, Zenon DEF AuditFine
<1> QED BY <1>2, RowsStay, Zenon

LEMMA QuietTables ==
    ASSUME IdentityTypeOK, NoDangling, OneAccount, NEW r \in Requests, UNCHANGED tables
    PROVE  TablesKept(r)
<1>1. users' = users /\ keys' = keys /\ jobs' = jobs /\ files' = files /\ audit' = audit
  BY Zenon DEF tables
<1>2. \A u \in Ids : Stored(u) => Stored(u)'
  BY <1>1, Zenon DEF Stored
<1>3. UsersFine'
  BY <1>1, Zenon DEF UsersFine, OneAccount, Stored, IdentityTypeOK
<1>4. KeysFine' /\ JobsFine' /\ AuditFine'
  BY <1>1, <1>2, AccountsStay, Zenon
<1> QED BY <1>1, <1>3, <1>4, QuietIsTame, Zenon DEF TablesKept, IdentityTypeOK

\* A row that changes, but not its subject.
LEMMA RowChanges ==
    ASSUME IdentityTypeOK, NoDangling, OneAccount, NEW r \in Requests,
           NEW u \in Ids, Stored(u), NEW x \in User, x.subject = users[u].subject,
           users' = [users EXCEPT ![u] = x], UNCHANGED <<keys, jobs, files>>,
           CanRecord(r), req[r].user \in Ids, audit' = Recorded(r)
    PROVE  TablesKept(r)
<1>1. \A v \in Ids : users'[v] = IF v = u THEN x ELSE users[v]
  BY Zenon DEF IdentityTypeOK
<1>2. users[u] # None /\ x \notin {None, Gone}
  BY RowsAssumption, Zenon DEF Stored
<1>3. \A v \in Ids : /\ Stored(v)' <=> Stored(v)
                     /\ Stored(v) => users'[v].subject = users[v].subject
  BY <1>1, <1>2, Zenon DEF Stored
<1>4. users' \in [Ids -> User \cup {None, Gone}]
  BY Zenon DEF IdentityTypeOK
<1>5. UsersFine'
  BY <1>3, <1>4, Zenon DEF UsersFine, OneAccount
<1>6. KeysFine' /\ JobsFine' /\ AuditFine'
  BY <1>3, AccountsStay, Zenon
<1>7. UsersTame(r)
  BY <1>1, <1>2, <1>3, Zenon DEF UsersTame
<1> QED BY <1>5, <1>6, <1>7, QuietIsTame, Zenon DEF TablesKept, Tame, IdentityTypeOK

\* Past authentication the caller is known.
LEMMA CallerIsKnown ==
    ASSUME IdentityTypeOK, RequestsOK, NEW r \in Requests, req[r].pc \in Working,
           req[r].op # "AuthWebhook"
    PROVE  req[r].user \in Ids /\ req[r].user # None
<1>1. req[r] \in Request /\ LocalOK(req[r])
  BY Zenon DEF IdentityTypeOK, RequestsOK
<1> QED BY <1>1, Zenon DEF LocalOK, Request

LEMMA SetStatusKeeps ==
    ASSUME IdentityTypeOK, RequestsOK, NoDangling, OneAccount, NEW r \in Requests, SetStatus(r)
    PROVE  GoesOn(r) /\ TablesKept(r)
<1>1. /\ req[r] \in Request /\ LocalOK(req[r]) /\ req[r].pc = "write"
      /\ req[r].op = "SetUserStatus" /\ End(r) /\ UNCHANGED <<keys, jobs, files>>
  BY Zenon DEF IdentityTypeOK, RequestsOK, SetStatus, At
<1>2. GoesOn(r)
  BY <1>1, EndsEarly, Zenon
<1>3. CASE Stored(req[r].target) /\ CanRecord(r)
  <2>1. PICK u \in Ids : u = req[r].target
    BY <1>1, Zenon DEF LocalOK, AdminOnly
  <2>2. users[u] \in User
    BY <1>3, <2>1, Zenon DEF IdentityTypeOK, Stored
  <2> DEFINE x == [users[u] EXCEPT !.status = req[r].value]
  <2>3. req[r].value \in {"active", "disabled"}
    BY <1>1, Zenon DEF LocalOK
  <2>4. x \in User /\ x.subject = users[u].subject
    BY <2>2, <2>3, Zenon DEF User
  <2>5. users' = [users EXCEPT ![u] = x] /\ audit' = Recorded(r)
    BY <1>3, <2>1, Zenon DEF SetStatus, IdentityTypeOK
  <2> HIDE DEF x
  <2>6. req[r].user \in Ids
    BY <1>1, CallerIsKnown, Zenon DEF Working
  <2> QED BY <1>1, <1>2, <1>3, <2>1, <2>4, <2>5, <2>6, RowChanges, Zenon
<1>4. CASE ~(Stored(req[r].target) /\ CanRecord(r))
  BY <1>1, <1>2, <1>4, QuietTables, Zenon DEF SetStatus, tables
<1> QED BY <1>3, <1>4, Zenon

LEMMA SetRoleKeeps ==
    ASSUME IdentityTypeOK, RequestsOK, NoDangling, OneAccount, NEW r \in Requests, SetRole(r)
    PROVE  GoesOn(r) /\ TablesKept(r)
<1>1. /\ req[r] \in Request /\ LocalOK(req[r]) /\ req[r].pc = "write"
      /\ req[r].op = "SetUserRole" /\ End(r) /\ UNCHANGED <<keys, jobs, files>>
  BY Zenon DEF IdentityTypeOK, RequestsOK, SetRole, At
<1>2. GoesOn(r)
  BY <1>1, EndsEarly, Zenon
<1>3. CASE Stored(req[r].target) /\ CanRecord(r)
  <2>1. PICK u \in Ids : u = req[r].target
    BY <1>1, Zenon DEF LocalOK, AdminOnly
  <2>2. users[u] \in User
    BY <1>3, <2>1 DEF IdentityTypeOK, Stored
  <2> DEFINE x == [users[u] EXCEPT !.role = req[r].value]
  <2>3. req[r].value \in Roles
    BY <1>1, Zenon DEF LocalOK
  <2>4. x \in User /\ x.subject = users[u].subject
    BY <2>2, <2>3, Zenon DEF User
  <2>5. users' = [users EXCEPT ![u] = x] /\ audit' = Recorded(r)
    BY <1>3, <2>1, Zenon DEF SetRole, IdentityTypeOK
  <2> HIDE DEF x
  <2>6. req[r].user \in Ids
    BY <1>1, CallerIsKnown, Zenon DEF Working
  <2> QED BY <1>1, <1>2, <1>3, <2>1, <2>4, <2>5, <2>6, RowChanges, Zenon
<1>4. CASE ~(Stored(req[r].target) /\ CanRecord(r))
  BY <1>1, <1>2, <1>4, QuietTables, Zenon DEF SetRole, tables
<1> QED BY <1>3, <1>4, Zenon

LEMMA UpdateProfileKeeps ==
    ASSUME IdentityTypeOK, RequestsOK, NoDangling, OneAccount, NEW r \in Requests, UpdateProfile(r)
    PROVE  GoesOn(r) /\ TablesKept(r)
<1>1. /\ req[r] \in Request /\ LocalOK(req[r]) /\ req[r].pc = "write"
      /\ req[r].op = "UpdateMe" /\ End(r) /\ UNCHANGED <<keys, jobs, files>>
  BY Zenon DEF IdentityTypeOK, RequestsOK, UpdateProfile, At
<1>2. GoesOn(r)
  BY <1>1, EndsEarly, Zenon
<1>3. CASE CanRecord(r)
  <2>1. PICK u \in Ids : u = req[r].user
    BY <1>1, CallerIsKnown, Zenon DEF Working
  <2>2. users[u] \in User /\ Stored(u)
    BY <1>3, <2>1, Zenon DEF IdentityTypeOK, Stored, CanRecord
  <2> DEFINE x == [users[u] EXCEPT !.profile = req[r].fields]
  <2>3. x \in User /\ x.subject = users[u].subject
    BY <1>1, <2>2, Zenon DEF User, Request
  <2>4. users' = [users EXCEPT ![u] = x] /\ audit' = Recorded(r)
    BY <1>3, <2>1, Zenon DEF UpdateProfile, IdentityTypeOK
  <2> HIDE DEF x
  <2> QED BY <1>1, <1>2, <1>3, <2>1, <2>2, <2>3, <2>4, RowChanges, Zenon
<1>4. CASE ~CanRecord(r)
  BY <1>1, <1>2, <1>4, QuietTables, Zenon DEF UpdateProfile, tables
<1> QED BY <1>3, <1>4, Zenon

\* A step that leaves the accounts as they are, and records an event or not.
LEMMA UsersStay ==
    ASSUME IdentityTypeOK, NoDangling, OneAccount, NEW r \in Requests, users' = users,
           \/ audit' = audit
           \/ CanRecord(r) /\ req[r].user \in Ids /\ audit' = Recorded(r)
    PROVE  /\ UsersFine' /\ AuditFine' /\ UsersTame(r)
           /\ keys' = keys => KeysFine' /\ KeysTame(r)
           /\ jobs' = jobs => JobsFine' /\ JobsTame(r)
<1>1. \A u \in Ids : Stored(u) => Stored(u)'
  BY Zenon DEF Stored
<1>2. UsersFine'
  BY Zenon DEF UsersFine, OneAccount, Stored, IdentityTypeOK
<1> QED BY <1>1, <1>2, AccountsStay, QuietIsTame, Zenon

LEMMA CreateKeyKeeps ==
    ASSUME IdentityTypeOK, RequestsOK, NoDangling, OneAccount, NEW r \in Requests, CreateKey(r)
    PROVE  GoesOn(r) /\ TablesKept(r)
<1>1. /\ req[r] \in Request /\ req[r].pc = "write" /\ req[r].op = "CreateAPIKey"
      /\ End(r) /\ UNCHANGED <<users, jobs, files>>
  BY Zenon DEF IdentityTypeOK, CreateKey, At
<1>2. GoesOn(r)
  BY <1>1, EndsEarly, Zenon
<1>3. CASE CanRecord(r)
  <2>1. PICK u \in Ids : u = req[r].user /\ Stored(u)
    BY <1>1, <1>3, CallerIsKnown, Zenon DEF Working, CanRecord
  <2> DEFINE x == [owner |-> u, revoked |-> FALSE]
  <2>2. keys' = [keys EXCEPT ![r] = x] /\ audit' = Recorded(r)
    BY <1>3, <2>1, Zenon DEF CreateKey
  <2>3. x \in Key /\ x.owner = u /\ x # None
    <3>1. x \in Key /\ x.owner = u
      BY Zenon DEF Key
    <3> QED BY <3>1, RowsAssumption, Zenon
  <2> HIDE DEF x
  <2>4. r \in Keys /\ keys[r] = None
    BY <1>1, NothingMade, Zenon DEF Keys
  <2>5. keys' \in [Keys -> Key \cup {None}] /\ keys'[r] = x /\ \A k \in Keys \ {r} : keys'[k] = keys[k]
    BY <2>2, <2>3, <2>4, Zenon DEF IdentityTypeOK
  <2>6. KeysFine'
    BY <1>1, <2>1, <2>3, <2>5, Zenon DEF KeysFine, NoDangling, Stored
  <2>7. KeysTame(r)
    BY <2>4, <2>5, Zenon DEF KeysTame
  <2>8. UsersFine' /\ AuditFine' /\ UsersTame(r) /\ JobsFine' /\ JobsTame(r)
    BY <1>1, <1>3, <2>1, <2>2, UsersStay, Zenon
  <2> QED BY <1>1, <1>2, <2>6, <2>7, <2>8, Zenon DEF TablesKept, Tame, IdentityTypeOK
<1>4. CASE ~CanRecord(r)
  BY <1>1, <1>2, <1>4, QuietTables, Zenon DEF CreateKey, tables
<1> QED BY <1>3, <1>4

LEMMA RevokeKeyKeeps ==
    ASSUME IdentityTypeOK, RequestsOK, NoDangling, OneAccount, NEW r \in Requests, RevokeKey(r)
    PROVE  GoesOn(r) /\ TablesKept(r)
<1>1. /\ req[r] \in Request /\ LocalOK(req[r]) /\ req[r].pc = "write"
      /\ req[r].op = "RevokeAPIKey" /\ End(r) /\ UNCHANGED <<users, jobs, files>>
  BY Zenon DEF IdentityTypeOK, RequestsOK, RevokeKey, At
<1>2. GoesOn(r)
  BY <1>1, EndsEarly, Zenon
<1>3. CASE Owns(r, req[r].target) /\ CanRecord(r)
  <2>1. PICK d \in Keys : d = req[r].target /\ keys[d] # None
    BY <1>1, <1>3, Zenon DEF LocalOK, Owns
  <2>2. keys[d] \in Key
    BY <2>1, Zenon DEF IdentityTypeOK
  <2> DEFINE x == [keys[d] EXCEPT !.revoked = TRUE]
  <2>3. keys' = [keys EXCEPT ![d] = x] /\ audit' = Recorded(r)
    BY <1>3, <2>1, Zenon DEF RevokeKey, IdentityTypeOK
  <2>4. x \in Key /\ x.owner = keys[d].owner
    BY <2>2, Zenon DEF Key
  <2> HIDE DEF x
  <2>5. x # None
    BY <2>4, RowsAssumption, Zenon
  <2>6. keys' \in [Keys -> Key \cup {None}] /\ keys'[d] = x /\ \A k \in Keys \ {d} : keys'[k] = keys[k]
    BY <2>3, <2>4, Zenon DEF IdentityTypeOK
  <2>7. KeysFine'
    BY <1>1, <2>1, <2>4, <2>6, Zenon DEF KeysFine, NoDangling, Stored
  <2>8. KeysTame(r)
    BY <2>1, <2>4, <2>5, <2>6, Zenon DEF KeysTame
  <2>9. req[r].user \in Ids
    BY <1>1, CallerIsKnown, Zenon DEF Working
  <2>10. UsersFine' /\ AuditFine' /\ UsersTame(r) /\ JobsFine' /\ JobsTame(r)
    BY <1>1, <1>3, <2>3, <2>9, UsersStay, Zenon
  <2> QED BY <1>1, <1>2, <2>7, <2>8, <2>10, Zenon DEF TablesKept, Tame, IdentityTypeOK
<1>4. CASE ~(Owns(r, req[r].target) /\ CanRecord(r))
  BY <1>1, <1>2, <1>4, QuietTables, Zenon DEF RevokeKey, tables
<1> QED BY <1>3, <1>4, Zenon

\* An event of nobody is recorded too.
LEMMA IngestKeeps ==
    ASSUME IdentityTypeOK, RequestsOK, NoDangling, OneAccount, NEW r \in Requests, Ingest(r)
    PROVE  GoesOn(r) /\ TablesKept(r)
<1>1. /\ req[r] \in Request /\ req[r].pc = "write" /\ req[r].op = "AuthWebhook"
      /\ End(r) /\ UNCHANGED <<users, keys, jobs, files>>
  BY Zenon DEF IdentityTypeOK, Ingest, At
<1>2. GoesOn(r)
  BY <1>1, EndsEarly, Zenon
<1>3. CASE req[r].user = None
  <2>1. audit' = audit \cup {[of |-> r, user |-> None]}
    BY <1>3, Zenon DEF Ingest, Recorded
  <2>2. AuditFine'
    BY <1>1, <2>1 DEF AuditFine, IdentityTypeOK, NoDangling, Stored
  <2>3. UsersFine' /\ KeysFine' /\ JobsFine'
    <3>1. \A u \in Ids : Stored(u) => Stored(u)'
      BY <1>1, Zenon DEF Stored
    <3>2. UsersFine'
      BY <1>1, Zenon DEF UsersFine, OneAccount, Stored, IdentityTypeOK
    <3> QED BY <1>1, <3>1, <3>2, AccountsStay, Zenon
  <2> QED BY <1>1, <1>2, <2>2, <2>3, QuietIsTame, Zenon DEF TablesKept, Tame, IdentityTypeOK
<1>4. CASE req[r].user # None
  <2>1. req[r].user \in Ids
    BY <1>1, <1>4, Zenon DEF Request
  <2>2. audit' = audit \/ (CanRecord(r) /\ audit' = Recorded(r))
    BY <1>4, Zenon DEF Ingest
  <2>3. /\ UsersFine' /\ AuditFine' /\ UsersTame(r) /\ JobsFine' /\ JobsTame(r)
        /\ KeysFine' /\ KeysTame(r)
    BY <1>1, <2>1, <2>2, UsersStay, Zenon
  <2> QED BY <1>1, <1>2, <2>3, Zenon DEF TablesKept, Tame, IdentityTypeOK
<1> QED BY <1>3, <1>4, Zenon

\* A job is entered for a stored account, by a stored account, and its request works on it.
LEMMA InsertJobKeeps ==
    ASSUME IdentityTypeOK, RequestsOK, NoDangling, OneAccount, NEW r \in Requests, Keeps(r),
           InsertJob(r)
    PROVE  GoesOn(r) /\ TablesKept(r)
<1>1. /\ req[r] \in Request /\ LocalOK(req[r]) /\ RowsOK(r) /\ req[r].pc = "write"
      /\ req[r].op \in {"RequestMyExport", "RequestUserExport"} /\ UNCHANGED <<users, keys, files>>
  BY Zenon DEF IdentityTypeOK, RequestsOK, InsertJob, At
<1>2. CASE Stored(req[r].target) /\ CanRecord(r) /\ ~InProgress(req[r].target)
  <2>1. PICK u \in Ids : u = req[r].target /\ Stored(u)
    BY <1>1, <1>2, Zenon DEF LocalOK, OnTarget, AdminOnly
  <2>2. PICK v \in Ids : v = req[r].user /\ Stored(v)
    BY <1>1, <1>2, CallerIsKnown, Zenon DEF Working, CanRecord
  <2> DEFINE x == [by |-> v, target |-> u, status |-> "pending"]
  <2>3. jobs' = [jobs EXCEPT ![r] = x] /\ audit' = Recorded(r) /\ Goto(r, "store")
    BY <1>2, <2>1, <2>2, Zenon DEF InsertJob
  <2>4. x \in Job /\ x.by = v /\ x.target = u /\ x.status = "pending"
    BY Zenon DEF Job
  <2> HIDE DEF x
  <2>5. /\ jobs' \in [Requests -> Job \cup {None}] /\ jobs'[r] = x
        /\ \A j \in Requests \ {r} : jobs'[j] = jobs[j]
    BY <2>3, <2>4, Zenon DEF IdentityTypeOK
  <2>6. JobsFine'
    <3>1. ASSUME NEW j \in Requests, jobs'[j] # None
          PROVE  /\ users'[jobs'[j].by] \notin {None, Gone}
                 /\ jobs'[j].target # None => users'[jobs'[j].target] \notin {None, Gone}
      <4>1. CASE j = r
        BY <1>1, <2>1, <2>2, <2>4, <2>5, <4>1, Zenon DEF Stored
      <4>2. CASE j # r
        BY <1>1, <2>5, <3>1, <4>2, Zenon DEF NoDangling, Stored
      <4> QED BY <4>1, <4>2, Zenon
    <3> QED BY <2>5, <3>1, Zenon DEF JobsFine, Stored
  <2>7. JobsTame(r)
    BY <2>5, Zenon DEF JobsTame
  <2>8. UsersFine' /\ AuditFine' /\ UsersTame(r) /\ KeysFine' /\ KeysTame(r)
    BY <1>1, <1>2, <2>2, <2>3, UsersStay, Zenon
  <2>9. TablesKept(r)
    BY <1>1, <2>6, <2>7, <2>8, Zenon DEF TablesKept, Tame, IdentityTypeOK
  <2>10. ASSUME NEW w, Same(w, req[r]), w.pc = "store", req'[r] = w
         PROVE  LocalOK(w) /\ RowsOK(r)'
    <3>1. LocalOK(w)
      BY <1>1, <2>10, Zenon DEF LocalOK, Same, Over, Working, OnTarget, AdminOnly
    <3>2. RowsOK(r)'
      BY <1>1, <2>4, <2>5, <2>10, Zenon DEF RowsOK, Newcomer
    <3> QED BY <3>1, <3>2, Zenon
  <2>11. "store" \in PCs /\ req[r].pc \notin Over
    BY <1>1, Zenon DEF PCs, Over
  <2> QED BY <2>3, <2>9, <2>10, <2>11, GotoKeeps, Zenon DEF TablesKept
<1>3. CASE ~(Stored(req[r].target) /\ CanRecord(r) /\ ~InProgress(req[r].target))
  <2>1. End(r) /\ UNCHANGED tables
    BY <1>1, <1>3, Zenon DEF InsertJob, tables
  <2> QED BY <1>1, <2>1, EndsEarly, QuietTables, Zenon DEF tables
<1> QED BY <1>2, <1>3, Zenon

LEMMA StoreExportKeeps ==
    ASSUME IdentityTypeOK, RequestsOK, NoDangling, OneAccount, NEW r \in Requests, Keeps(r),
           StoreExport(r)
    PROVE  GoesOn(r) /\ TablesKept(r)
<1>1. /\ req[r] \in Request /\ LocalOK(req[r]) /\ RowsOK(r) /\ req[r].pc = "store"
      /\ UNCHANGED <<users, keys, jobs, audit>>
  BY Zenon DEF IdentityTypeOK, RequestsOK, StoreExport
<1>2. PICK p \in {"complete", "fail"} :
          /\ Goto(r, p) /\ files \subseteq files' /\ files' \subseteq Requests
          /\ p = "complete" => r \in files'
  BY Zenon DEF StoreExport, IdentityTypeOK
<1>3. TablesKept(r)
  <2>1. /\ UsersFine' /\ AuditFine' /\ UsersTame(r) /\ JobsFine' /\ JobsTame(r)
        /\ KeysFine' /\ KeysTame(r)
    BY <1>1, UsersStay, Zenon
  <2> QED BY <1>2, <2>1, Zenon DEF TablesKept, Tame
<1>4. ASSUME NEW w, Same(w, req[r]), w.pc = p, req'[r] = w
      PROVE  LocalOK(w) /\ RowsOK(r)'
  <2>1. LocalOK(w)
    BY <1>1, <1>4, Zenon DEF LocalOK, Same, Over, Working
  <2>2. RowsOK(r)'
    BY <1>1, <1>2, <1>4, Zenon DEF RowsOK, Newcomer
  <2> QED BY <2>1, <2>2, Zenon
<1>5. p \in PCs /\ req[r].pc \notin Over
  BY <1>1, Zenon DEF PCs, Over
<1> QED BY <1>2, <1>3, <1>4, <1>5, GotoKeeps, Zenon DEF TablesKept

LEMMA JobIsSet ==
    ASSUME IdentityTypeOK, NoDangling, NEW r \in Requests, users' = users,
           NEW st \in {"completed", "failed"}, SetJob(r, st)
    PROVE  /\ JobsFine' /\ JobsTame(r)
           /\ jobs'[r] # None => jobs[r] # None /\ jobs'[r].status = st
<1>1. CASE jobs[r] = None
  <2>1. jobs' = jobs
    BY <1>1, Zenon DEF SetJob
  <2>2. \A u \in Ids : Stored(u) => Stored(u)'
    BY Zenon DEF Stored
  <2> QED BY <1>1, <2>1, <2>2, AccountsStay, QuietIsTame, Zenon
<1>2. CASE jobs[r] # None
  <2> DEFINE x == [jobs[r] EXCEPT !.status = st]
  <2>1. jobs[r] \in Job
    BY <1>2, Zenon DEF IdentityTypeOK
  <2>2. x \in Job /\ x.by = jobs[r].by /\ x.target = jobs[r].target /\ x.status = st
    BY <2>1, Zenon DEF Job
  <2>3. jobs' = [jobs EXCEPT ![r] = x]
    BY <1>2, Zenon DEF SetJob, IdentityTypeOK
  <2> HIDE DEF x
  <2>4. /\ jobs' \in [Requests -> Job \cup {None}] /\ jobs'[r] = x
        /\ \A j \in Requests \ {r} : jobs'[j] = jobs[j]
    BY <2>2, <2>3, Zenon DEF IdentityTypeOK
  <2>5. ASSUME NEW j \in Requests, jobs'[j] # None
        PROVE  /\ jobs[j] # None /\ jobs'[j].by = jobs[j].by /\ jobs'[j].target = jobs[j].target
    BY <1>2, <2>2, <2>4, <2>5, Zenon
  <2>6. JobsFine'
    BY <2>4, <2>5, Zenon DEF JobsFine, NoDangling, Stored
  <2>7. JobsTame(r)
    BY <2>4, Zenon DEF JobsTame
  <2> QED BY <1>2, <2>2, <2>4, <2>6, <2>7, Zenon
<1> QED BY <1>1, <1>2, Zenon

LEMMA CompleteKeeps ==
    ASSUME IdentityTypeOK, RequestsOK, NoDangling, OneAccount, NEW r \in Requests, Keeps(r),
           Complete(r)
    PROVE  GoesOn(r) /\ TablesKept(r)
<1>1. /\ req[r] \in Request /\ LocalOK(req[r]) /\ RowsOK(r) /\ req[r].pc = "complete"
      /\ UNCHANGED <<users, keys, files>>
  BY Zenon DEF IdentityTypeOK, RequestsOK, Complete
<1>2. CASE CanRecord(r) /\ SetJob(r, "completed") /\ audit' = Recorded(r) /\ End(r)
  <2>1. req[r].user \in Ids
    BY <1>1, CallerIsKnown, Zenon DEF Working, LocalOK
  <2>2. UsersFine' /\ AuditFine' /\ UsersTame(r) /\ KeysFine' /\ KeysTame(r)
    BY <1>1, <1>2, <2>1, UsersStay, Zenon
  <2>3. /\ JobsFine' /\ JobsTame(r)
        /\ jobs'[r] # None => jobs[r] # None /\ jobs'[r].status = "completed"
    BY <1>1, <1>2, JobIsSet, Zenon
  <2>4. r \in files'
    BY <1>1, Zenon DEF RowsOK
  <2>5. GoesOn(r)
    BY <1>2, <2>3, <2>4, Finishes, Zenon DEF End
  <2> QED BY <1>1, <2>2, <2>3, <2>5, Zenon DEF TablesKept, Tame, IdentityTypeOK
<1>3. CASE Goto(r, "fail") /\ UNCHANGED <<jobs, audit>>
  <2>1. UNCHANGED tables
    BY <1>1, <1>3, Zenon DEF tables
  <2>2. TablesKept(r)
    BY <2>1, QuietTables, Zenon
  <2>3. ASSUME NEW w, Same(w, req[r]), w.pc = "fail", req'[r] = w
        PROVE  LocalOK(w) /\ RowsOK(r)'
    <3>1. LocalOK(w)
      BY <1>1, <2>3, Zenon DEF LocalOK, Same, Over, Working
    <3>2. RowsOK(r)'
      BY <1>1, <1>3, <2>3, Zenon DEF RowsOK, Newcomer
    <3> QED BY <3>1, <3>2, Zenon
  <2>4. "fail" \in PCs /\ req[r].pc \notin Over
    BY <1>1, Zenon DEF PCs, Over
  <2> QED BY <1>3, <2>2, <2>3, <2>4, GotoKeeps, Zenon DEF TablesKept
<1> QED BY <1>2, <1>3, Zenon DEF Complete

LEMMA FailKeeps ==
    ASSUME IdentityTypeOK, RequestsOK, NoDangling, OneAccount, NEW r \in Requests, Fail(r)
    PROVE  GoesOn(r) /\ TablesKept(r)
<1>1. SetJob(r, "failed") /\ End(r) /\ UNCHANGED <<users, keys, files, audit>>
  BY Zenon DEF Fail
<1>2. UsersFine' /\ AuditFine' /\ UsersTame(r) /\ KeysFine' /\ KeysTame(r)
  BY <1>1, UsersStay, Zenon
<1>3. /\ JobsFine' /\ JobsTame(r)
      /\ jobs'[r] # None => jobs[r] # None /\ jobs'[r].status = "failed"
  BY <1>1, JobIsSet, Zenon
<1>4. GoesOn(r)
  BY <1>1, <1>3, Finishes, Zenon DEF End
<1> QED BY <1>1, <1>2, <1>3, <1>4, Zenon DEF TablesKept, Tame, IdentityTypeOK

\* A subject without an account gets one, which is the only one of its subject.
LEMMA InsertUserKeeps ==
    ASSUME IdentityTypeOK, RequestsOK, NoDangling, OneAccount, NEW r \in Requests,
           users[r] = None, NEW s \in Subjects, ~Clashes(s), InsertUser(r, s),
           UNCHANGED <<keys, jobs, files>>
    PROVE  TablesKept(r)
<1>1. PICK x \in User : x = NewUser(s) /\ x.subject = s /\ x \notin {None, Gone}
  <2>1. NewUser(s) \in User /\ NewUser(s).subject = s
    BY Zenon DEF NewUser, User, Roles
  <2> QED BY <2>1, RowsAssumption, Zenon
<1>2. r \in Ids /\ r # None
  BY IdentityAssumption, Zenon DEF Ids
<1>3. users' = [users EXCEPT ![r] = x] /\ audit' = audit \cup {[of |-> r, user |-> r]}
  BY <1>1, Zenon DEF InsertUser
<1>4. users' \in [Ids -> User \cup {None, Gone}] /\ users'[r] = x
      /\ \A u \in Ids \ {r} : users'[u] = users[u]
  BY <1>2, <1>3, Zenon DEF IdentityTypeOK
<1>5. \A u \in Ids : Stored(u) => Stored(u)' /\ u # r
  BY <1>1, <1>4, Zenon DEF Stored
<1>6. \A u \in Ids : Stored(u)' => u = r \/ (Stored(u) /\ users'[u] = users[u])
  BY <1>4, Zenon DEF Stored
<1>7. \A u \in Ids : Stored(u) => users[u].subject # s
  BY Zenon DEF Clashes
<1>8. UsersFine'
  BY <1>1, <1>4, <1>6, <1>7 DEF UsersFine, OneAccount
<1>9. KeysFine' /\ JobsFine'
  BY <1>5, AccountsStay, Zenon
<1>10. AuditFine'
  <2>1. audit' \subseteq [of : Requests, user : Ids \cup {None}]
    BY <1>2, <1>3 DEF IdentityTypeOK
  <2>2. Stored(r)'
    BY <1>1, <1>4, Zenon DEF Stored
  <2>3. \A e \in audit : e.user # None => e.user \in Ids /\ Stored(e.user)
    BY Zenon DEF IdentityTypeOK, NoDangling
  <2>4. \A e \in audit' : e.user # None => e.user \in Ids /\ Stored(e.user)'
    BY <1>2, <1>3, <1>5, <2>2, <2>3
  <2> QED BY <2>1, <2>4, Zenon DEF AuditFine
<1>11. UsersTame(r)
  BY <1>1, <1>4, <1>6, Zenon DEF UsersTame
<1> QED BY <1>8, <1>9, <1>10, <1>11, QuietIsTame, Zenon DEF TablesKept, Tame, IdentityTypeOK

LEMMA ProvisionKeeps ==
    ASSUME IdentityTypeOK, RequestsOK, NoDangling, OneAccount, NEW r \in Requests, Keeps(r),
           Provision(r)
    PROVE  GoesOn(r) /\ TablesKept(r)
<1>1. /\ req[r] \in Request /\ LocalOK(req[r]) /\ RowsOK(r) /\ TargetOK(r)
      /\ req[r].pc = "provision" /\ UNCHANGED <<keys, jobs, files>>
  BY Zenon DEF IdentityTypeOK, RequestsOK, Provision
<1>2. PICK s \in Subjects : s = req[r].cred /\ s \notin Keys /\ s # None
  BY <1>1, IdentityAssumption, RowsAssumption, Zenon DEF LocalOK, Keys
<1>3. CASE Clashes(s)
  <2>1. Goto(r, "reread") /\ UNCHANGED tables
    BY <1>1, <1>2, <1>3, Zenon DEF Provision, tables
  <2>2. TablesKept(r)
    BY <2>1, QuietTables, Zenon
  <2>3. ASSUME NEW w, Same(w, req[r]), w.pc = "reread", req'[r] = w
        PROVE  LocalOK(w) /\ RowsOK(r)'
    <3>1. LocalOK(w)
      BY <1>1, <2>3, Zenon DEF LocalOK, Same, Over, Working
    <3>2. RowsOK(r)'
      BY <1>1, <2>1, <2>3, Zenon DEF RowsOK, Newcomer, tables
    <3> QED BY <3>1, <3>2, Zenon
  <2>4. "reread" \in PCs /\ req[r].pc \notin Over
    BY <1>1, Zenon DEF PCs, Over
  <2> QED BY <2>1, <2>2, <2>3, <2>4, GotoKeeps, Zenon DEF TablesKept
<1>4. CASE ~Clashes(s)
  <2>1. InsertUser(r, s) /\ users[r] = None
    BY <1>1, <1>2, <1>4, Zenon DEF Provision, RowsOK, Newcomer
  <2>2. TablesKept(r)
    BY <1>1, <1>4, <2>1, InsertUserKeeps, Zenon
  <2> DEFINE w == [req[r] EXCEPT !.pc = "touch", !.user = r, !.role = "user"]
  <2>3. req' = [req EXCEPT ![r] = w]
    BY <1>2, <1>4, Zenon DEF Provision, IdentityTypeOK
  <2>4. "touch" \in PCs /\ r \in Ids /\ r # None /\ "user" \in Roles
    BY IdentityAssumption, Zenon DEF PCs, Ids, Roles
  <2>5. /\ w \in Request /\ w.pc = "touch" /\ w.op = req[r].op /\ w.target = req[r].target
        /\ w.cred = s /\ w.value = req[r].value /\ w.user = r
        /\ w.role = "user" /\ w.subject = req[r].subject
    BY <1>1, <1>2, <2>4, Zenon DEF Request
  <2> HIDE DEF w
  <2>6. req'[r] = w
    BY <2>3, Zenon DEF IdentityTypeOK
  <2>7. req[r].subject = None /\ req[r].op # "AuthWebhook"
    BY <1>1, Zenon DEF LocalOK, Working
  <2>8. LocalOK(w)
    BY <1>1, <1>2, <2>4, <2>5, <2>7, Zenon DEF LocalOK, Over, Working
  <2>9. RowsOK(r)'
    BY <1>1, <2>5, <2>6, Zenon DEF RowsOK, Newcomer
  <2>10. users'[r] = NewUser(s) /\ users'[r].subject = s /\ users'[r].role = "user"
         /\ users'[r].status = "active" /\ Stored(r)'
    <3>1. users'[r] = NewUser(s)
      BY <2>1, <2>4, Zenon DEF InsertUser, IdentityTypeOK
    <3>2. NewUser(s) \in User /\ NewUser(s).subject = s /\ NewUser(s).role = "user"
          /\ NewUser(s).status = "active"
      BY Zenon DEF NewUser, User, Roles
    <3> QED BY <3>1, <3>2, RowsAssumption, Zenon DEF Stored
  <2>11. "user" \in had'[r]
    <3>1. r \in AccountsOf(s)' /\ IsActive(r)'
      BY <2>4, <2>10, Zenon DEF AccountsOf, IsActive
    <3>2. "user" \in RightsOf(s)'
      BY <2>10, <3>1, Zenon DEF RightsOf
    <3> QED BY <2>5, <2>6, <3>2, Zenon DEF Keeps
  <2>12. AccountOK(r)'
    <3>1. req'[r].user = r /\ req'[r].role = "user" /\ req'[r].cred = s
      BY <2>5, <2>6, Zenon
    <3>2. users'[r] # None
      BY <2>10, Zenon DEF Stored
    <3> QED BY <1>2, <2>10, <2>11, <3>1, <3>2, Zenon DEF AccountOK
  <2>13. TargetOK(r)'
    BY <2>5, <2>6, <2>7, Zenon DEF TargetOK
  <2> QED BY <2>2, <2>3, <2>5, <2>8, <2>9, <2>12, <2>13, Zenon DEF GoesOn, Moves
<1> QED BY <1>3, <1>4, Zenon

\* The deletion of an account takes along, or makes forget, whatever names it.
LEMMA RemoveUserKeeps ==
    ASSUME IdentityTypeOK, NoDangling, OneAccount, NEW r \in Requests, NEW u \in Ids, Stored(u),
           CanRecord(r), req[r].user \in Ids, RemoveUser(r, u), files' = files
    PROVE  TablesKept(r)
<1>1. u # None /\ users[u] # None /\ None # Gone
  BY IdentityAssumption, RowsAssumption, Zenon DEF Ids, Stored
<1>2. /\ users' \in [Ids -> User \cup {None, Gone}] /\ users'[u] = Gone
      /\ \A v \in Ids \ {u} : users'[v] = users[v]
  BY Zenon DEF RemoveUser, IdentityTypeOK
<1>3. \A v \in Ids : Stored(v)' <=> Stored(v) /\ v # u
  BY <1>2, Zenon DEF Stored
<1>4. UsersFine'
  BY <1>2, <1>3, Zenon DEF UsersFine, OneAccount
<1>5. UsersTame(r)
  BY <1>1, <1>2, <1>3, Zenon DEF UsersTame
<1>6. \A k \in Keys : /\ keys'[k] = IF keys[k] # None /\ keys[k].owner = u THEN None ELSE keys[k]
                      /\ keys[k] # None => keys[k].owner \in Ids /\ Stored(keys[k].owner)
  BY Zenon DEF RemoveUser, IdentityTypeOK, NoDangling, Key
<1>7. KeysFine'
  <2>1. keys' \in [Keys -> Key \cup {None}]
    BY Zenon DEF RemoveUser, IdentityTypeOK
  <2> QED BY <1>2, <1>6, <2>1, Zenon DEF KeysFine, Stored
<1>8. KeysTame(r)
  BY <1>2, <1>6, Zenon DEF KeysTame
<1>9. ASSUME NEW j \in Requests, jobs'[j] # None
      PROVE  /\ jobs[j] # None /\ jobs'[j].status = jobs[j].status /\ jobs'[j] \in Job
             /\ users'[jobs'[j].by] \notin {None, Gone}
             /\ jobs'[j].target # None => users'[jobs'[j].target] \notin {None, Gone}
  <2>1. /\ jobs[j] # None /\ jobs[j].by # u
        /\ jobs'[j] = IF jobs[j].target = u THEN [jobs[j] EXCEPT !.target = None] ELSE jobs[j]
    BY <1>9, Zenon DEF RemoveUser
  <2>2. /\ jobs[j] \in Job /\ jobs[j].by \in Ids /\ Stored(jobs[j].by)
        /\ jobs[j].target # None => jobs[j].target \in Ids /\ Stored(jobs[j].target)
    BY <2>1, Zenon DEF IdentityTypeOK, NoDangling, Job
  <2>3. /\ jobs'[j] \in Job /\ jobs'[j].by = jobs[j].by /\ jobs'[j].status = jobs[j].status
        /\ jobs'[j].target = IF jobs[j].target = u THEN None ELSE jobs[j].target
    BY <2>1, <2>2, Zenon DEF Job
  <2> QED BY <1>2, <2>1, <2>2, <2>3, Zenon DEF Stored
<1>10. JobsFine'
  <2>1. jobs' \in [Requests -> Job \cup {None}]
    <3>1. \A j \in Requests : jobs'[j] \in Job \cup {None}
      BY <1>9, Zenon
    <3> QED BY <3>1, Zenon DEF RemoveUser
  <2> QED BY <1>9, <2>1, Zenon DEF JobsFine, Stored
<1>11. JobsTame(r)
  BY <1>9, Zenon DEF JobsTame
<1>12. AuditFine'
  <2>1. \A e \in Recorded(r) : /\ e \in [of : Requests, user : Ids \cup {None}]
                               /\ e.user # None => Stored(e.user)
    BY DEF Recorded, IdentityTypeOK, NoDangling, CanRecord
  <2>2. ASSUME NEW e \in audit'
        PROVE  e \in [of : Requests, user : Ids \cup {None}] /\ (e.user # None => Stored(e.user)')
    <3>1. PICK d \in Recorded(r) : e = [d EXCEPT !.user = IF d.user = u THEN None ELSE d.user]
      BY <2>2, Zenon DEF RemoveUser
    <3>2. /\ d \in [of : Requests, user : Ids \cup {None}]
          /\ d.user # None => Stored(d.user)
      BY <2>1, Zenon
    <3>3. e \in [of : Requests, user : Ids \cup {None}]
          /\ e.user = IF d.user = u THEN None ELSE d.user
      BY <3>1, <3>2, Zenon
    <3> QED BY <1>3, <3>2, <3>3, Zenon
  <2> QED BY <2>2, Zenon DEF AuditFine
<1> QED BY <1>4, <1>5, <1>7, <1>8, <1>10, <1>11, <1>12, Zenon DEF TablesKept, Tame, IdentityTypeOK

LEMMA DeleteKeeps ==
    ASSUME IdentityTypeOK, RequestsOK, NoDangling, OneAccount, NEW r \in Requests, Keeps(r),
           Delete(r)
    PROVE  GoesOn(r) /\ TablesKept(r)
<1>1. /\ req[r] \in Request /\ LocalOK(req[r]) /\ RowsOK(r) /\ req[r].pc = "write"
      /\ req[r].op \in {"DeleteMe", "DeleteUser"} /\ files' = files
  BY Zenon DEF IdentityTypeOK, RequestsOK, Delete, At
<1>2. CASE Stored(req[r].target) /\ CanRecord(r)
  <2>1. PICK u \in Ids : u = req[r].target
    BY <1>1, Zenon DEF LocalOK, OnTarget, AdminOnly
  <2>2. RemoveUser(r, u) /\ Goto(r, "purge") /\ Stored(u) /\ req[r].user \in Ids
    BY <1>1, <1>2, <2>1, CallerIsKnown, Zenon DEF Delete, Working
  <2>3. TablesKept(r)
    BY <1>1, <1>2, <2>2, RemoveUserKeeps, Zenon
  <2>4. keys[r] = None /\ jobs[r] = None
    BY <1>1, NothingMade, Zenon
  <2>5. keys'[r] = None /\ jobs'[r] = None
    BY <2>2, <2>4, Zenon DEF RemoveUser, Keys
  <2>6. ASSUME NEW w, Same(w, req[r]), w.pc = "purge", req'[r] = w
        PROVE  LocalOK(w) /\ RowsOK(r)'
    <3>1. LocalOK(w)
      BY <1>1, <2>6, Zenon DEF LocalOK, Same, Over, Working, OnTarget, AdminOnly
    <3>2. RowsOK(r)'
      BY <2>5, <2>6, Zenon DEF RowsOK, Newcomer
    <3> QED BY <3>1, <3>2, Zenon
  <2>7. "purge" \in PCs /\ req[r].pc \notin Over
    BY <1>1, Zenon DEF PCs, Over
  <2> QED BY <2>2, <2>3, <2>6, <2>7, GotoKeeps, Zenon DEF TablesKept
<1>3. CASE ~(Stored(req[r].target) /\ CanRecord(r))
  <2>1. End(r) /\ UNCHANGED tables
    BY <1>1, <1>3, Zenon DEF Delete, tables
  <2> QED BY <1>1, <2>1, EndsEarly, QuietTables, Zenon DEF tables
<1> QED BY <1>2, <1>3, Zenon

-----------------------------------------------------------------------------
(* Steps that write no table, and the start of the program.                *)

LEMMA SetBannedKeeps ==
    ASSUME IdentityTypeOK, RequestsOK, NEW r \in Requests, Keeps(r), SetBanned(r)
    PROVE  GoesOn(r)
<1>1. /\ req[r] \in Request /\ LocalOK(req[r]) /\ RowsOK(r) /\ req[r].pc = "ban"
      /\ Goto(r, "write") /\ UNCHANGED tables
  BY Zenon DEF IdentityTypeOK, RequestsOK, SetBanned
<1>2. ASSUME NEW w, Same(w, req[r]), w.pc = "write", req'[r] = w
      PROVE  LocalOK(w) /\ RowsOK(r)'
  <2>1. LocalOK(w)
    BY <1>1, <1>2, Zenon DEF LocalOK, Same, Over, Working, OnTarget, OnOthers
  <2>2. RowsOK(r)'
    BY <1>1, <1>2, Zenon DEF RowsOK, Newcomer, tables
  <2> QED BY <2>1, <2>2
<1>3. "write" \in PCs /\ req[r].pc \notin Over /\ Tame(r)
  BY <1>1, QuietIsTame, Zenon DEF PCs, Over
<1> QED BY <1>1, <1>2, <1>3, GotoKeeps, Zenon

\* A request that is cut off leaves its job, if any, to nobody.
LEMMA CutKeeps ==
    ASSUME IdentityTypeOK, RequestsOK, NEW r \in Requests, Cut(r)
    PROVE  GoesOn(r)
<1>1. PICK p \in {"done", "cut"} : p = IF jobs[r] = None THEN "done" ELSE "cut"
  BY Zenon
<1>2. req' = [req EXCEPT ![r] = Ended(p)] /\ jobs' = jobs /\ files' = files
  BY <1>1, Zenon DEF Cut, tables
<1>3. jobs[r] # None /\ jobs[r].status = "completed" => r \in files
  BY Zenon DEF RequestsOK, RowsOK
<1> QED BY <1>1, <1>2, <1>3, Finishes, Zenon

\* What a step of request r may write no table in.
Silent(r) ==
    \/ Begin(r) \/ Resolve(r) \/ Reread(r) \/ KeyLookup(r) \/ KeyUser(r) \/ Touch(r)
    \/ Lookup(r) \/ ReadProfile(r) \/ ResolveEvent(r)
    \/ SetBanned(r) \/ SetBannedFails(r) \/ DeleteUser(r) \/ Cut(r)

LEMMA SilentKeeps ==
    ASSUME IdentityTypeOK, RequestsOK, NoDangling, OneAccount, NEW r \in Requests, Keeps(r),
           Silent(r)
    PROVE  GoesOn(r) /\ TablesKept(r)
<1>1. UNCHANGED tables
  BY Zenon DEF Silent, Begin, Resolve, Reread, KeyLookup, KeyUser, Touch, Lookup, ReadProfile,
         ResolveEvent, SetBanned, SetBannedFails, DeleteUser, Cut
<1>2. TablesKept(r)
  BY <1>1, QuietTables, Zenon
<1>3. SetBannedFails(r) => GoesOn(r)
  BY <1>1, EndsEarly, Zenon DEF SetBannedFails, tables
<1>4. DeleteUser(r) => GoesOn(r)
  BY <1>1, EndsEarly, Zenon DEF DeleteUser, tables
<1> QED BY <1>2, <1>3, <1>4, BeginKeeps, ResolveKeeps, RereadKeeps, KeyLookupKeeps, KeyUserKeeps,
           TouchKeeps, LookupKeeps, ReadProfileKeeps, ResolveEventKeeps, SetBannedKeeps, CutKeeps
        DEF Silent

\* The bootstrap account is made, or its row changes but not its subject.
LEMMA SeedKeeps ==
    ASSUME IdentityTypeOK, NoDangling, OneAccount, SeedBootstrapAdmin
    PROVE  /\ UsersFine' /\ KeysFine' /\ JobsFine' /\ AuditFine' /\ Tame("seeded")
           /\ \A u \in Ids : users'[u] # users[u] =>
                 Stored(u)' /\ users'[u].subject = Bootstrap
<1>1. Bootstrap \in Subjects /\ UNCHANGED <<keys, jobs, files, audit>>
  BY IdentityAssumption, Zenon DEF SeedBootstrapAdmin
<1>2. users' = users \/ \E u \in Ids, x \in User :
          /\ users' = [users EXCEPT ![u] = x] /\ x.subject = Bootstrap
          /\ Stored(u) => users[u].subject = Bootstrap
          /\ ~Stored(u) => u = "seeded" /\ users[u] = None
                           /\ \A v \in Ids : Stored(v) => users[v].subject # Bootstrap
  <2>1. CASE AccountsOf(Bootstrap) # {}
    <3>1. PICK u \in Ids : Stored(u) /\ users[u].subject = Bootstrap
      BY <2>1, Zenon DEF AccountsOf
    <3>2. \A v \in Ids : v \in AccountsOf(Bootstrap) <=> v = u
      BY <3>1, Zenon DEF AccountsOf, OneAccount
    <3> DEFINE x == [users[u] EXCEPT !.role = "admin", !.status = "active"]
    <3>3. users[u] \in User
      BY <3>1, Zenon DEF IdentityTypeOK, Stored
    <3>4. x \in User /\ x.subject = Bootstrap
      BY <3>1, <3>3, Zenon DEF User, Roles
    <3>5. users' = [v \in Ids |-> IF v \in AccountsOf(Bootstrap)
                       THEN [users[v] EXCEPT !.role = "admin", !.status = "active"]
                       ELSE users[v]]
      BY <2>1, Zenon DEF SeedBootstrapAdmin
    <3>6. \A v \in Ids : users'[v] = IF v = u THEN x ELSE users[v]
      BY <3>2, <3>5, Zenon
    <3> HIDE DEF x
    <3>7. users' = [users EXCEPT ![u] = x]
      BY <3>5, <3>6, Zenon DEF IdentityTypeOK
    <3> QED BY <3>1, <3>4, <3>7, Zenon
  <2>2. CASE AccountsOf(Bootstrap) = {} /\ users' # users
    <3> DEFINE x == [NewUser(Bootstrap) EXCEPT !.role = "admin"]
    <3>1. users' = [users EXCEPT !["seeded"] = x] /\ users["seeded"] = None
      BY <2>2, Zenon DEF SeedBootstrapAdmin
    <3>2. x \in User /\ x.subject = Bootstrap
      BY <1>1, Zenon DEF NewUser, User, Roles
    <3> HIDE DEF x
    <3>3. "seeded" \in Ids /\ \A v \in Ids : Stored(v) => users[v].subject # Bootstrap
      BY <2>2, Zenon DEF AccountsOf, Ids
    <3>4. ~Stored("seeded")
      BY <3>1, Zenon DEF Stored
    <3> QED BY <3>1, <3>2, <3>3, <3>4, Zenon
  <2> QED BY <2>1, <2>2, Zenon
<1>3. CASE users' = users
  <2>1. \A u \in Ids : Stored(u) => Stored(u)'
    BY <1>3, Zenon DEF Stored
  <2>2. UsersFine'
    BY <1>3, Zenon DEF UsersFine, OneAccount, Stored, IdentityTypeOK
  <2>3. KeysFine' /\ JobsFine' /\ AuditFine'
    BY <1>1, <2>1, RowsStay, Zenon
  <2> QED BY <1>1, <1>3, <2>2, <2>3, QuietIsTame, Zenon DEF Tame
<1>4. CASE users' # users
  <2>1. PICK u \in Ids, x \in User :
          /\ users' = [users EXCEPT ![u] = x] /\ x.subject = Bootstrap
          /\ Stored(u) => users[u].subject = Bootstrap
          /\ ~Stored(u) => u = "seeded" /\ users[u] = None
                           /\ \A v \in Ids : Stored(v) => users[v].subject # Bootstrap
    BY <1>2, <1>4, Zenon
  <2>2. /\ users' \in [Ids -> User \cup {None, Gone}] /\ users'[u] = x
        /\ \A v \in Ids \ {u} : users'[v] = users[v]
    BY <2>1, Zenon DEF IdentityTypeOK
  <2>3. Stored(u)' /\ users[u] # Gone
    BY <2>1, <2>2, RowsAssumption, IdentityAssumption, Zenon DEF Stored
  <2>4. \A v \in Ids : (Stored(v) => Stored(v)') /\ (Stored(v)' => v = u \/ Stored(v))
    BY <2>2, <2>3, Zenon DEF Stored
  <2>5. \A v \in Ids \ {u} : Stored(v) => users[v].subject # Bootstrap
    BY <2>1, Zenon DEF OneAccount
  <2>6. UsersFine'
    BY <2>1, <2>2, <2>4, <2>5, Zenon DEF UsersFine, OneAccount
  <2>7. KeysFine' /\ JobsFine' /\ AuditFine'
    BY <1>1, <2>4, RowsStay, Zenon
  <2>8. UsersTame("seeded")
    BY <2>1, <2>2, <2>3, <2>4, IdentityAssumption, Zenon DEF UsersTame, Stored
  <2> QED BY <1>1, <2>1, <2>2, <2>3, <2>6, <2>7, <2>8, QuietIsTame, Zenon DEF Tame
<1> QED BY <1>3, <1>4, Zenon

-----------------------------------------------------------------------------
(* The auth provider.                                                      *)

\* A request that is between the auth provider and the table.
Transit(w) == w.pc = "purge" \/ (w.pc = "write" /\ w.op = "SetUserStatus")

\* The step of request r is not about subject s.
Elsewhere(r, s) == /\ Transit(req[r]) => req[r].subject # s
                   /\ Transit(req'[r]) => req'[r].subject # s

\* Whoever is between the two stays there.
LEMMA OthersInTransit ==
    ASSUME IdentityTypeOK, NEW r \in Requests, NEW w \in Request, NEW s,
           req' = [req EXCEPT ![r] = w], Elsewhere(r, s)
    PROVE  \A q \in Requests : /\ Writes(q, s)' <=> Writes(q, s)
                               /\ Purges(q, s)' <=> Purges(q, s)
                               /\ Writes(q, s) => BanState(q)' = BanState(q)
<1>1. ASSUME NEW q \in Requests, q # r
      PROVE  /\ Writes(q, s)' <=> Writes(q, s)
             /\ Purges(q, s)' <=> Purges(q, s)
             /\ BanState(q)' = BanState(q)
  <2>1. req'[q] = req[q]
    BY <1>1, Zenon DEF IdentityTypeOK
  <2> QED BY <2>1, Zenon DEF Writes, Purges, At, BanState
<1>2. ~Writes(r, s) /\ ~Writes(r, s)' /\ ~Purges(r, s) /\ ~Purges(r, s)'
  BY Zenon DEF Elsewhere, Transit, Writes, Purges, At
<1> QED BY <1>1, <1>2, Zenon

\* A subject that a step does not touch stays in step.
LEMMA SyncKept ==
    ASSUME NEW s \in Subjects, SyncOK(s),
           s \notin unsure' => s \notin unsure /\ idp'[s] = idp[s] /\ (Disabled(s)' <=> Disabled(s)),
           \A q \in Requests : /\ Writes(q, s)' <=> Writes(q, s)
                               /\ Purges(q, s)' <=> Purges(q, s)
                               /\ Writes(q, s) => BanState(q)' = BanState(q)
    PROVE  SyncOK(s)'
<1>1. CASE s \in unsure'
  BY <1>1, Zenon DEF SyncOK
<1>2. CASE s \notin unsure'
  <2>1. s \notin unsure /\ idp'[s] = idp[s] /\ (Disabled(s)' <=> Disabled(s))
    BY <1>2, Zenon
  <2>2. ASSUME idp[s] # "deleted", \A q \in Requests : ~Writes(q, s)' /\ ~Purges(q, s)'
        PROVE  idp[s] = "banned" <=> Disabled(s)
    BY <2>1, <2>2, Zenon DEF SyncOK
  <2>3. ASSUME idp[s] # "deleted", NEW q \in Requests, Writes(q, s)'
        PROVE  idp[s] = BanState(q)'
    BY <2>1, <2>3, Zenon DEF SyncOK
  <2> QED BY <2>1, <2>2, <2>3, Zenon DEF SyncOK
<1> QED BY <1>1, <1>2, Zenon

\* Nobody is disabled or enabled when rows keep their subject and status.
LEMMA SameDisabled ==
    ASSUME NEW s,
           \A u \in Ids : \/ users'[u] = users[u]
                          \/ /\ Stored(u) /\ Stored(u)' /\ users'[u].subject = users[u].subject
                             /\ users'[u].status = users[u].status
                          \/ (~Stored(u) /\ users'[u].status # "disabled")
                          \/ /\ Stored(u) => users[u].subject # s
                             /\ Stored(u)' => users'[u].subject # s
    PROVE  Disabled(s)' <=> Disabled(s)
<1>1. ASSUME NEW u \in Ids
      PROVE  (Stored(u)' /\ users'[u].subject = s /\ users'[u].status = "disabled")
             <=> (Stored(u) /\ users[u].subject = s /\ users[u].status = "disabled")
  BY Zenon DEF Stored
<1> QED BY <1>1, Zenon DEF Disabled

\* Where the steps lead.
LEMMA Arrivals ==
    ASSUME IdentityTypeOK, NEW r \in Requests
    PROVE  /\ End(r) => req'[r].pc = "done"
           /\ \A p : Goto(r, p) => req'[r].pc = p
           /\ \A u : Admit(r, u) => req'[r].pc \in {"touch", "done"}
<1>1. req[r] \in Request /\ DOMAIN req = Requests
  BY Zenon DEF IdentityTypeOK
<1>2. End(r) => req'[r].pc = "done"
  BY <1>1 DEF End, Ended, NoRequest, IdentityTypeOK
<1>3. \A p : Goto(r, p) => req'[r].pc = p
  BY <1>1 DEF Goto, Request, IdentityTypeOK
<1>4. ASSUME NEW u, Admit(r, u) PROVE req'[r].pc \in {"touch", "done"}
  <2>1. CASE IsActive(u)
    BY <1>1, <1>4, <2>1 DEF Admit, Request, IdentityTypeOK
  <2>2. CASE ~IsActive(u)
    BY <1>2, <1>4, <2>2, Zenon DEF Admit
  <2> QED BY <2>1, <2>2, Zenon
<1> QED BY <1>2, <1>3, <1>4, Zenon

\* The steps that neither enter nor leave the way between the auth provider and the table.
Calm(r) ==
    \/ Begin(r) \/ Authenticate(r) \/ Lookup(r) \/ SetBannedFails(r) \/ SetRole(r)
    \/ SelfServe(r) \/ Export(r)

LEMMA CalmStaysOff ==
    ASSUME IdentityTypeOK, RequestsOK, NEW r \in Requests, Calm(r)
    PROVE  ~Transit(req[r]) /\ ~Transit(req'[r])
<1> USE DEF Transit
<1>1. req[r] \in Request /\ LocalOK(req[r])
  BY Zenon DEF IdentityTypeOK, RequestsOK
<1>2. CASE Begin(r)
  <2>1. PICK c \in Calls : req' = [req EXCEPT ![r] = c]
    BY <1>2, Zenon DEF Begin
  <2>2. req'[r] = c /\ c.pc \in {"ingest", "key", "resolve"}
    BY <2>1, CallsAreAsked, Zenon DEF Asked, IdentityTypeOK
  <2> QED BY <1>2, <2>2, Zenon DEF Begin
<1>3. CASE Resolve(r)
  BY <1>3, Arrivals, Zenon DEF Resolve
<1>4. CASE Provision(r)
  <2>1. CASE Clashes(req[r].cred)
    BY <1>4, <2>1, Arrivals, Zenon DEF Provision
  <2>2. CASE ~Clashes(req[r].cred)
    <3>1. req' = [req EXCEPT ![r].pc = "touch", ![r].user = r, ![r].role = "user"]
      BY <1>4, <2>2, Zenon DEF Provision
    <3>2. req'[r].pc = "touch"
      BY <1>1, <3>1, Zenon DEF Request, IdentityTypeOK
    <3> QED BY <1>4, <3>2, Zenon DEF Provision
  <2> QED BY <2>1, <2>2, Zenon
<1>5. CASE Reread(r)
  BY <1>5, Arrivals, Zenon DEF Reread
<1>6. CASE KeyLookup(r)
  <2>1. CASE End(r)
    BY <1>6, <2>1, Arrivals, Zenon DEF KeyLookup
  <2>2. CASE ~End(r)
    <3>1. req' = [req EXCEPT ![r].pc = "keyUser", ![r].user = keys[req[r].cred].owner]
      BY <1>6, <2>2, Zenon DEF KeyLookup
    <3>2. req'[r].pc = "keyUser"
      BY <1>1, <3>1, Zenon DEF Request, IdentityTypeOK
    <3> QED BY <1>6, <3>2, Zenon DEF KeyLookup
  <2> QED BY <2>1, <2>2, Zenon
<1>7. CASE KeyUser(r)
  BY <1>7, Arrivals, Zenon DEF KeyUser
<1>8. CASE Touch(r)
  <2>1. CASE End(r)
    BY <1>8, <2>1, Arrivals, Zenon DEF Touch
  <2>2. CASE ~End(r)
    <3>1. PICK t : req' = [req EXCEPT ![r].pc = FirstStep(req[r].op), ![r].target = t]
      BY <1>8, <2>2, Zenon DEF Touch
    <3>2. req'[r].pc = FirstStep(req[r].op) /\ req'[r].op = req[r].op
      BY <1>1, <3>1, Zenon DEF Request, IdentityTypeOK
    <3> QED BY <1>8, <3>2, Zenon DEF Touch, FirstStep
  <2> QED BY <2>1, <2>2, Zenon
<1>9. CASE Lookup(r)
  <2>1. CASE End(r)
    BY <1>9, <2>1, Arrivals, Zenon DEF Lookup
  <2>2. CASE ~End(r)
    <3>1. PICK p, t : /\ req' = [req EXCEPT ![r].subject = t, ![r].pc = p]
                      /\ p = IF req[r].op = "SetUserStatus" THEN "ban" ELSE "write"
      BY <1>9, <2>2, Zenon DEF Lookup
    <3>2. req'[r].pc = p /\ req'[r].op = req[r].op
      BY <1>1, <3>1, Zenon DEF Request, IdentityTypeOK
    <3> QED BY <1>9, <3>1, <3>2 DEF Lookup
  <2> QED BY <2>1, <2>2, Zenon
<1>10. CASE SetBannedFails(r)
  BY <1>10, Arrivals, Zenon DEF SetBannedFails
<1>11. CASE SetRole(r)
  BY <1>11, Arrivals, Zenon DEF SetRole, At
<1>12. CASE ReadProfile(r)
  <2>1. CASE End(r)
    BY <1>12, <2>1, Arrivals, Zenon DEF ReadProfile
  <2>2. CASE ~End(r)
    <3>1. PICK f : req' = [req EXCEPT ![r].fields = f, ![r].pc = "write"]
      BY <1>12, <2>2, Zenon DEF ReadProfile
    <3>2. req'[r].pc = "write" /\ req'[r].op = req[r].op
      BY <1>1, <3>1, Zenon DEF Request, IdentityTypeOK
    <3> QED BY <1>1, <1>12, <3>2, Zenon DEF ReadProfile, LocalOK
  <2> QED BY <2>1, <2>2, Zenon
<1>13. CASE UpdateProfile(r) \/ CreateKey(r) \/ RevokeKey(r) \/ Ingest(r)
  BY <1>13, Arrivals, Zenon DEF UpdateProfile, CreateKey, RevokeKey, Ingest, At
<1>14. CASE ResolveEvent(r)
  <2>1. PICK u : req' = [req EXCEPT ![r].pc = "write", ![r].user = u]
    BY <1>14, Zenon DEF ResolveEvent
  <2>2. req'[r].pc = "write" /\ req'[r].op = req[r].op
    BY <1>1, <2>1, Zenon DEF Request, IdentityTypeOK
  <2> QED BY <1>1, <1>14, <2>2, Zenon DEF ResolveEvent, LocalOK
<1>15. CASE Export(r)
  BY <1>15, Arrivals, Zenon DEF Export, InsertJob, StoreExport, Complete, Fail, At
<1> QED BY <1>2, <1>3, <1>4, <1>5, <1>6, <1>7, <1>8, <1>9, <1>10, <1>11, <1>12, <1>13, <1>14, <1>15, Zenon
        DEF Calm, Authenticate, SelfServe

\* Calm steps disable and enable nobody.
LEMMA CalmSync ==
    ASSUME IdentityTypeOK, RequestsOK, InStep, NEW r \in Requests, Calm(r), GoesOn(r)
    PROVE  InStep'
<1>1. SUFFICES ASSUME NEW s \in Subjects PROVE SyncOK(s)'
  BY Zenon DEF InStep
<1>2. PICK w \in Request : req' = [req EXCEPT ![r] = w]
  BY Zenon DEF GoesOn, Moves
<1>3. \A q \in Requests : /\ Writes(q, s)' <=> Writes(q, s)
                          /\ Purges(q, s)' <=> Purges(q, s)
                          /\ Writes(q, s) => BanState(q)' = BanState(q)
  BY <1>2, CalmStaysOff, OthersInTransit, Zenon DEF Elsewhere
<1>4. s \notin unsure' => s \notin unsure /\ idp'[s] = idp[s]
  <2>1. CASE SetBannedFails(r)
    BY <2>1, Zenon DEF SetBannedFails, IdentityTypeOK
  <2>2. CASE ~SetBannedFails(r)
    <3>1. idp' = idp /\ unsure' = unsure
      BY <2>2, Zenon DEF Calm, Begin, Authenticate, Resolve, Provision, Reread, KeyLookup, KeyUser, Touch,
             Lookup, SetRole, SelfServe, ReadProfile, UpdateProfile, CreateKey, RevokeKey,
             ResolveEvent, Ingest, Export, InsertJob, StoreExport, Complete, Fail
    <3> QED BY <3>1, Zenon
  <2> QED BY <2>1, <2>2, Zenon
<1>5. Disabled(s)' <=> Disabled(s)
  <2>1. CASE users' = users
    BY <2>1, SameDisabled, Zenon
  <2>2. CASE Provision(r) /\ users' # users
    <3>1. InsertUser(r, req[r].cred) /\ users[r] = None
      BY <2>2, Zenon DEF Provision, RequestsOK, RowsOK, Newcomer
    <3>2. users'[r].status # "disabled" /\ \A u \in Ids \ {r} : users'[u] = users[u]
      BY <3>1, Zenon DEF InsertUser, NewUser, IdentityTypeOK, Ids
    <3>3. ~Stored(r)
      BY <3>1, Zenon DEF Stored
    <3> QED BY <3>2, <3>3, SameDisabled, Zenon
  <2>3. CASE SetRole(r) /\ users' # users
    <3>1. PICK u : u = req[r].target /\ Stored(u)
                   /\ users' = [users EXCEPT ![u].role = req[r].value]
                   /\ req[r].value \in Roles
      BY <2>3, Zenon DEF SetRole, At, RequestsOK, LocalOK
    <3>2. \A v \in Ids : users'[v] = users[v] \/
             (/\ v = u /\ users'[v].subject = users[v].subject /\ users'[v].status = users[v].status
              /\ users'[v] \in User)
      BY <3>1 DEF IdentityTypeOK, Stored, User
    <3>3. \A v \in Ids : users'[v] \in User => Stored(v)'
      BY RowsAssumption, Zenon DEF Stored
    <3> QED BY <3>1, <3>2, <3>3, SameDisabled, Zenon
  <2>4. CASE UpdateProfile(r) /\ users' # users
    <3>1. PICK u : u = req[r].user /\ Stored(u)
                   /\ users' = [users EXCEPT ![u].profile = req[r].fields]
      BY <2>4, Zenon DEF UpdateProfile, CanRecord
    <3>2. \A v \in Ids : users'[v] = users[v] \/
             (/\ v = u /\ users'[v].subject = users[v].subject /\ users'[v].status = users[v].status
              /\ users'[v] \in User)
      BY <3>1 DEF IdentityTypeOK, Stored, User, Request
    <3>3. \A v \in Ids : users'[v] \in User => Stored(v)'
      BY RowsAssumption, Zenon DEF Stored
    <3> QED BY <3>1, <3>2, <3>3, SameDisabled, Zenon
  <2> QED BY <2>1, <2>2, <2>3, <2>4, Zenon
      DEF Calm, Begin, Authenticate, Resolve, Reread, KeyLookup, KeyUser, Touch, Lookup,
          SetBannedFails, SelfServe, ReadProfile, CreateKey, RevokeKey, ResolveEvent, Ingest,
          Export, InsertJob, StoreExport, Complete, Fail, tables
<1> QED BY <1>3, <1>4, <1>5, SyncKept, Zenon DEF InStep

\* The auth provider follows the request, unless another one is on the same way.
LEMMA SetBannedSync ==
    ASSUME IdentityTypeOK, RequestsOK, InStep, NEW r \in Requests, SetBanned(r), GoesOn(r)
    PROVE  InStep'
<1>1. SUFFICES ASSUME NEW s \in Subjects PROVE SyncOK(s)'
  BY Zenon DEF InStep
<1>2. PICK w \in Request : req' = [req EXCEPT ![r] = w]
  BY Zenon DEF GoesOn, Moves
<1>3. /\ req[r] \in Request /\ LocalOK(req[r]) /\ req[r].pc = "ban" /\ Goto(r, "write")
      /\ users' = users
  BY Zenon DEF IdentityTypeOK, RequestsOK, SetBanned, tables
<1>4. /\ req'[r].pc = "write" /\ req'[r].op = "SetUserStatus"
      /\ req'[r].subject = req[r].subject /\ req'[r].value = req[r].value
  BY <1>3, Zenon DEF Goto, IdentityTypeOK, Request, LocalOK
<1>5. PICK t \in Subjects : t = req[r].subject
  BY <1>3, Zenon DEF LocalOK, Request
<1>6. CASE s # t
  <2>1. Elsewhere(r, s)
    BY <1>3, <1>4, <1>5, <1>6, Zenon DEF Elsewhere, Transit
  <2>2. s \notin unsure' => s \notin unsure /\ idp'[s] = idp[s]
    BY <1>5, <1>6, Zenon DEF SetBanned, IdentityTypeOK
  <2>3. Disabled(s)' <=> Disabled(s)
    BY <1>3, SameDisabled, Zenon
  <2> QED BY <1>2, <2>1, <2>2, <2>3, OthersInTransit, SyncKept, Zenon DEF InStep
<1>7. CASE s = t /\ Overlaps(r)
  BY <1>5, <1>7, Zenon DEF SetBanned, SyncOK
<1>8. CASE s = t /\ ~Overlaps(r)
  <2>1. Writes(r, s)' /\ BanState(r)' = BanState(r)
    BY <1>4, <1>5, <1>8, Zenon DEF Writes, At, BanState
  <2>2. idp'[s] = BanState(r)
    BY <1>5, <1>8, Zenon DEF SetBanned, IdentityTypeOK
  <2>3. ASSUME NEW q \in Requests, Writes(q, s)' PROVE q = r
    <3>1. SUFFICES ASSUME q # r PROVE FALSE
      BY Zenon
    <3>2. req'[q] = req[q]
      BY <1>2, <3>1, Zenon DEF IdentityTypeOK
    <3>3. Writes(q, s)
      BY <2>3, <3>2, Zenon DEF Writes, At
    <3> QED BY <1>5, <1>8, <3>1, <3>3, Zenon DEF Overlaps, Writes
  <2> QED BY <2>1, <2>2, <2>3, Zenon DEF SyncOK
<1> QED BY <1>6, <1>7, <1>8, Zenon

\* A disabled account's rows follow the auth provider, or the change is not clean.
LEMMA SetStatusSync ==
    ASSUME IdentityTypeOK, RequestsOK, OneAccount, InStep, NEW r \in Requests, SetStatus(r),
           GoesOn(r)
    PROVE  InStep'
<1>1. SUFFICES ASSUME NEW s \in Subjects PROVE SyncOK(s)'
  BY Zenon DEF InStep
<1>2. PICK w \in Request : req' = [req EXCEPT ![r] = w]
  BY Zenon DEF GoesOn, Moves
<1>3. /\ req[r] \in Request /\ LocalOK(req[r]) /\ req[r].pc = "write"
      /\ req[r].op = "SetUserStatus" /\ TargetOK(r) /\ End(r) /\ idp' = idp
  BY Zenon DEF IdentityTypeOK, RequestsOK, SetStatus, At
<1>4. ~Transit(req'[r])
  BY <1>3, Arrivals, Zenon DEF Transit
<1>5. PICK t \in Subjects : t = req[r].subject /\ t # None
  BY <1>3, IdentityAssumption, Zenon DEF LocalOK, Request, OnTarget, AdminOnly
<1>6. CASE ~(Stored(req[r].target) /\ CanRecord(r))
  <2>1. unsure' = unsure \cup {t} /\ users' = users
    BY <1>5, <1>6, Zenon DEF SetStatus
  <2>2. CASE s = t
    BY <2>1, <2>2, Zenon DEF SyncOK
  <2>3. CASE s # t
    <3>1. Elsewhere(r, s)
      BY <1>4, <1>5, <2>3, Zenon DEF Elsewhere
    <3>2. Disabled(s)' <=> Disabled(s)
      BY <2>1, SameDisabled, Zenon
    <3> QED BY <1>2, <1>3, <2>1, <3>1, <3>2, OthersInTransit, SyncKept, Zenon DEF InStep
  <2> QED BY <2>2, <2>3, Zenon
<1>7. CASE Stored(req[r].target) /\ CanRecord(r)
  <2>1. PICK u \in Ids : u = req[r].target /\ Stored(u) /\ users[u].subject = t
    BY <1>3, <1>5, <1>7, Zenon DEF LocalOK, AdminOnly, TargetOK
  <2>2. users[u] \in User /\ req[r].value \in {"active", "disabled"}
    BY <1>3, <2>1, Zenon DEF IdentityTypeOK, Stored, LocalOK
  <2>3. users' = [users EXCEPT ![u].status = req[r].value] /\ unsure' = unsure
    BY <1>7, <2>1, Zenon DEF SetStatus
  <2>4. /\ users'[u] \in User /\ users'[u].subject = t /\ users'[u].status = req[r].value
        /\ \A v \in Ids \ {u} : users'[v] = users[v]
    BY <2>1, <2>2, <2>3, Zenon DEF IdentityTypeOK, User
  <2>5. Stored(u)'
    BY <2>4, RowsAssumption, Zenon DEF Stored
  <2>6. CASE s # t
    <3>1. Elsewhere(r, s)
      BY <1>4, <1>5, <2>6, Zenon DEF Elsewhere
    <3>2. Disabled(s)' <=> Disabled(s)
      BY <2>1, <2>4, <2>6, SameDisabled, Zenon
    <3> QED BY <1>2, <1>3, <2>3, <3>1, <3>2, OthersInTransit, SyncKept, Zenon DEF InStep
  <2>7. CASE s = t
    <3>1. ASSUME NEW q \in Requests, q # r
          PROVE  /\ Writes(q, s)' <=> Writes(q, s)
                 /\ Purges(q, s)' <=> Purges(q, s)
                 /\ BanState(q)' = BanState(q)
      <4>1. req'[q] = req[q]
        BY <1>2, <3>1, Zenon DEF IdentityTypeOK
      <4> QED BY <4>1, Zenon DEF Writes, Purges, At, BanState
    <3>2. Writes(r, s) /\ ~Writes(r, s)'
      BY <1>3, <1>4, <1>5, <2>7, Zenon DEF Writes, At, Transit
    <3>3. Disabled(s)' <=> req[r].value = "disabled"
      <4>1. \A v \in Ids \ {u} : Stored(v)' => users'[v].subject # s
        BY <2>1, <2>4, <2>7, Zenon DEF OneAccount, Stored
      <4> QED BY <2>4, <2>5, <2>7, <4>1, Zenon DEF Disabled
    <3>4. ASSUME s \notin unsure', idp'[s] # "deleted"
          PROVE  /\ idp'[s] = "banned" <=> Disabled(s)'
                 /\ \A q \in Requests : Writes(q, s)' => idp'[s] = BanState(q)'
      <4>1. /\ idp[s] = BanState(r) /\ idp' = idp
            /\ \A q \in Requests : Writes(q, s) => idp[s] = BanState(q)
        BY <1>3, <2>3, <3>2, <3>4, Zenon DEF InStep, SyncOK
      <4>2. idp[s] = "banned" <=> req[r].value = "disabled"
        BY <4>1, Zenon DEF BanState
      <4> QED BY <3>1, <3>2, <3>3, <4>1, <4>2, Zenon
    <3> QED BY <3>4, Zenon DEF SyncOK
  <2> QED BY <2>6, <2>7, Zenon
<1> QED BY <1>6, <1>7, Zenon

\* While an account that is gone is not purged, nothing is said of its subject.
LEMMA DeleteSync ==
    ASSUME IdentityTypeOK, RequestsOK, OneAccount, InStep, NEW r \in Requests, Delete(r),
           GoesOn(r)
    PROVE  InStep'
<1>1. SUFFICES ASSUME NEW s \in Subjects PROVE SyncOK(s)'
  BY Zenon DEF InStep
<1>2. PICK w \in Request : req' = [req EXCEPT ![r] = w]
  BY Zenon DEF GoesOn, Moves
<1>3. /\ req[r] \in Request /\ LocalOK(req[r]) /\ req[r].pc = "write"
      /\ req[r].op \in {"DeleteMe", "DeleteUser"} /\ TargetOK(r)
      /\ idp' = idp /\ unsure' = unsure
  BY Zenon DEF IdentityTypeOK, RequestsOK, Delete, At
<1>4. ~Transit(req[r])
  BY <1>3, Zenon DEF Transit
<1>5. CASE ~(Stored(req[r].target) /\ CanRecord(r))
  <2>1. End(r) /\ users' = users
    BY <1>5, Zenon DEF Delete
  <2>2. Elsewhere(r, s)
    BY <1>4, <2>1, Arrivals, Zenon DEF Elsewhere, Transit
  <2>3. Disabled(s)' <=> Disabled(s)
    BY <2>1, SameDisabled, Zenon
  <2> QED BY <1>2, <1>3, <2>2, <2>3, OthersInTransit, SyncKept, Zenon DEF InStep
<1>6. CASE Stored(req[r].target) /\ CanRecord(r)
  <2>1. PICK t \in Subjects : t = req[r].subject /\ t # None
    BY <1>3, IdentityAssumption, Zenon DEF LocalOK, Request, OnTarget, AdminOnly
  <2>2. PICK u \in Ids : u = req[r].target /\ Stored(u) /\ users[u].subject = t
    BY <1>3, <1>6, <2>1, Zenon DEF LocalOK, TargetOK
  <2>3. users' = [users EXCEPT ![u] = Gone] /\ Goto(r, "purge")
    BY <1>6, <2>2, Zenon DEF Delete, RemoveUser
  <2>4. req'[r].pc = "purge" /\ req'[r].subject = t
    BY <1>3, <2>1, <2>3, Zenon DEF Goto, IdentityTypeOK, Request
  <2>5. ~Stored(u)' /\ \A v \in Ids \ {u} : users'[v] = users[v]
    BY <2>3, Zenon DEF IdentityTypeOK, Stored
  <2>6. CASE s # t
    <3>1. Elsewhere(r, s)
      BY <1>4, <2>4, <2>6, Zenon DEF Elsewhere
    <3>2. Disabled(s)' <=> Disabled(s)
      BY <2>2, <2>5, <2>6, SameDisabled, Zenon
    <3> QED BY <1>2, <1>3, <3>1, <3>2, OthersInTransit, SyncKept, Zenon DEF InStep
  <2>7. CASE s = t
    <3>1. Purges(r, s)' /\ ~Writes(r, s)'
      BY <2>4, <2>7, Zenon DEF Purges, Writes, At
    <3>2. ASSUME NEW q \in Requests, q # r
          PROVE  (Writes(q, s)' <=> Writes(q, s)) /\ BanState(q)' = BanState(q)
      <4>1. req'[q] = req[q]
        BY <1>2, <3>2, Zenon DEF IdentityTypeOK
      <4> QED BY <4>1, Zenon DEF Writes, At, BanState
    <3> QED BY <1>3, <3>1, <3>2, Zenon DEF SyncOK, InStep
  <2> QED BY <2>6, <2>7, Zenon
<1> QED BY <1>5, <1>6, Zenon

\* The auth provider drops the account, or is not known to have.
LEMMA DeleteUserSync ==
    ASSUME IdentityTypeOK, RequestsOK, InStep, NEW r \in Requests, DeleteUser(r), GoesOn(r)
    PROVE  InStep'
<1>1. SUFFICES ASSUME NEW s \in Subjects PROVE SyncOK(s)'
  BY Zenon DEF InStep
<1>2. PICK w \in Request : req' = [req EXCEPT ![r] = w]
  BY Zenon DEF GoesOn, Moves
<1>3. ~Transit(req'[r]) /\ users' = users
  BY Arrivals, Zenon DEF DeleteUser, Transit, tables
<1>4. Disabled(s)' <=> Disabled(s)
  BY <1>3, SameDisabled, Zenon
<1>5. CASE s = req[r].subject
  BY <1>5, Zenon DEF DeleteUser, SyncOK, IdentityTypeOK
<1>6. CASE s # req[r].subject
  <2>1. Elsewhere(r, s)
    BY <1>3, <1>6, Zenon DEF Elsewhere
  <2>2. s \notin unsure' => s \notin unsure /\ idp'[s] = idp[s]
    BY <1>6, Zenon DEF DeleteUser, IdentityTypeOK
  <2> QED BY <1>2, <1>4, <2>1, <2>2, OthersInTransit, SyncKept, Zenon DEF InStep
<1> QED BY <1>5, <1>6, Zenon

\* A request that is cut off between the two leaves its subject unsure.
LEMMA CutSync ==
    ASSUME IdentityTypeOK, RequestsOK, InStep, NEW r \in Requests, Cut(r), GoesOn(r)
    PROVE  InStep'
<1>1. SUFFICES ASSUME NEW s \in Subjects PROVE SyncOK(s)'
  BY Zenon DEF InStep
<1>2. PICK w \in Request : req' = [req EXCEPT ![r] = w]
  BY Zenon DEF GoesOn, Moves
<1>3. PICK p \in {"done", "cut"} : req' = [req EXCEPT ![r] = Ended(p)]
  BY Zenon DEF Cut
<1>4. ~Transit(req'[r]) /\ users' = users /\ idp' = idp
  BY <1>3 DEF Transit, Ended, NoRequest, IdentityTypeOK, Cut, tables
<1>5. Disabled(s)' <=> Disabled(s)
  BY <1>4, SameDisabled, Zenon
<1>6. unsure' = IF Transit(req[r]) THEN unsure \cup {req[r].subject} ELSE unsure
  BY Zenon DEF Cut, Transit
<1>7. CASE Transit(req[r]) /\ req[r].subject = s
  BY <1>6, <1>7, Zenon DEF SyncOK
<1>8. CASE ~(Transit(req[r]) /\ req[r].subject = s)
  <2>1. Elsewhere(r, s)
    BY <1>4, <1>8, Zenon DEF Elsewhere
  <2>2. s \notin unsure' => s \notin unsure
    BY <1>6, Zenon
  <2> QED BY <1>2, <1>4, <1>5, <2>1, <2>2, OthersInTransit, SyncKept, Zenon DEF InStep
<1> QED BY <1>7, <1>8, Zenon

\* The start of the program is about one subject, which it leaves unsure.
LEMMA SeedSync ==
    ASSUME IdentityTypeOK, NoDangling, OneAccount, InStep, SeedBootstrapAdmin
    PROVE  InStep'
<1>1. SUFFICES ASSUME NEW s \in Subjects PROVE SyncOK(s)'
  BY Zenon DEF InStep
<1>2. unsure' = unsure \cup {Bootstrap} /\ idp' = idp /\ req' = req
  BY Zenon DEF SeedBootstrapAdmin
<1>3. CASE s = Bootstrap
  BY <1>2, <1>3, Zenon DEF SyncOK
<1>4. CASE s # Bootstrap
  <2>1. \A u \in Ids : users'[u] # users[u] =>
            Stored(u)' /\ users'[u].subject = Bootstrap /\ (Stored(u) => users[u].subject = Bootstrap)
    BY SeedKeeps, Zenon DEF Tame, UsersTame, Stored
  <2>2. Disabled(s)' <=> Disabled(s)
    BY <1>4, <2>1, SameDisabled, Zenon
  <2>3. \A q \in Requests : /\ Writes(q, s)' <=> Writes(q, s)
                            /\ Purges(q, s)' <=> Purges(q, s)
                            /\ Writes(q, s) => BanState(q)' = BanState(q)
    BY <1>2, Zenon DEF Writes, Purges, At, BanState
  <2> QED BY <1>2, <2>2, <2>3, SyncKept, Zenon DEF InStep
<1> QED BY <1>3, <1>4, Zenon

-----------------------------------------------------------------------------
(* The invariant is inductive.                                             *)

StepOf(r) ==
    \/ Begin(r) \/ Authenticate(r) \/ Administer(r) \/ SelfServe(r) \/ Export(r) \/ Cut(r)

\* Every step of a request goes on as it should and leaves the tables as they should be.
LEMMA StepKeeps ==
    ASSUME IdentityTypeOK, RequestsOK, NoDangling, OneAccount, NEW r \in Requests, Keeps(r),
           StepOf(r)
    PROVE  GoesOn(r) /\ TablesKept(r)
<1>1. Silent(r) \/ Provision(r) \/ SetStatus(r) \/ SetRole(r) \/ Delete(r) \/ UpdateProfile(r)
        \/ CreateKey(r) \/ RevokeKey(r) \/ Ingest(r) \/ InsertJob(r) \/ StoreExport(r)
        \/ Complete(r) \/ Fail(r)
  BY Zenon DEF StepOf, Silent, Authenticate, Administer, SelfServe, Export
<1> QED BY <1>1, SilentKeeps, ProvisionKeeps, SetStatusKeeps, SetRoleKeeps, DeleteKeeps,
           UpdateProfileKeeps, CreateKeyKeeps, RevokeKeyKeeps, IngestKeeps, InsertJobKeeps,
           StoreExportKeeps, CompleteKeeps, FailKeeps, Zenon

\* And it leaves the auth provider in step.
LEMMA StepSync ==
    ASSUME IdentityTypeOK, RequestsOK, OneAccount, InStep, NEW r \in Requests, GoesOn(r), StepOf(r)
    PROVE  InStep'
<1>1. Calm(r) \/ SetBanned(r) \/ SetStatus(r) \/ Delete(r) \/ DeleteUser(r) \/ Cut(r)
  BY Zenon DEF StepOf, Calm, Administer
<1> QED BY <1>1, CalmSync, SetBannedSync, SetStatusSync, DeleteSync, DeleteUserSync, CutSync, Zenon

\* The auth provider keeps an account, a banned one or a deleted one.
LEMMA ProviderTyped ==
    ASSUME IdentityTypeOK, RequestsOK, NEW r \in Requests, StepOf(r)
    PROVE  idp' \in [Subjects -> {"active", "banned", "deleted"}] /\ unsure' \subseteq Subjects
<1>1. req[r] \in Request /\ LocalOK(req[r])
  BY Zenon DEF IdentityTypeOK, RequestsOK
<1>2. /\ req[r].pc \in {"ban", "purge"} => req[r].subject \in Subjects
      /\ req[r].pc = "write" /\ req[r].op = "SetUserStatus" => req[r].subject \in Subjects
  BY <1>1, Zenon DEF LocalOK, Request, OnTarget, AdminOnly
<1>3. CASE SetBanned(r) \/ SetBannedFails(r)
  BY <1>2, <1>3, Zenon DEF SetBanned, SetBannedFails, BanState, IdentityTypeOK
<1>4. CASE SetStatus(r)
  BY <1>2, <1>4, Zenon DEF SetStatus, At, IdentityTypeOK
<1>5. CASE DeleteUser(r)
  BY <1>2, <1>5, Zenon DEF DeleteUser, IdentityTypeOK
<1>6. CASE Cut(r)
  BY <1>2, <1>6, Zenon DEF Cut, IdentityTypeOK
<1>7. CASE Delete(r)
  BY <1>7, Zenon DEF Delete, IdentityTypeOK
<1>8. CASE Calm(r) /\ ~SetBannedFails(r)
  <2>1. idp' = idp /\ unsure' = unsure
    BY <1>8, Zenon
       DEF Calm, Begin, Authenticate, Resolve, Provision, Reread, KeyLookup, KeyUser, Touch,
           Lookup, SetRole, SelfServe, ReadProfile, UpdateProfile, CreateKey, RevokeKey,
           ResolveEvent, Ingest, Export, InsertJob, StoreExport, Complete, Fail
  <2> QED BY <2>1, Zenon DEF IdentityTypeOK
<1> QED BY <1>3, <1>4, <1>5, <1>6, <1>7, <1>8, Zenon DEF StepOf, Calm, Administer

\* At first nobody asks for anything, and every account is its own subject's.
LEMMA IdentityInvInit == IdentityInit => IdentityInv
<1>1. SUFFICES ASSUME IdentityInit PROVE IdentityInv
  BY Zenon
<1>2. /\ Subjects \subseteq Ids /\ Requests \subseteq Keys /\ Requests \subseteq Ids
      /\ Admins \subseteq Subjects /\ Plain \subseteq Subjects /\ Requests \cap Subjects = {}
  BY IdentityAssumption, Zenon DEF Ids, Keys
<1> DEFINE First(u) == IF u \in Admins THEN [NewUser(u) EXCEPT !.role = "admin"]
                       ELSE IF u \in Plain THEN NewUser(u) ELSE None
<1>3. ASSUME NEW v \in Admins \cup Plain
      PROVE  First(v) \in User /\ First(v).subject = v /\ First(v).status = "active"
  <2>1. v \in Subjects
    BY <1>2, Zenon
  <2> QED BY <2>1, Zenon DEF NewUser, User, Roles
<1>4. users = [u \in Ids |-> First(u)]
  BY <1>1, Zenon DEF IdentityInit
<1>5. \A v \in Ids : v \notin Admins \cup Plain => First(v) = None
  BY Zenon
<1> HIDE DEF First
<1>6. /\ users \in [Ids -> User \cup {None, Gone}]
      /\ \A v \in Ids : v \notin Admins \cup Plain => users[v] = None
      /\ \A v \in Ids : Stored(v) => users[v].subject = v /\ users[v].status = "active"
  BY <1>3, <1>4, <1>5, Zenon DEF Stored
<1>7. PICK u \in Admins \cup Plain :
        keys = [k \in Keys |-> IF k = OldKey THEN [owner |-> u, revoked |-> FALSE] ELSE None]
  BY <1>1, Zenon DEF IdentityInit
<1>8. u \in Ids /\ Stored(u)
  <2>1. users[u] \in User
    <3>1. u \in Ids
      BY <1>2, Zenon
    <3> QED BY <1>3, <1>4, <3>1, Zenon
  <2> QED BY <1>2, <2>1, RowsAssumption, Zenon DEF Stored
<1>9. [owner |-> u, revoked |-> FALSE] \in Key
  BY <1>8, Zenon DEF Key
<1>10. keys \in [Keys -> Key \cup {None}]
  BY <1>7, <1>9, Zenon
<1>11. \A k \in Keys : keys[k] # None => keys[k].owner = u
  BY <1>7, Zenon
<1>12. /\ jobs = [r \in Requests |-> None] /\ files = {} /\ audit = {} /\ unsure = {} /\ seeds = 0
       /\ idp = [s \in Subjects |-> "active"] /\ req = [r \in Requests |-> NoRequest]
       /\ had = [r \in Requests |-> {}] /\ mix \in Mixes
  BY <1>1, Zenon DEF IdentityInit
<1>13. NoRequest \in Request
  BY Zenon DEF NoRequest, Request, PCs
<1>14. IdentityTypeOK
  <2>1. seeds \in 0..mix.starts
    BY <1>12, MixAssumption
  <2> QED BY <1>6, <1>10, <1>12, <1>13, <2>1, Zenon DEF IdentityTypeOK
<1>15. RequestsOK
  <2>1. LocalOK(NoRequest)
    <3>1. None \notin Operations
      BY RowsAssumption, Zenon
    <3> QED BY <3>1, Zenon DEF LocalOK, NoRequest, Over, Working, Operations, SelfService, AdminOnly, OnTarget
  <2>2. ASSUME NEW r \in Requests PROVE RowsOK(r) /\ AccountOK(r) /\ TargetOK(r)
    <3>1. req[r] = NoRequest /\ jobs[r] = None
      BY <1>12, Zenon
    <3>2. users[r] = None
      BY <1>2, <1>6, Zenon
    <3>3. keys[r] = None
      BY <1>2, <1>7, IdentityAssumption, Zenon
    <3>4. RowsOK(r)
      <4>1. req[r].pc = "idle"
        BY <3>1 DEF NoRequest
      <4> QED BY <3>1, <3>2, <3>3, <4>1, Zenon DEF RowsOK
    <3>5. AccountOK(r) /\ TargetOK(r)
      BY <3>1 DEF AccountOK, TargetOK, NoRequest
    <3> QED BY <3>4, <3>5, Zenon
  <2> QED BY <1>12, <2>1, <2>2, Zenon DEF RequestsOK
<1>16. NoDangling
  BY <1>8, <1>11, <1>12, Zenon DEF NoDangling
<1>17. OneAccount
  BY <1>6, Zenon DEF OneAccount
<1>18. InStep
  <2>1. \A s : ~Disabled(s)
    BY <1>6, Zenon DEF Disabled
  <2>2. \A s, q : q \in Requests => ~Writes(q, s)
    BY <1>12, Zenon DEF Writes, At, NoRequest
  <2> QED BY <1>12, <2>1, <2>2, Zenon DEF InStep, SyncOK
<1> QED BY <1>14, <1>15, <1>16, <1>17, <1>18, Zenon DEF IdentityInv

\* Every step of a request, every start of the program and every stutter preserves it.
LEMMA IdentityInvNext == IdentityInv /\ [IdentityNext]_identVars => IdentityInv'
<1>1. SUFFICES ASSUME IdentityInv, [IdentityNext]_identVars PROVE IdentityInv'
  BY Zenon
<1>2. IdentityTypeOK /\ RequestsOK /\ NoDangling /\ OneAccount /\ InStep
  BY <1>1, Zenon DEF IdentityInv
<1>3. ASSUME UsersFine', KeysFine', JobsFine', AuditFine' PROVE NoDangling' /\ OneAccount'
  BY <1>3, Zenon DEF UsersFine, KeysFine, JobsFine, AuditFine, NoDangling
<1>4. mix \in Mixes /\ mix.starts \in Nat /\ seeds \in 0..mix.starts
  BY <1>2, MixAssumption, Zenon DEF IdentityTypeOK
<1>5. ASSUME NEW r \in Requests, StepOf(r), seeds' = seeds, Remember, mix' = mix
      PROVE  IdentityInv'
  <2>1. \A q \in Requests : Keeps(q)
    BY <1>5, RightsKept, Zenon
  <2>2. GoesOn(r) /\ TablesKept(r)
    BY <1>2, <1>5, <2>1, StepKeeps, Zenon
  <2>3. UsersFine' /\ KeysFine' /\ JobsFine' /\ AuditFine' /\ files' \subseteq Requests /\ Tame(r)
    BY <2>2, Zenon DEF TablesKept
  <2>4. req' \in [Requests -> Request] /\ RequestsOK'
    BY <1>2, <2>1, <2>2, <2>3, RequestsKept, Zenon
  <2>5. InStep'
    BY <1>2, <1>5, <2>2, StepSync, Zenon
  <2>6. idp' \in [Subjects -> {"active", "banned", "deleted"}] /\ unsure' \subseteq Subjects
    BY <1>2, <1>5, ProviderTyped, Zenon
  <2>7. users' \in [Ids -> User \cup {None, Gone}] /\ keys' \in [Keys -> Key \cup {None}]
        /\ jobs' \in [Requests -> Job \cup {None}]
        /\ audit' \subseteq [of : Requests, user : Ids \cup {None}]
    BY <2>3, Zenon DEF UsersFine, KeysFine, JobsFine, AuditFine
  <2>8. had' \in [Requests -> SUBSET (Roles \cup {"key"})]
    BY <1>2, <1>5, <2>7, HistoryTyped, Zenon
  <2>9. IdentityTypeOK'
    BY <1>4, <1>5, <2>3, <2>4, <2>6, <2>7, <2>8, Zenon DEF IdentityTypeOK
  <2> QED BY <1>3, <2>3, <2>4, <2>5, <2>9, Zenon DEF IdentityInv
<1>6. ASSUME SeedBootstrapAdmin, Remember, mix' = mix PROVE IdentityInv'
  <2>1. \A q \in Requests : Keeps(q)
    BY <1>6, RightsKept, Zenon
  <2>2. UsersFine' /\ KeysFine' /\ JobsFine' /\ AuditFine' /\ Tame("seeded")
    BY <1>2, <1>6, SeedKeeps, Zenon
  <2>3. /\ files' = files /\ idp' = idp /\ req' = req /\ unsure' = unsure \cup {Bootstrap}
        /\ seeds < mix.starts /\ seeds' = seeds + 1
    BY <1>6, Zenon DEF SeedBootstrapAdmin
  <2>4. RequestsOK'
    <3>1. SUFFICES ASSUME NEW q \in Requests
                   PROVE  LocalOK(req'[q]) /\ RowsOK(q)' /\ AccountOK(q)' /\ TargetOK(q)'
      BY Zenon DEF RequestsOK
    <3>2. /\ LocalOK(req[q]) /\ RowsOK(q) /\ AccountOK(q) /\ TargetOK(q) /\ Keeps(q)
          /\ req'[q] = req[q] /\ req' \in [Requests -> Request]
      BY <1>2, <2>1, <2>3, Zenon DEF RequestsOK, IdentityTypeOK
    <3>3. q # "seeded"
      BY RowsAssumption, Zenon
    <3>4. RowsOK(q)'
      BY <1>2, <2>2, <3>2, <3>3, RowsKept, Zenon
    <3>5. (req[q].user = None /\ req[q].role = None) \/ req[q].cred # None
      BY <3>2, Zenon DEF LocalOK
    <3>6. AccountOK(q)'
      BY <1>2, <2>2, <3>2, <3>5, AccountKept, Zenon
    <3>7. TargetOK(q)'
      BY <1>2, <2>2, <3>2, TargetKept, Zenon
    <3> QED BY <3>2, <3>4, <3>6, <3>7, Zenon
  <2>5. InStep'
    BY <1>2, <1>6, SeedSync, Zenon
  <2>6. users' \in [Ids -> User \cup {None, Gone}] /\ keys' \in [Keys -> Key \cup {None}]
        /\ jobs' \in [Requests -> Job \cup {None}]
        /\ audit' \subseteq [of : Requests, user : Ids \cup {None}]
    BY <2>2, Zenon DEF UsersFine, KeysFine, JobsFine, AuditFine
  <2>7. had' \in [Requests -> SUBSET (Roles \cup {"key"})]
    BY <1>2, <1>6, <2>6, HistoryTyped, Zenon
  <2>8. seeds' \in 0..mix'.starts
    BY <1>4, <1>6, <2>3
  <2>9. unsure' \subseteq Subjects
    BY <1>2, <2>3, IdentityAssumption, Zenon DEF IdentityTypeOK
  <2>10. IdentityTypeOK'
    BY <1>2, <1>6, <2>3, <2>6, <2>7, <2>8, <2>9, Zenon DEF IdentityTypeOK
  <2> QED BY <1>3, <2>2, <2>4, <2>5, <2>10, Zenon DEF IdentityInv
<1>7. CASE UNCHANGED identVars
  <2>1. /\ users' = users /\ keys' = keys /\ jobs' = jobs /\ files' = files /\ audit' = audit
        /\ idp' = idp /\ req' = req /\ had' = had /\ unsure' = unsure /\ mix' = mix
        /\ seeds' = seeds
    BY <1>7, Zenon DEF identVars
  <2>2. IdentityTypeOK'
    BY <1>2, <2>1, Zenon DEF IdentityTypeOK
  <2>3. RequestsOK'
    <3>1. ASSUME NEW r \in Requests PROVE LocalOK(req[r])' /\ RowsOK(r)'
      BY <1>2, <2>1, Zenon DEF RequestsOK, RowsOK, LocalOK
    <3>2. ASSUME NEW r \in Requests PROVE AccountOK(r)'
      BY <1>2, <2>1, Zenon DEF RequestsOK, AccountOK, Stored
    <3>3. ASSUME NEW r \in Requests PROVE TargetOK(r)'
      BY <1>2, <2>1, Zenon DEF RequestsOK, TargetOK, Stored
    <3> QED BY <3>1, <3>2, <3>3, Zenon DEF RequestsOK
  <2>4. NoDangling' /\ OneAccount'
    BY <1>2, <2>1, Zenon DEF NoDangling, OneAccount, Stored
  <2>5. InStep'
    <3>1. \A s : Disabled(s)' <=> Disabled(s)
      BY <2>1, Zenon DEF Disabled, Stored
    <3>2. \A q, s : (Writes(q, s)' <=> Writes(q, s)) /\ (Purges(q, s)' <=> Purges(q, s))
      BY <2>1, Zenon DEF Writes, Purges, At
    <3>3. \A q : BanState(q)' = BanState(q)
      BY <2>1, Zenon DEF BanState
    <3> QED BY <1>2, <2>1, <3>1, <3>2, <3>3, Zenon DEF InStep, SyncOK
  <2> QED BY <2>2, <2>3, <2>4, <2>5, Zenon DEF IdentityInv
<1>8. CASE IdentityNext
  BY <1>5, <1>6, <1>8, Zenon DEF IdentityNext, StepOf
<1> QED BY <1>1, <1>7, <1>8, Zenon

-----------------------------------------------------------------------------
(* What the invariant is for.                                              *)

\* A right that was checked was held, for an account that was there.
LEMMA InvAccess == IdentityInv => AccessIsEarned
<1>1. SUFFICES ASSUME IdentityInv, NEW r \in Requests, req[r].role # None
               PROVE  /\ users[req[r].user] # None
                      /\ Stored(req[r].user) /\ req[r].cred \in Subjects =>
                            users[req[r].user].subject = req[r].cred
                      /\ Stored(req[r].user) /\ req[r].cred \in Keys =>
                            keys[req[r].cred] # None /\ keys[req[r].cred].owner = req[r].user
                      /\ req[r].role \in had[r]
                      /\ req[r].cred \in Keys => "key" \in had[r]
  BY Zenon DEF AccessIsEarned, PrincipalHasAccount, RightsWereHeld
<1>2. LocalOK(req[r]) /\ AccountOK(r)
  BY <1>1, Zenon DEF IdentityInv, RequestsOK
<1>3. req[r].user # None
  BY <1>1, <1>2, Zenon DEF LocalOK
<1> QED BY <1>1, <1>2, <1>3, Zenon DEF AccountOK

\* A pending job's request is at work on it or was cut off, a completed one has its file.
LEMMA InvRecords == IdentityInv => RecordsHold
<1>1. SUFFICES ASSUME IdentityInv PROVE RecordsHold
  BY Zenon
<1>2. \A j \in Requests : RowsOK(j)
  BY <1>1, Zenon DEF IdentityInv, RequestsOK
<1>3. CompletedHasFile /\ PendingHasWorker
  BY <1>2, Zenon DEF RowsOK, CompletedHasFile, PendingHasWorker
<1> QED BY <1>1, <1>3, Zenon DEF IdentityInv, RecordsHold

\* With nobody between the two, being in step is being disabled in both or in neither.
LEMMA InvProvider == IdentityInv => ProviderAgrees
<1>1. SUFFICES ASSUME IdentityInv, NEW u \in Ids, Stored(u), NEW s, s = users[u].subject,
                      s \notin unsure, idp[s] # "deleted",
                      \A r \in Requests : req[r].subject = s => req[r].pc \notin {"write", "purge"}
               PROVE  idp[s] = "banned" <=> users[u].status = "disabled"
  BY Zenon DEF ProviderAgrees
<1>2. s \in Subjects
  <2>1. users[u] \in User
    BY <1>1, Zenon DEF IdentityInv, IdentityTypeOK, Stored
  <2> QED BY <1>1, <2>1, Zenon DEF User
<1>3. \A q \in Requests : ~Writes(q, s) /\ ~Purges(q, s)
  BY <1>1, Zenon DEF Writes, Purges, At
<1>4. idp[s] = "banned" <=> Disabled(s)
  BY <1>1, <1>2, <1>3, Zenon DEF IdentityInv, InStep, SyncOK
<1>5. Disabled(s) <=> users[u].status = "disabled"
  BY <1>1, Zenon DEF Disabled, IdentityInv, OneAccount
<1> QED BY <1>4, <1>5, Zenon

\* An active admin that acts on others is still one afterwards, and whoever only acts on
\* itself, short of deleting itself, takes no admin away.
LEMMA AdminStays ==
    ASSUME IdentityTypeOK, RequestsOK, NEW r \in Requests, StepOf(r), req[r].op # "DeleteMe",
           ActiveAdmin(req[r].user), NEW a \in Ids, ActiveAdmin(a)
    PROVE  \E u \in Ids : ActiveAdmin(u)'
<1>1. req[r] \in Request /\ LocalOK(req[r])
  BY Zenon DEF IdentityTypeOK, RequestsOK
<1>2. \A u : users'[u] = users[u] => (ActiveAdmin(u)' <=> ActiveAdmin(u))
  BY Zenon DEF ActiveAdmin, IsActive, Stored
<1>3. CASE users' = users
  BY <1>2, <1>3, Zenon
<1>4. CASE Provision(r) /\ users' # users
  <2>1. users' = [users EXCEPT ![r] = NewUser(req[r].cred)] /\ users[r] = None
    BY <1>4, Zenon DEF Provision, InsertUser, RequestsOK, RowsOK, Newcomer
  <2>2. a # r
    BY <2>1, Zenon DEF ActiveAdmin, IsActive, Stored
  <2>3. users'[a] = users[a]
    BY <2>1, <2>2, Zenon DEF IdentityTypeOK
  <2> QED BY <1>2, <2>3, Zenon
<1>5. CASE SetStatus(r) \/ SetRole(r) \/ Delete(r)
  <2>1. /\ req[r].pc = "write" /\ req[r].op \in OnOthers
        /\ users' = users \/ \E x : users' = [users EXCEPT ![req[r].target] = x]
    BY <1>5, Zenon DEF SetStatus, SetRole, Delete, RemoveUser, At, OnOthers
  <2>2. PICK u \in Ids : u = req[r].user /\ u # req[r].target /\ ActiveAdmin(u)
    BY <1>1, <2>1, CallerIsKnown, Zenon DEF LocalOK, OnOthers, Working
  <2>3. users'[u] = users[u]
    BY <2>1, <2>2, Zenon DEF IdentityTypeOK
  <2> QED BY <1>2, <2>2, <2>3, Zenon
<1>6. CASE UpdateProfile(r) /\ users' # users
  <2>1. /\ Stored(req[r].user) /\ req[r].fields \in SUBSET Fields
        /\ users' = [users EXCEPT ![req[r].user].profile = req[r].fields]
    BY <1>1, <1>6, Zenon DEF UpdateProfile, CanRecord, Request
  <2>2. CASE a # req[r].user
    <3>1. users'[a] = users[a]
      BY <2>1, <2>2, Zenon DEF IdentityTypeOK
    <3> QED BY <1>2, <3>1, Zenon
  <2>3. CASE a = req[r].user
    <3>1. users[a] \in User /\ users'[a] = [users[a] EXCEPT !.profile = req[r].fields]
      BY <2>1, <2>3, Zenon DEF IdentityTypeOK, Stored
    <3>2. /\ users'[a] \in User /\ users'[a].role = users[a].role
          /\ users'[a].status = users[a].status
      BY <2>1, <3>1 DEF User
    <3> QED BY <3>2, RowsAssumption, Zenon DEF ActiveAdmin, IsActive, Stored
  <2> QED BY <2>2, <2>3, Zenon
<1>7. \/ users' = users \/ Provision(r) \/ SetStatus(r) \/ SetRole(r) \/ Delete(r)
      \/ UpdateProfile(r)
  <2>1. CASE Silent(r)
    BY <2>1, Zenon DEF Silent, Begin, Resolve, Reread, KeyLookup, KeyUser, Touch, Lookup,
       ReadProfile, ResolveEvent, SetBanned, SetBannedFails, DeleteUser, Cut, tables
  <2>2. CASE CreateKey(r) \/ RevokeKey(r) \/ Ingest(r) \/ Export(r)
    BY <2>2, Zenon DEF CreateKey, RevokeKey, Ingest, Export, InsertJob, StoreExport, Complete, Fail
  <2> QED BY <2>1, <2>2, Zenon DEF StepOf, Silent, Authenticate, Administer, SelfServe
<1> QED BY <1>3, <1>4, <1>5, <1>6, <1>7, Zenon

\* Only the request that moves took the last admin away, and then it deleted its own account
\* or acted without being an active admin any more.
LEMMA LastAdminStep ==
    ASSUME IdentityInv, IdentityNext, NEW r \in Requests, \E u \in Ids : ActiveAdmin(u),
           ~(\E u \in Ids : ActiveAdmin(u)'), req'[r] # req[r]
    PROVE  req[r].op = "DeleteMe" \/ ~ActiveAdmin(req[r].user)
<1>1. IdentityTypeOK /\ RequestsOK /\ NoDangling /\ OneAccount
  BY Zenon DEF IdentityInv
<1>2. Remember /\ \A q \in Requests : Keeps(q)
  BY RightsKept, Zenon DEF IdentityNext
<1>3. PICK q \in Requests : StepOf(q)
  <2>1. ~SeedBootstrapAdmin
    BY Zenon DEF SeedBootstrapAdmin
  <2> QED BY <2>1, Zenon DEF IdentityNext, StepOf
<1>4. GoesOn(q)
  BY <1>1, <1>2, <1>3, StepKeeps, Zenon
<1>5. q = r
  <2>1. PICK w : req' = [req EXCEPT ![q] = w]
    BY <1>4, Zenon DEF GoesOn, Moves
  <2> QED BY <1>1, <2>1, Zenon DEF IdentityTypeOK
<1> QED BY <1>1, <1>3, <1>5, AdminStays, Zenon

-----------------------------------------------------------------------------
(* Results.                                                                *)

\* Requests, starts of the program and cuts keep the invariant.
THEOREM IdentityInvariant == IdentitySpec => []IdentityInv
  BY IdentityInvInit, IdentityInvNext, PTL DEF IdentitySpec

\* Every variable keeps its type.
THEOREM IdentityTypeCorrect == IdentitySpec => []IdentityTypeOK
<1>1. IdentityInv => IdentityTypeOK
  BY Zenon DEF IdentityInv
<1> QED BY <1>1, IdentityInvariant, PTL

\* Whoever is let in acts for an account there is or was, with rights it had while the
\* request ran: however many requests race, and whatever is disabled, demoted, revoked or
\* deleted meanwhile.
THEOREM AccessAlwaysEarned == IdentitySpec => []AccessIsEarned
  BY IdentityInvariant, InvAccess, PTL

\* Keys, jobs and audit events name accounts that exist, a completed export has its file,
\* and a pending one somebody who works on it unless that request was cut off.
THEOREM RecordsAlwaysHold == IdentitySpec => []RecordsHold
  BY IdentityInvariant, InvRecords, PTL

\* The auth provider and the users table agree on who is disabled, whenever no change is
\* under way and none was left unclean.
THEOREM ProviderAlwaysAgrees == IdentitySpec => []ProviderAgrees
  BY IdentityInvariant, InvProvider, PTL

\* A step that leaves no active admin is an admin deleting itself, or is one of a request
\* whose own caller is no active admin any more.
THEOREM LastAdminGoesAlone == IdentitySpec => LastAdminGoes
<1>1. IdentityInv /\ [IdentityNext]_identVars =>
        [ \A r \in Requests :
            (\E u \in Ids : ActiveAdmin(u)) /\ ~(\E u \in Ids : ActiveAdmin(u)')
              /\ req'[r] # req[r]
            => req[r].op = "DeleteMe" \/ ~ActiveAdmin(req[r].user) ]_identVars
  BY LastAdminStep, Zenon
<1> QED BY <1>1, IdentityInvariant, PTL DEF IdentitySpec, LastAdminGoes

=============================================================================
