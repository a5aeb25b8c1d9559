----------------------------- MODULE RequestPath -----------------------------
(***************************************************************************)
(* The public read routes: the response cache (internal/api/cache.go) and  *)
(* the handlers behind it.                                                 *)
(*                                                                         *)
(* A response's content is what it is about (id) and the time its handler  *)
(* read the database; an ETag is a hash of the content, so an answer 304   *)
(* stands for the content the client has.  The map of the cache finds the  *)
(* elements of its list by key: one sequence, most recently used first.    *)
(***************************************************************************)
EXTENDS SequencesExt, Naturals

CONSTANTS
    Readers,    \* concurrent requests
    Routes,     \* route templates
    ByID,       \* the routes with a path parameter
    Ids,        \* values of the parameter
    NoId,       \* the parameter of the other routes
    Cap,        \* LRUCapacity
    TTL,        \* maxAge
    MaxRun,     \* how long a handler takes at most
    MaxTime     \* bound: time

ASSUME RequestAssumption ==
    /\ ByID \subseteq Routes /\ NoId \notin Ids
    /\ Cap \in Nat \ {0} /\ TTL \in Nat /\ MaxRun \in Nat /\ MaxTime \in Nat

VARIABLES
    time,       \* the time
    lru,        \* ResponseCache.ll and items
    reader,     \* where each request is
    recency     \* history: the keys in the order of their last use

requestVars == <<time, lru, reader, recency>>

Asked == (ByID \X Ids) \cup ((Routes \ ByID) \X {NoId})

\* cacheKey: the template of the route.  Query parameters are part of the key; two
\* requests that differ in them are two routes here.
Key(ask) == <<ask[1], NoId>>

Content == [id : Ids \cup {NoId}, at : 0..MaxTime]

Entry == [key : {Key(a) : a \in Asked}, content : Content, expires : 0..(MaxTime + TTL)]

\* content is what the handler wrote or the client got, age how old it was then.
NoReader == [pc |-> "idle", ask |-> <<>>, content |-> <<>>, age |-> 0]

\* Every variable has its type.
RequestTypeOK ==
    /\ time \in 0..MaxTime
    /\ \A i \in 1..Len(lru) : lru[i] \in Entry
    /\ Range(recency) \subseteq {Key(a) : a \in Asked}
    /\ \A r \in Readers :
         /\ reader[r].pc \in {"idle", "get", "run", "put", "done"}
         /\ reader[r].pc # "idle" => reader[r].ask \in Asked
         /\ reader[r].pc = "put" => reader[r].content \in Content
         /\ reader[r].age \in 0..MaxTime

-----------------------------------------------------------------------------
Index(key) == {i \in 1..Len(lru) : lru[i].key = key}

MoveToFront(s, i) == <<s[i]>> \o RemoveAt(s, i)

Use(key) ==
    recency' = <<key>> \o SelectSeq(recency, LAMBDA k : k # key)

\* The request goes past the rate limit (see RateLimit) to the route.
Ask(r) ==
    /\ reader[r].pc \in {"idle", "done"}
    /\ \E a \in Asked : reader' = [reader EXCEPT ![r] = [NoReader EXCEPT !.pc = "get", !.ask = a]]
    /\ UNCHANGED <<time, lru, recency>>

Reply(r, content) ==
    reader' = [reader EXCEPT ![r].pc = "done", ![r].content = content,
                             ![r].age = time - content.at]

\* Mutant of Hit: a hit makes the entry last longer.
HitRenews(r, i) ==
    /\ lru' = MoveToFront([lru EXCEPT ![i].expires = time + TTL], i)
    /\ Use(lru[i].key)
    /\ Reply(r, lru[i].content)

\* A live entry is promoted and served.
Hit(r, i) ==
    /\ lru' = MoveToFront(lru, i)
    /\ Use(lru[i].key)
    /\ Reply(r, lru[i].content)

\* No entry, or one that has expired and is removed: the handler runs.
Miss(r, key) ==
    /\ lru' = SelectSeq(lru, LAMBDA e : e.key # key)
    /\ reader' = [reader EXCEPT ![r].pc = "run"]
    /\ UNCHANGED recency

Lookup(r) ==
    LET key == Key(reader[r].ask)
    IN  /\ reader[r].pc = "get"
        /\ \/ \E i \in Index(key) : time <= lru[i].expires /\ Hit(r, i)
           \/ (\A i \in Index(key) : time > lru[i].expires) /\ Miss(r, key)
        /\ UNCHANGED time

\* The handler reads the database.  An error, or an id that does not exist, is answered
\* with no-store and not kept.
Handle(r) ==
    /\ reader[r].pc = "run"
    /\ \/ reader' = [reader EXCEPT ![r].pc = "put",
                                   ![r].content = [id |-> reader[r].ask[2], at |-> time]]
       \/ reader' = [reader EXCEPT ![r] = NoReader]
    /\ UNCHANGED <<time, lru, recency>>

Evicted(s) == IF Len(s) > Cap THEN SubSeq(s, 1, Cap) ELSE s

\* put: an entry of the same key is replaced, whatever is older; the reply follows.
Put(r) ==
    LET key == Key(reader[r].ask)
        new == [key |-> key, content |-> reader[r].content, expires |-> time + TTL]
    IN  /\ reader[r].pc = "put"
        /\ lru' = Evicted(<<new>> \o SelectSeq(lru, LAMBDA e : e.key # key))
        /\ Use(key)
        /\ Reply(r, reader[r].content)
        /\ UNCHANGED time

\* Time passes; a handler is done MaxRun after it read.
TimePasses ==
    /\ time < MaxTime
    /\ \A r \in Readers : reader[r].pc = "put" => time < reader[r].content.at + MaxRun
    /\ time' = time + 1
    /\ reader' = [r \in Readers |-> IF reader[r].pc = "done" THEN NoReader ELSE reader[r]]
    /\ UNCHANGED <<lru, recency>>

RequestInit ==
    /\ time = 0
    /\ lru = <<>> /\ recency = <<>>
    /\ reader = [r \in Readers |-> NoReader]

RequestNext ==
    TimePasses \/ \E r \in Readers : Ask(r) \/ Lookup(r) \/ Handle(r) \/ Put(r)

RequestSpec == RequestInit /\ [][RequestNext]_requestVars

-----------------------------------------------------------------------------
\* What a client gets was read from the database at most TTL and one handler's run ago,
\* also when a slow handler stores its old content over a newer entry, and however often
\* the entry has been served.
FreshEnough == \A r \in Readers : reader[r].pc = "done" => reader[r].age <= TTL + MaxRun

\* The cache holds at most Cap entries, one per key, in the order of their last use; what
\* an eviction drops is what was used longest ago.
RecencyOrder ==
    /\ Len(lru) <= Cap
    /\ [i \in 1..Len(lru) |-> lru[i].key]
         = SelectSeq(recency, LAMBDA k : \E i \in 1..Len(lru) : lru[i].key = k)

\* A request for one location or provider is answered with that location or provider
\* (docs/api/05-endpoint-catalog.md: "single location").
ServesWhatWasAsked ==
    \A r \in Readers : reader[r].pc = "done" => reader[r].content.id = reader[r].ask[2]

\* The cache serves nothing too old and drops what was used longest ago.
CacheIsSound == FreshEnough /\ RecencyOrder
==============================================================================
