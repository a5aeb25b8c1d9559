------------------------------- MODULE Listing -------------------------------
(***************************************************************************)
(* The lists of the API: GET /forecast-collections, /locations,            *)
(* /admin/audit-events and /admin/users.  A client walks one of them page  *)
(* by page, each request with the cursor of the last answer, while rows    *)
(* are inserted, change and go.                                            *)
(*                                                                         *)
(* An id is the UUIDv7 of a row: it is drawn before the transaction, so    *)
(* rows do not appear in the order of their ids.  A cursor that is no UUID *)
(* is refused and changes nothing; clients here return the one they got.   *)
(***************************************************************************)
EXTENDS Integers, SequencesExt

CONSTANTS
    ListIds,        \* the ids of rows, 1..n
    NoCursor,       \* no cursor
    DefaultLimit,   \* rows of a page if no usable limit is asked for
    MaxLimit,       \* the most a client may ask for
    Limits,         \* what clients ask for; NoLimit: nothing, or not a number
    NoLimit,
    Lists           \* the lists that are walked

ASSUME ListingAssumption ==
    /\ NoCursor \notin ListIds /\ 0 \notin ListIds
    /\ DefaultLimit \in 1..MaxLimit /\ NoLimit \notin Int

VARIABLES
    list,       \* the list walked
    limit,      \* the limit asked for
    rows,       \* the rows: id -> whether the filter selects it
    cursor,     \* the cursor of the next request
    seen,       \* the ids received so far, in order
    open,       \* the client expects more
    steady      \* history: rows selected all the time since the walk began

listVars == <<list, limit, rows, cursor, seen, open, steady>>

\* The query's limit, as the handlers read it.
AskedFor == IF limit = NoLimit THEN DefaultLimit ELSE limit

\* The limit the services use.
PageLimit(n) == IF n <= 0 \/ n > MaxLimit THEN DefaultLimit ELSE n

Selected == {i \in DOMAIN rows : rows[i]}

FirstOf(S, Less(_, _), n) == LET s == SetToSortSeq(S, Less)
                             IN  SubSeq(s, 1, IF Len(s) < n THEN Len(s) ELSE n)

\* CollectionRepository.List: one row more than the page.
CollectionRows(after, n) ==
    FirstOf({i \in Selected : after = NoCursor \/ i > after}, <, n + 1)

\* Mutant of LocationRows: exactly a page.
LocationRowsExact(after, n) ==
    FirstOf({i \in Selected : after = NoCursor \/ i > after}, <, n)

\* LocationRepository.List.
LocationRows(after, n) ==
    FirstOf({i \in Selected : after = NoCursor \/ i > after}, <, n + 1)

\* Store.List of the audit trail, newest first.
EventRows(before, n) ==
    FirstOf({i \in Selected : before = NoCursor \/ i < before}, >, n + 1)

\* UserRepository.List: exactly a page; users are not filtered.
UserRows(before, n) ==
    FirstOf({i \in DOMAIN rows : before = NoCursor \/ i < before}, >, n)

\* The page made of the rows found: one row too many means there is a next page.
Page(found, n) ==
    IF Len(found) > n
    THEN [items |-> SubSeq(found, 1, n), more |-> TRUE, next |-> found[n]]
    ELSE [items |-> found, more |-> FALSE, next |-> NoCursor]

\* ListCollections of the service.
CollectionPage(n) == Page(CollectionRows(cursor, PageLimit(n)), PageLimit(n))

\* ListLocations of the service.
LocationPage(n) == Page(LocationRows(cursor, PageLimit(n)), PageLimit(n))

\* ReaderService.List of the audit trail.
EventPage(n) == Page(EventRows(cursor, PageLimit(n)), PageLimit(n))

\* The page of users, which the handler makes: a full page may have a next one.
UserPage(found) ==
    IF Len(found) = AskedFor /\ AskedFor > 0
    THEN [items |-> found, more |-> TRUE, next |-> Last(found)]
    ELSE [items |-> found, more |-> FALSE, next |-> NoCursor]

\* The client takes a page.
Receive(page) ==
    /\ seen' = seen \o page.items /\ open' = page.more /\ cursor' = page.next
    /\ UNCHANGED <<list, limit, rows, steady>>

ListCollections ==
    /\ open /\ list = "collections"
    /\ Receive(CollectionPage(AskedFor))

ListLocations ==
    /\ open /\ list = "locations"
    /\ Receive(LocationPage(AskedFor))

AuditEvents ==
    /\ open /\ list = "audit"
    /\ Receive(EventPage(AskedFor))

ListUsers ==
    /\ open /\ list = "users"
    /\ Receive(UserPage(UserRows(cursor, PageLimit(AskedFor))))

\* Somebody else commits a row.
RowAppears ==
    /\ open
    /\ \E i \in ListIds \ DOMAIN rows, sel \in BOOLEAN :
         rows' = [j \in DOMAIN rows \cup {i} |-> IF j = i THEN sel ELSE rows[j]]
    /\ UNCHANGED <<list, limit, cursor, seen, open, steady>>

\* The status of a collection or location changes, a user is deleted; audit rows stay.
RowChanges ==
    /\ open /\ list # "audit"
    /\ \E i \in DOMAIN rows :
         /\ IF list = "users" THEN rows' = [j \in DOMAIN rows \ {i} |-> rows[j]]
            ELSE rows' = [rows EXCEPT ![i] = ~@]
         /\ steady' = steady \ {i}
    /\ UNCHANGED <<list, limit, cursor, seen, open>>

ListInit ==
    /\ list \in Lists /\ limit \in Limits
    /\ \E S \in SUBSET ListIds : rows \in [S -> BOOLEAN]
    /\ cursor = NoCursor /\ seen = <<>> /\ open = TRUE
    /\ steady = IF list = "users" THEN DOMAIN rows ELSE Selected

ListNext ==
    \/ ListCollections \/ ListLocations \/ AuditEvents \/ ListUsers
    \/ RowAppears \/ RowChanges

-----------------------------------------------------------------------------
\* Every variable has its type.
ListTypeOK ==
    /\ DOMAIN rows \subseteq ListIds /\ \A i \in DOMAIN rows : rows[i] \in BOOLEAN
    /\ cursor \in ListIds \cup {NoCursor} /\ open \in BOOLEAN
    /\ steady \subseteq ListIds

\* A walk never returns a row twice and never goes back, whatever is inserted, deleted or
\* changed between its pages; a client that is told of more rows has a cursor to get them.
ListedOnce ==
    /\ \A i, j \in 1..Len(seen) :
         i < j => IF list \in {"audit", "users"} THEN seen[i] > seen[j] ELSE seen[i] < seen[j]
    /\ open /\ seen # <<>> => cursor = Last(seen)

\* A walk that has ended has returned every row that was there all the time.  The list of
\* users keeps this promise only for limits within its range: outside, the page has the
\* default length while the handler compares it with the limit asked for.
WalkIsComplete ==
    ~open /\ (list = "users" => AskedFor \in 1..MaxLimit) =>
        \A i \in steady : \E j \in 1..Len(seen) : seen[j] = i

\* A walk through the pages of a list repeats nothing and misses nothing.
WalkIsSound == ListedOnce /\ WalkIsComplete
=============================================================================
