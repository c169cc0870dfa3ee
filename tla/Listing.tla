------------------------------- MODULE Listing -------------------------------
(***************************************************************************)
(* The six findAll queries: a filtered table, newest first, cut into pages *)
(* by offset.  A client walks through the pages, one request each, while   *)
(* rows come and go; every page is cut from the table as it is then, and   *)
(* rows created at the same time come in any order each time.              *)
(***************************************************************************)
EXTENDS Integers, FiniteSets, SequencesExt

CONSTANTS
    Row,       \* rows of the table that is listed
    MaxTime,   \* the last created_at: a bound for the checker
    Limits     \* page sizes that clients ask for

ASSUME ListingAssumption ==
    IsFiniteSet(Row) /\ MaxTime \in Nat /\ Limits \subseteq Nat

VARIABLES
    created,   \* created_at of each row, 0 while there is no row
    selected,  \* the rows that the filters let through
    query,     \* the table, the filters and the page size of the walk
    page,      \* the page it fetches next, 0 before and after it
    seen,      \* rows on the pages so far
    wanted,    \* rows that were selected when it began
    shifted    \* history: has a row left the selection since then?

listingVars == <<created, selected, query, page, seen, wanted, shifted>>

-----------------------------------------------------------------------------
(* The filters of each list. *)
ListUsersQuery == {"search", "role", "isActive"}
ListTenantsQuery == {"search", "status", "planType"}
ListInvoicesQuery == {"tenantId", "status", "billingPeriod"}
ListPosDevicesQuery == {"tenantId", "status"}
ListNotificationsQuery == {"tenantId", "status", "type"}
ListAuditLogsQuery == {"actorId", "tenantId", "action", "dateFrom", "dateTo"}

(* What each query filters by, which of those columns change during the    *)
(* life of a row, and whether rows are ever removed.                       *)
FindAllUsers == [filters |-> ListUsersQuery,
                 changing |-> {"search", "role", "isActive"}, removable |-> TRUE]
FindAllTenants == [filters |-> ListTenantsQuery,
                   changing |-> {"search", "status", "planType"}, removable |-> TRUE]
FindAllInvoices == [filters |-> ListInvoicesQuery,
                    changing |-> {"status"}, removable |-> FALSE]
FindAllPosDevices == [filters |-> ListPosDevicesQuery,
                      changing |-> {"status"}, removable |-> TRUE]
FindAllNotifications == [filters |-> ListNotificationsQuery,
                         changing |-> {"status"}, removable |-> FALSE]
FindAllAuditLogs == [filters |-> ListAuditLogsQuery,
                     changing |-> {}, removable |-> FALSE]

Tables == {FindAllUsers, FindAllTenants, FindAllInvoices, FindAllPosDevices,
           FindAllNotifications, FindAllAuditLogs}

(* Queries by all filters or by none: what matters is whether one of their *)
(* columns changes.                                                        *)
Queries ==
    UNION {{[table |-> t, by |-> f, limit |-> n] :
              f \in {{}, t.filters}, n \in Limits} : t \in Tables}

ListingInit ==
    /\ created \in [Row -> 0..MaxTime]
    /\ selected = {r \in Row : created[r] # 0}
    /\ query \in Queries
    /\ page = 0
    /\ seen = {}
    /\ wanted = {}
    /\ shifted = FALSE

-----------------------------------------------------------------------------
Exist(r) == created[r] # 0

Changing == query.by \cap query.table.changing # {}

PageSize(n) == LET size == IF n > 0 THEN n ELSE 10
               IN IF size > 100 THEN 100 ELSE size

(* Mutant: pages are counted from zero. *)
OffsetFromZero(p, n) == p * PageSize(n)

Offset(p, n) == (p - 1) * PageSize(n)

TotalPages(total, n) == (total + PageSize(n) - 1) \div PageSize(n)

(* ORDER BY created_at DESC. *)
Ordered == {q \in SetToSeqs(selected) :
              \A i, j \in DOMAIN q : i < j => created[q[i]] >= created[q[j]]}

(* A walk begins, with the first page. *)
StartWalk ==
    /\ page = 0
    /\ seen = {}
    /\ page' = 1
    /\ wanted' = selected
    /\ UNCHANGED <<created, selected, query, seen, shifted>>

Fetch(q) ==
    LET offset == Offset(page, query.limit)
        items == {q[i] : i \in {i \in DOMAIN q :
                    offset < i /\ i <= offset + PageSize(query.limit)}}
    IN /\ page > 0
       /\ seen' = seen \cup items
       /\ page' = IF page < TotalPages(Len(q), query.limit) THEN page + 1 ELSE 0
       /\ UNCHANGED <<created, selected, query, wanted, shifted>>

(* A row is inserted.  Its created_at is when its transaction began, which *)
(* need not be after that of a row that was visible before.                *)
Insert(r, time) ==
    /\ ~Exist(r)
    /\ created' = [created EXCEPT ![r] = time]
    /\ selected' = selected \cup {r}
    /\ UNCHANGED <<query, page, seen, wanted, shifted>>

(* A row changes so that the filters let it through. *)
Join(r) ==
    /\ Exist(r)
    /\ Changing
    /\ selected' = selected \cup {r}
    /\ UNCHANGED <<created, query, page, seen, wanted, shifted>>

(* A row is removed, or changes so that they no longer do. *)
Leave(r) ==
    /\ r \in selected
    /\ Changing \/ query.table.removable
    /\ selected' = selected \ {r}
    /\ shifted' = (shifted \/ page > 0)
    /\ UNCHANGED <<created, query, page, seen, wanted>>

ListingNext ==
    \/ StartWalk
    \/ \E q \in Ordered : Fetch(q)
    \/ \E r \in Row : Join(r) \/ Leave(r) \/ (\E t \in 1..MaxTime : Insert(r, t))

ListingSpec == ListingInit /\ [][ListingNext]_listingVars

-----------------------------------------------------------------------------
(* A client that reads all pages while rows are inserted may see a row     *)
(* twice, but misses none that was there when it began, unless another was *)
(* created at the same time or a row has left the list meanwhile.  (None   *)
(* ever leaves the audit log.)                                             *)
WalkMissesNothing ==
    page = 0 /\ seen # {} /\ ~shifted =>
        \A r \in wanted :
            \/ r \in seen
            \/ \E s \in Row \ {r} : created[s] = created[r]
=============================================================================
