------------------------------ MODULE Listings ------------------------------
(***************************************************************************)
(* Reading a list page by page while rows are written: the handlers that   *)
(* answer with a PageDto, of any table, and the client that asks for the   *)
(* next page as long as PageMetaDto says there is one.                     *)
(*                                                                         *)
(* A row has a place: what the ORDER BY of the list sees of its columns.   *)
(* Rows of one place come in any order. A behaviour is about one list; its *)
(* writers are the handlers that insert, delete and change its rows.       *)
(***************************************************************************)
EXTENDS Handlers

CONSTANTS
    FirstRows,  \* rows at the start: 1..FirstRows
    MaxRow,     \* bound on the rows of a list
    LastPlace,  \* bound on the places
    Take        \* rows of a page

ASSUME ListingsAssumption ==
    /\ FirstRows \in Nat /\ MaxRow \in Nat /\ FirstRows <= MaxRow
    /\ LastPlace \in Nat \ {0} /\ Take \in Nat \ {0}

VARIABLES
    list,       \* the list that is read
    rows,       \* the rows in it
    place,      \* [1..MaxRow -> place of a row, 0 of none]
    shelf,      \* the answers kept in the cache, whether they are current
    walk,       \* [Requests -> the page to ask for, the rows seen, the total]
    fresh,      \* history: requests with no write since they fetched a page
    steady,     \* history: [Requests -> rows that did not come forward]
    still       \* history: [Requests -> rows that were not put back]

listingVars == <<list, rows, place, shelf, walk, fresh, steady, still>>

-----------------------------------------------------------------------------
(* A list is ordered by the time of creation ("created"), by columns that  *)
(* are written again ("value"), or not at all; its rows are counted after  *)
(* the page is fetched, in one list before, and in some never, as where    *)
(* only the head of a list is shown. Three lists answer from the cache.    *)
Sorted(by) == [by |-> by, counted |-> "after", paged |-> TRUE, cached |-> FALSE]
FromCache(by) == [Sorted(by) EXCEPT !.cached = TRUE]
HeadOf(by) == [Sorted(by) EXCEPT !.counted = "never"]
Whole == [Sorted("none") EXCEPT !.paged = FALSE]

GetAllUsers == Sorted("none")
FilterUsers == Sorted("none")
GetAllCandidate == [Sorted("value") EXCEPT !.counted = "before"]
GetAllCandidatesDashboard == Sorted("created")
GetAllJobs == Sorted("none")
GetAllJobsOrdered == Sorted("created")
GetFilterJobs == Sorted("none")
GetJobWishList == Sorted("none")
JobsOfEnterprise == FromCache("value")
FilteredJobs == FromCache("value")
SearchJobs == [Sorted("value") EXCEPT !.paged = FALSE]
FindAllEnterprises == FromCache("created")
GetPendingStatusEnterprises == Sorted("created")
FindPrimaryCategories == Sorted("created")
FindPrimaryCategoriesEnterprise == Sorted("created")
FindChildren == HeadOf("created")
FindAllTags == Sorted("value")
FindAllAddresses == Sorted("created")
FindAllWebsites == Sorted("none")
GetAppliedJobByProfileId == Sorted("created")
GetNotifications == Sorted("created")
ListCandidatesApplyJob == HeadOf("none")
ListCandidateApplyDashboard == Whole
FindAllCategories == Whole
FindByName == Whole
FindByProfileId == Whole
FindByEnterpriseId == Whole
GetOverviewEnterprises == HeadOf("none")
GetJobHomePage == HeadOf("value")
GetTopAppliedJobs == HeadOf("value")
GetJobByIdEnterprise == HeadOf("created")
FindChildrenHomePage == HeadOf("created")
FindParentCategories == HeadOf("created")

Lists == {
    GetAllUsers, FilterUsers, GetAllCandidate, GetAllCandidatesDashboard, GetAllJobs,
    GetAllJobsOrdered, GetFilterJobs, GetJobWishList, JobsOfEnterprise, FilteredJobs, SearchJobs,
    FindAllEnterprises, GetPendingStatusEnterprises, FindPrimaryCategories,
    FindPrimaryCategoriesEnterprise, FindChildren, FindAllTags, FindAllAddresses, FindAllWebsites,
    GetAppliedJobByProfileId, GetNotifications, ListCandidatesApplyJob,
    ListCandidateApplyDashboard, FindAllCategories, FindByName, FindByProfileId,
    FindByEnterpriseId, GetOverviewEnterprises, GetJobHomePage, GetTopAppliedJobs,
    GetJobByIdEnterprise, FindChildrenHomePage, FindParentCategories}

-----------------------------------------------------------------------------
(* PaginationDto.skip and PageMetaDto.                                     *)
MutSkip(page) == page * Take
Skip(page) == (page - 1) * Take
PageCount(items) == (items + Take - 1) \div Take
HasNextPage(page, items) == page < PageCount(items)

(* The rows of R up to a place; where a row comes, and whether alone.      *)
UpTo(R, n) == Cardinality({y \in R : place[y] <= n})
Rank(x) == UpTo(rows, place[x])
Alone(x) == \A y \in rows : place[y] = place[x] => y = x

(* Of the first m rows of the list, how many are on a page.                *)
Within(page, m) ==
    IF m <= Skip(page) THEN 0 ELSE IF m - Skip(page) < Take THEN m - Skip(page) ELSE Take

(* The pages the query may answer: rows of one place, all of them where    *)
(* nothing orders the list, may come in a different order each time.       *)
PagesOf(R, page) ==
    IF ~list.paged THEN {R}
    ELSE {P \in SUBSET R : \A n \in 0..LastPlace : UpTo(P, n) = Within(page, UpTo(R, n))}

Unasked == [page |-> 1, pages |-> <<>>, total |-> 0]

(* Rows are numbered by their first places.                                *)
Together == [x \in 1..MaxRow |-> IF x <= FirstRows THEN 1 ELSE 0]
FirstPlaces ==
    {p \in [1..MaxRow -> 0..LastPlace] :
        /\ \A x \in 1..MaxRow : p[x] = 0 <=> x > FirstRows
        /\ \A x, y \in 1..FirstRows : x <= y => p[x] <= p[y]}

(* Who deletes answers from the cache has to do with the lists it keeps.   *)
ListingInit ==
    /\ list \in (IF Takes("walk") THEN {l \in Lists : l.cached <=> Takes("clearList")} ELSE {GetAllUsers})
    /\ rows = 1..FirstRows
    /\ place \in (IF list.by = "none" THEN {Together} ELSE FirstPlaces)
    /\ shelf = {} /\ fresh = {}
    /\ walk = [r \in Requests |-> Unasked]
    /\ steady = [r \in Requests |-> {}]
    /\ still = [r \in Requests |-> {}]

(* A page is fetched and its rows are counted by statements of their own.  *)
FirstStep == IF list.cached THEN "lookup" ELSE IF list.counted = "before" THEN "count" ELSE "fetch"

WalkStart(r) ==
    /\ Starts(r, "walk", FirstStep)
    /\ LET alone == {x \in rows : Alone(x)}
       IN  steady' = [steady EXCEPT ![r] = alone] /\ still' = [still EXCEPT ![r] = alone]
    /\ UNCHANGED <<list, rows, place, shelf, walk, fresh>>

(* The client turns the page if the metadata it is given has a next one.   *)
Turns(r, w) ==
    IF list.paged /\ HasNextPage(w.page, w.total)
    THEN /\ Moves(r, pc[r], FirstStep)
         /\ walk' = [walk EXCEPT ![r] = [w EXCEPT !.page = @ + 1]]
    ELSE Ends(r, "done") /\ walk' = [walk EXCEPT ![r] = w]

(* A page and its total that the cache kept are answered as they were.     *)
WalkCached(r) ==
    /\ pc[r] = "lookup"
    /\ \E e \in shelf :
          /\ e.page = walk[r].page
          /\ Turns(r, [walk[r] EXCEPT !.pages = Append(@, e.rows), !.total = e.total])
          /\ steady' = IF e.current THEN steady ELSE [steady EXCEPT ![r] = {}]
          /\ still' = IF e.current THEN still ELSE [still EXCEPT ![r] = {}]
    /\ UNCHANGED <<list, rows, place, shelf, fresh>>

WalkMiss(r) ==
    /\ \A e \in shelf : e.page # walk[r].page
    /\ Moves(r, "lookup", "fetch")
    /\ UNCHANGED listingVars

WalkFetch(r) ==
    /\ pc[r] = "fetch"
    /\ fresh' = fresh \cup {r}
    /\ \E P \in PagesOf(rows, walk[r].page) :
          LET w == [walk[r] EXCEPT !.pages = Append(@, P)]
          IN  IF list.counted = "before" THEN Turns(r, w)
              ELSE Moves(r, "fetch", "count") /\ walk' = [walk EXCEPT ![r] = w]
    /\ UNCHANGED <<list, rows, place, shelf, steady, still>>

WalkCount(r) ==
    /\ pc[r] = "count"
    /\ LET w == [walk[r] EXCEPT !.total = IF list.counted = "never" THEN 0 ELSE Cardinality(rows)]
       IN  IF list.counted = "before" \/ list.cached
           THEN /\ Moves(r, "count", IF list.cached THEN "fill" ELSE "fetch")
                /\ walk' = [walk EXCEPT ![r] = w]
           ELSE Turns(r, w)
    /\ UNCHANGED <<list, rows, place, shelf, fresh, steady, still>>

WalkFill(r) ==
    /\ pc[r] = "fill"
    /\ LET w == walk[r]
       IN  /\ shelf' = {e \in shelf : e.page # w.page}
                           \cup {[page |-> w.page, rows |-> w.pages[Len(w.pages)],
                                  total |-> w.total, current |-> r \in fresh]}
           /\ Turns(r, w)
    /\ UNCHANGED <<list, rows, place, fresh, steady, still>>

(* What a write does to what was read before it, by a walk that goes on.   *)
Outdates ==
    /\ fresh' = {}
    /\ shelf' = {[e EXCEPT !.current = FALSE] : e \in shelf}
    /\ steady' = [r \in Requests |->
           {x \in steady[r] \cap rows' :
               /\ Live(r) /\ Alone(x)' /\ Rank(x)' >= Rank(x)
               /\ list.counted = "before" => Rank(x)' = Rank(x)}]
    /\ still' = [r \in Requests |->
           {x \in still[r] \cap rows' : Live(r) /\ Alone(x)' /\ Rank(x)' <= Rank(x)}]
    /\ UNCHANGED <<list, walk>>

Places == IF list.by = "none" THEN {1} ELSE 1..LastPlace

(* A statement writes any rows, and gives all of them the same value.      *)
AddRows(r) ==
    /\ MayRun(r, "addRows")
    /\ Ends(r, "done")
    /\ \E X \in (SUBSET (1..MaxRow \ rows)) \ {{}}, n \in Places :
          /\ rows' = rows \cup X
          /\ place' = [x \in 1..MaxRow |-> IF x \in X THEN n ELSE place[x]]
    /\ Outdates

RemoveRows(r) ==
    /\ MayRun(r, "removeRows")
    /\ Ends(r, "done")
    /\ \E X \in (SUBSET rows) \ {{}} :
          /\ rows' = rows \ X
          /\ place' = [x \in 1..MaxRow |-> IF x \in X THEN 0 ELSE place[x]]
    /\ Outdates

MoveRows(r) ==
    /\ MayRun(r, "moveRows") /\ list.by = "value"
    /\ Ends(r, "done")
    /\ \E X \in (SUBSET rows) \ {{}}, n \in Places :
          place' = [x \in 1..MaxRow |-> IF x \in X THEN n ELSE place[x]]
    /\ rows' = rows
    /\ Outdates

(* Answers are deleted by their prefix, and in time one by one.            *)
ClearList(r) ==
    /\ MayRun(r, "clearList")
    /\ Ends(r, "done")
    /\ shelf' \in SUBSET shelf
    /\ UNCHANGED <<list, rows, place, walk, fresh, steady, still>>

ListingSteps(r) ==
    \/ WalkStart(r) \/ WalkCached(r) \/ WalkMiss(r) \/ WalkFetch(r) \/ WalkCount(r) \/ WalkFill(r)
    \/ AddRows(r) \/ RemoveRows(r) \/ MoveRows(r) \/ ClearList(r)

-----------------------------------------------------------------------------
ListingTypeOK ==
    /\ rows \subseteq 1..MaxRow
    /\ place \in [1..MaxRow -> 0..LastPlace]
    /\ \A e \in shelf : e.page \in 1..(MaxRow + 1) /\ e.rows \subseteq 1..MaxRow /\ e.total \in 0..MaxRow
    /\ \A r \in Requests : walk[r].page \in 1..(MaxRow + 1) /\ walk[r].total \in 0..MaxRow
    /\ \A r \in Requests : \A i \in DOMAIN walk[r].pages : walk[r].pages[i] \subseteq 1..MaxRow

Times(r, x) == Cardinality({i \in DOMAIN walk[r].pages : x \in walk[r].pages[i]})

(* What paging by offset promises where rows are counted. A client that    *)
(* follows hasNextPage is shown every row that had a place of its own and  *)
(* that no write moved forward, by a deletion or a move of rows - or moved *)
(* at all, where rows are counted first; and it is shown none twice that   *)
(* no write put back. Answers of the cache keep both if no row was written *)
(* since they were fetched.                                                *)
WalkComplete ==
    \A r \in Requests :
       (pc[r] = "done" /\ walk[r].pages # <<>> /\ list.paged /\ list.counted # "never")
          => /\ \A x \in steady[r] : Times(r, x) > 0
             /\ \A x \in still[r] : Times(r, x) <= 1
=============================================================================
