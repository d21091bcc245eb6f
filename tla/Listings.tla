------------------------------ MODULE Listings -------------------------------
(***************************************************************************)
(* Listings read page by page while rows are inserted and change status:   *)
(* orders by cursor, and orders, transactions, markets and merchants by    *)
(* page number, where the rows are counted by a statement of their own.    *)
(* A row is its id, its immutable created_at and its status.               *)
(***************************************************************************)
EXTENDS Naturals, FiniteSets

CONSTANTS RowIds,      \* ids, as they are ordered
          Stamps,      \* created_at, from the clocks of the replicas
          PageLimit,
          MaxPage,
          Absent        \* a row that is not inserted yet, and no cursor

ASSUME ListingsAssumption ==
    /\ RowIds \subseteq Nat
    /\ Stamps \subseteq Nat
    /\ Absent \notin RowIds
    /\ Absent \notin [stamp : Stamps, status : {"open", "closed"}]
    /\ PageLimit \in Nat \ {0}
    /\ MaxPage \in Nat \ {0}

VARIABLES table,    \* the table that is listed
          reader    \* the client that follows the pages, and what it has seen

listingVars == <<table, reader>>

RowStatuses == {"open", "closed"}
AnyStatus == "any"
Filters == RowStatuses \cup {AnyStatus}

\* A listing that nobody reads yet.
Unread == [how |-> "none", filter |-> AnyStatus, step |-> "none",
           page |-> 0, cursor |-> Absent, total |-> 0,
           standing |-> {}, seen |-> {},
           repeated |-> FALSE, shrunk |-> FALSE, grown |-> FALSE]

ListingInit == table = [i \in RowIds |-> Absent] /\ reader = Unread

Listed == {i \in RowIds : table[i] # Absent}
Matches(i, filter) == filter = AnyStatus \/ table[i].status = filter
Matched(filter) == {i \in Listed : Matches(i, filter)}

-----------------------------------------------------------------------------
(* The listings: how they are sorted, whether they count, their filters    *)

\* Orders and markets are listed by status or not, the transactions of a
\* wallet and the merchants only in full.
OrderFilters == Filters
MarketFilters == Filters
TransactionFilters == {AnyStatus}
MerchantFilters == {AnyStatus}

OrdersByCursor == [sort |-> "latest id first", counts |-> FALSE, filters |-> OrderFilters]
OrdersByPage == [sort |-> "latest", counts |-> TRUE, filters |-> OrderFilters]
TransactionsByPage == [sort |-> "latest", counts |-> TRUE, filters |-> TransactionFilters]
MarketsByPage == [sort |-> "latest", counts |-> TRUE, filters |-> MarketFilters]
MerchantsByPage == [sort |-> "oldest", counts |-> FALSE, filters |-> MerchantFilters]

Listing == [orders |-> OrdersByPage, cursor |-> OrdersByCursor,
            transactions |-> TransactionsByPage,
            markets |-> MarketsByPage, merchants |-> MerchantsByPage]

Kind == Listing[reader.how]

\* ORDER BY created_at DESC, id; created_at DESC, id DESC; created_at, id.
Before(i, j) ==
    LET s == table[i].stamp  t == table[j].stamp
    IN  CASE Kind.sort = "latest" -> s > t \/ (s = t /\ i < j)
          [] Kind.sort = "latest id first" -> s > t \/ (s = t /\ i > j)
          [] Kind.sort = "oldest" -> s < t \/ (s = t /\ i < j)

\* The rows at the positions after the first n of a sorted result.
RowsAfter(S, n) ==
    {i \in S : Cardinality({j \in S : Before(j, i)}) \in n .. (n + PageLimit - 1)}

-----------------------------------------------------------------------------
(* The table                                                               *)

\* The stamp is taken when the call starts: rows become visible out of order.
AddRow ==
    /\ \E i \in RowIds, t \in Stamps :
        /\ table[i] = Absent
        /\ table' = [table EXCEPT ![i] = [stamp |-> t, status |-> "open"]]
    /\ reader' = IF reader.step = "counted" THEN [reader EXCEPT !.grown = TRUE]
                 ELSE reader

\* An order or a market that closes leaves and enters listings by status.
CloseRow ==
    /\ \E i \in Matched("open") :
        /\ table' = [table EXCEPT ![i].status = "closed"]
        /\ reader' = [reader EXCEPT
                !.shrunk = @ \/ reader.filter = "open",
                !.grown = @ \/ (reader.step = "counted" /\ reader.filter = "closed"),
                !.standing = IF reader.filter = "open" THEN @ \ {i} ELSE @]

-----------------------------------------------------------------------------
(* The reader                                                              *)

\* The first request; its client wants everything that is there by now.
StartListing(how, filter) ==
    /\ reader = Unread
    /\ filter \in Listing[how].filters
    /\ reader' = [Unread EXCEPT !.how = how, !.filter = filter, !.step = "request",
                                !.page = 1, !.standing = Matched(filter)]
    /\ UNCHANGED table

\* normalizePagination refuses deep pages.
PageRefused ==
    /\ reader.step = "request"
    /\ reader.page > MaxPage
    /\ reader' = [reader EXCEPT !.step = "refused"]
    /\ UNCHANGED table

CountRows ==
    /\ reader.step = "request"
    /\ Kind.counts
    /\ reader.page <= MaxPage
    /\ reader' = [reader EXCEPT !.step = "counted", !.grown = FALSE,
                                !.total = Cardinality(Matched(reader.filter))]
    /\ UNCHANGED table

\* What a page adds, and the request for the next one.
Reads(page, last, next) ==
    /\ reader' = [next EXCEPT !.step = IF last THEN "read" ELSE "request",
                              !.seen = @ \cup page,
                              !.repeated = @ \/ page \cap reader.seen # {}]
    /\ UNCHANGED table

NextPageNumber == [reader EXCEPT !.page = @ + 1]

\* has_next: the page that was asked for is not the last of those counted.
LastOfCounted == reader.page * PageLimit >= reader.total

\* Merchants come without a total: a client stops at a page that is not full.
ShortPage(page) == Cardinality(page) < PageLimit

LastPage(page) == IF Kind.counts THEN LastOfCounted ELSE ShortPage(page)

\* A mutant: the first page is page 0.
OffsetByPage ==
    /\ reader.step = IF Kind.counts THEN "counted" ELSE "request"
    /\ reader.how # "cursor"
    /\ reader.page <= MaxPage
    /\ LET page == RowsAfter(Matched(reader.filter), reader.page * PageLimit)
       IN  Reads(page, LastPage(page), NextPageNumber)

\* LIMIT and OFFSET.
SelectPage ==
    /\ reader.step = IF Kind.counts THEN "counted" ELSE "request"
    /\ reader.how # "cursor"
    /\ reader.page <= MaxPage
    /\ LET page == RowsAfter(Matched(reader.filter), (reader.page - 1) * PageLimit)
       IN  Reads(page, LastPage(page), NextPageNumber)

\* A mutant: only created_at is compared.
OlderThanCursor(i) == \/ reader.cursor = Absent
                      \/ table[i].stamp <= table[reader.cursor].stamp

afterCursor(i) == reader.cursor = Absent \/ Before(reader.cursor, i)

\* One row more than the page tells whether there is a next one; the cursor
\* is the created_at and the id of the page's last row.
ListAfter ==
    /\ reader.step = "request"
    /\ reader.how = "cursor"
    /\ LET rest == {i \in Matched(reader.filter) : afterCursor(i)}
           page == RowsAfter(rest, 0)
           lastRow == CHOOSE i \in page : \A j \in page \ {i} : Before(j, i)
           last == Cardinality(rest) <= PageLimit
       IN  Reads(page, last, IF last THEN reader ELSE [reader EXCEPT !.cursor = lastRow])

ListingNext ==
    \/ AddRow
    \/ CloseRow
    \/ \E how \in DOMAIN Listing : \E filter \in Filters : StartListing(how, filter)
    \/ PageRefused
    \/ CountRows
    \/ reader.how # "none" /\ (SelectPage \/ ListAfter)

ListingSpec == ListingInit /\ [][ListingNext]_listingVars

-----------------------------------------------------------------------------
\* Rows are inserted out of order and change status between two pages.  A
\* client that follows the pages to the end has still seen every row that
\* matched from beginning to end, by cursor always.  By page number it has
\* unless a row left the filter meanwhile, which moves the others up, or rows
\* came in between the last count and its page, which no has_next announces.
ListedInFull ==
    reader.step = "read" /\ (reader.how = "cursor" \/ ~(reader.shrunk \/ reader.grown))
        => reader.standing \subseteq reader.seen

\* Inserted rows push what was listed onto the next page number, so a row may
\* be listed again there; a cursor never returns a row twice, though stamps
\* are not unique (internal/order/order.go:290).
CursorNeverRepeats == reader.how = "cursor" => ~reader.repeated
=============================================================================
