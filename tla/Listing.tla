------------------------------- MODULE Listing -------------------------------
(***************************************************************************)
(* A screen that shows a list a page at a time: the customer's payment     *)
(* history (web-v5/src/screens/History.tsx over GET                        *)
(* /v5/billing/transactions), the operator's ledger and send log           *)
(* (Operator.tsx, ReportsPanel, over GET /v5/admin/reports/ledger and      *)
(* sends); and those that show a first page and no more: the customer's    *)
(* campaigns (dashboard/src/screens/CampaignsScreen.tsx) and the           *)
(* operator's, on the dashboard (OperatorScreen.tsx) and the web panel.    *)
(*                                                                         *)
(* The server keeps no walk: a page is what follows the cursor now, in the *)
(* order newest first and by id within a second.  The screen's requests    *)
(* are answered and applied in any order; rows are added and settled       *)
(* meanwhile.                                                              *)
(***************************************************************************)
EXTENDS Integers, FiniteSets, SequencesExt

CONSTANTS
    RowId,      \* row ids, integers: the order in which a second's rows are listed
    Tag,        \* what a filter selects by: a status, or an app
    Settled,    \* the statuses a row may change to
    PageSize,
    LastSecond, \* bound: the clock
    Fetch,      \* requests of the screen under way
    Empty       \* no row, cursor or request

Filter == Tag \union {"all"}

\* What a cursor says, and a row of the table.
Cursor == [time : Nat, id : RowId]
Stored == [time : Nat, tag : Tag]

\* A page with the cursor of the next, and a request.  on: the rows on the screen when a
\* page of a report was asked for.
PageReply == [rows : Seq(RowId), next : Cursor \union {Empty}]
PageRequest == [first : BOOLEAN, filter : Filter, from : Cursor \union {Empty},
                on : Seq(RowId), reply : PageReply \union {Empty}]

ASSUME ListingAssumption ==
    /\ RowId \subseteq Nat /\ PageSize \in Nat \ {0} /\ LastSecond \in Nat
    /\ Settled \subseteq Tag
    /\ Empty \notin Filter \union Cursor \union Stored \union PageReply \union PageRequest

VARIABLES
    second,     \* the server's clock
    row,        \* the table: a row's second and tag
    screen,     \* which screen is open
    filter,     \* the filter the user has chosen; Empty: nothing loaded yet
    shown,      \* the rows on the screen, as they were sent
    cursor,     \* nextCursor
    loading,    \* whether the button is disabled
    asked,      \* the requests under way, with their reply once there is one
    began,      \* rows the filter selected when the first page was made
    overlapped     \* whether requests have overlapped since the filter was chosen

tableVars == <<second, row>>
screenVars == <<screen, filter, shown, cursor, loading, asked, began, overlapped>>
listingVars == <<tableVars, screenVars>>

Pages     == {"history", "ledger", "sends"}
Oversight == {"section", "panel"}
Screens   == Pages \union {"campaigns"} \union Oversight
Selects(f, r) == row[r] # Empty /\ f \in {"all", row[r].tag}

\* ORDER BY time DESC, id ASC.
Before(a, b) == a.time > b.time \/ (a.time = b.time /\ a.id < b.id)
SortKey(r) == [time |-> row[r].time, id |-> r]

ListingInit ==
    /\ second = 0
    /\ row = [r \in RowId |-> Empty]
    /\ screen \in Screens
    /\ filter = Empty
    /\ shown = <<>>
    /\ cursor = Empty
    /\ loading = FALSE
    /\ asked = [q \in Fetch |-> Empty]
    /\ began = {}
    /\ overlapped = FALSE

-----------------------------------------------------------------------------

Passes ==
    /\ second < LastSecond /\ second' = second + 1
    /\ UNCHANGED <<row, screenVars>>

\* A row is added, with an id that says nothing of its age.  The ledger's row of a
\* day's messages bears the time the day began.
Adds(r, tag, time) ==
    /\ row[r] = Empty
    /\ screen # "ledger" => time = second
    /\ row' = [row EXCEPT ![r] = [time |-> time, tag |-> tag]]
    /\ UNCHANGED <<second, screenVars>>

\* A pending payment is approved or rejected, a campaign ends.  The ledger's rows are
\* settled, and it and the send log select by app.
Settles(r, tag) ==
    /\ screen \notin {"ledger", "sends"}
    /\ row[r] # Empty /\ row[r].tag \notin Settled
    /\ row' = [row EXCEPT ![r].tag = tag]
    /\ UNCHANGED <<second, screenVars>>

-----------------------------------------------------------------------------
(* The routes                                                               *)

Kept(f) == {r \in RowId : Selects(f, r)}

\* A set as a sequence, each element behind as many as are before it.
InOrder(S, precedes) ==
    [n \in 1..Cardinality(S) |->
        CHOOSE x \in S : Cardinality({y \in S : <<y, x>> \in precedes}) = n - 1]

Ordered(S) == InOrder(S, {p \in S \X S : Before(SortKey(p[1]), SortKey(p[2]))})

\* What is left of a list in the order it had.
Filtered(all, S) ==
    LET at == {i \in DOMAIN all : all[i] \in S}
        places == InOrder(at, {p \in at \X at : p[1] < p[2]})
    IN  [n \in DOMAIN places |-> all[places[n]]]

\* One page, and the cursor of the next if there is more.
Cut(all) ==
    [rows |-> SubSeq(all, 1, IF Len(all) < PageSize THEN Len(all) ELSE PageSize),
     next |-> IF Len(all) > PageSize THEN SortKey(all[PageSize]) ELSE Empty]

\* Mutant: the cursor is a time alone, and skips the rest of its second.
FollowsLater(from) == {r \in RowId : row[r] # Empty /\ (from = Empty \/ row[r].time < from.time)}

\* WHERE time < ? OR (time = ? AND id > ?)
Follows(from) == {r \in RowId : row[r] # Empty /\ (from = Empty \/ Before(from, SortKey(r)))}

TransactionPage(f, from) == Cut(Ordered(Kept(f) \intersect Follows(from)))

\* The ledger is three tables, merged before the cursor is looked for.
LedgerPage(f, from) == Cut(Filtered(Ordered(Kept(f)), Follows(from)))

SendPage(f, from) == Cut(Ordered(Kept(f) \intersect Follows(from)))

\* GET bulk/campaigns and admin/campaigns, which their screens ask with no cursor.
CampaignPage(f)  == Cut(Ordered(Kept(f)))
OversightPage(f) == Cut(Ordered(Kept(f)))

Page(f, from) ==
    CASE screen = "history" -> TransactionPage(f, from)
      [] screen = "ledger" -> LedgerPage(f, from)
      [] screen = "sends" -> SendPage(f, from)
      [] screen = "campaigns" -> CampaignPage(f)
      [] screen \in Oversight -> OversightPage(f)

-----------------------------------------------------------------------------
(* The screens                                                              *)

Asking(q, first, from, on) ==
    /\ asked[q] = Empty
    /\ asked' = [asked EXCEPT ![q] =
                   [first |-> first, filter |-> filter', from |-> from, on |-> on, reply |-> Empty]]
    /\ loading' = (screen = "history")
    /\ overlapped' = IF \A p \in Fetch : asked[p] = Empty THEN ~first /\ overlapped ELSE TRUE

\* Asks when the choice changes, of everything at first.
Rechosen(f) == f # filter /\ (filter = Empty => f = "all")

HistoryLoad(f)      == screen = "history" /\ Rechosen(f)
LoadLedger          == screen = "ledger"     \* at each press
LoadSend            == screen = "sends"
OversightSection(f) == screen = "section" /\ Rechosen(f)
CampaignsPanel(f)   == screen = "panel" /\ Rechosen(f)

\* As well after a campaign is created, paused, resumed or cancelled.
CampaignsReload(f) == screen = "campaigns" /\ (filter = Empty => f = "all")

\* A filter is chosen, or the screen opens: the first page is asked for.
Choose(q, f) ==
    /\ \/ HistoryLoad(f) \/ LoadLedger \/ LoadSend
       \/ CampaignsReload(f) \/ OversightSection(f) \/ CampaignsPanel(f)
    /\ filter' = f
    /\ Asking(q, TRUE, Empty, <<>>)
    /\ UNCHANGED <<tableVars, screen, shown, cursor, began>>

\* "Load more" is there while more is: the history's waits for what is loading.
HistoryView == screen = "history" /\ cursor # Empty /\ ~loading
LedgerView  == screen = "ledger" /\ cursor # Empty
SendView    == screen = "sends" /\ cursor # Empty

HistoryMore(q) == HistoryView /\ Asking(q, FALSE, cursor, <<>>)
MoreLedger(q)  == LedgerView /\ Asking(q, FALSE, cursor, shown)
MoreSend(q)    == SendView /\ Asking(q, FALSE, cursor, shown)

More(q) ==
    /\ filter' = filter
    /\ HistoryMore(q) \/ MoreLedger(q) \/ MoreSend(q)
    /\ UNCHANGED <<tableVars, screen, shown, cursor, began>>

\* The server answers.
Lists(q) ==
    /\ asked[q] # Empty /\ asked[q].reply = Empty
    /\ asked' = [asked EXCEPT ![q].reply = Page(asked[q].filter, asked[q].from)]
    /\ began' = IF asked[q].first THEN {r \in RowId : Selects(asked[q].filter, r)} ELSE began
    /\ UNCHANGED <<tableVars, screen, filter, shown, cursor, loading, overlapped>>

\* The history adds a page to what it shows now, a report to what it showed when the
\* button was pressed.
HistoryShows(a) == IF a.first THEN a.reply.rows ELSE shown \o a.reply.rows
ReportShows(a)  == a.on \o a.reply.rows

\* A list of campaigns has no use for the cursor.
CampaignsShow(a) == a.reply.rows

\* The reply reaches the screen.
Applied(q) ==
    /\ asked[q] # Empty /\ asked[q].reply # Empty
    /\ shown' = CASE screen = "history" -> HistoryShows(asked[q])
                  [] screen \in {"ledger", "sends"} -> ReportShows(asked[q])
                  [] OTHER -> CampaignsShow(asked[q])
    /\ cursor' = asked[q].reply.next
    /\ loading' = FALSE
    /\ asked' = [asked EXCEPT ![q] = Empty]
    /\ UNCHANGED <<tableVars, screen, filter, began, overlapped>>

\* The request, or its reply, is lost: an error is shown, and nothing else changes.
Unanswered(q) ==
    /\ asked[q] # Empty
    /\ asked' = [asked EXCEPT ![q] = Empty]
    /\ loading' = FALSE
    /\ overlapped' = (overlapped \/ asked[q].first)
    /\ UNCHANGED <<tableVars, screen, filter, shown, cursor, began>>

ListingNext ==
    \/ Passes
    \/ \E r \in RowId, tag \in Tag, time \in 0..second : Adds(r, tag, time)
    \/ \E r \in RowId, tag \in Settled : Settles(r, tag)
    \/ \E q \in Fetch :
          \/ \E f \in Filter : Choose(q, f)
          \/ More(q) \/ Lists(q) \/ Applied(q) \/ Unanswered(q)

ListingSpec == ListingInit /\ [][ListingNext]_listingVars

-----------------------------------------------------------------------------

Quiet == filter # Empty /\ ~overlapped /\ \A q \in Fetch : asked[q] = Empty

\* Pages neither repeat nor drop a row: of the rows that were listed when the first
\* page was made and still are, the screen shows all down to its cursor, each once
\* and in order, though rows are added and settled between the pages, within the
\* same second too (billing.ts:206-211, admin-reports.ts:248-260, 403).  This is while
\* one request is under way at a time.
PagesAreLossless ==
    Quiet =>
        /\ \A i, k \in DOMAIN shown : i < k => Before(SortKey(shown[i]), SortKey(shown[k]))
        /\ \A r \in began :
              Selects(filter, r) /\ (cursor = Empty \/ r \notin Follows(cursor))
              => \E i \in DOMAIN shown : shown[i] = r
=============================================================================
