------------------------------- MODULE Treasury -------------------------------
(***************************************************************************)
(* The rows behind Ledger's sums: cash the officers book by hand, transfers *)
(* from the RW to an RT, money paid to an event and returned by it, and the *)
(* report (ReportService) that is read from wallets and rows while they     *)
(* change, and printed page by page.                                        *)
(***************************************************************************)
EXTENDS Ledger, Sequences, FiniteSets

CONSTANTS
    Slot,               \* handlers that can be in flight at once
    Amount,             \* amounts that are booked, transferred and paid
    MaxAmount,          \* no amount is higher
    MaxRows,            \* a bound on the log
    LastDay,            \* a bound on time
    PageTop, PageBottom,
    Slack,              \* how much deeper ensureSpace allows a table to reach
    TableStart,         \* where on a page the text before a table ends
    TransactionTable,   \* the measures of drawTransactionTable
    SummaryTable        \* those of the table "Ringkasan per Lingkungan"

\* What ensureSpace asks for, the title drawn after it, the header and the total;
\* and what a row may be: measured is the height it is given, name the one its
\* name needs (of the officer, or of the group) when it is wrapped.
TableMeasures == [space : Nat, title : Nat, header : Nat, total : Nat,
                  cells : SUBSET [measured : Nat, name : Nat]]

ASSUME TreasuryAssumption ==
    /\ User # {} /\ IsFiniteSet(User)
    /\ MaxAmount \in Nat /\ Amount \subseteq 1 .. MaxAmount
    /\ MaxRows \in Nat /\ LastDay \in Nat \ {0}
    /\ {PageTop, PageBottom, Slack} \subseteq Nat
    /\ TableStart \subseteq PageTop .. PageBottom
    /\ {TransactionTable, SummaryTable} \subseteq TableMeasures

VARIABLES
    log,        \* Seq(Row), the Transaction table
    day,
    call        \* [Slot -> Call], the handlers in flight

vars == <<ledgerVars, log, day, call>>

Day == 1 .. LastDay
TransactionType == {"CREDIT", "DEBIT"}
Entry == [group : Group, type : TransactionType, amount : Amount]
Row == [group : Group, type : TransactionType, amount : Amount, day : Day]

\* entries: the rows about to be written; user, groups, days: who asks for a
\* report, and about what; known: whose balances, shown, it has read so far; rows: the rows it has read.
Call == [pc : {"idle", "book", "read"}, user : User,
         entries : UNION {[1 .. n -> Entry] : n \in 0 .. 3},
         groups : SUBSET Group, days : SUBSET Day,
         known : SUBSET Group, shown : [Group -> Int], hasRows : BOOLEAN,
         rows : SUBSET (1 .. MaxRows)]
Idle == [pc |-> "idle", user |-> CHOOSE u \in User : TRUE, entries |-> <<>>, groups |-> {},
         days |-> {}, known |-> {}, shown |-> [g \in Group |-> 0], hasRows |-> FALSE,
         rows |-> {}]

\* Every row and local variable keeps its type.
TreasuryTypeOK ==
    /\ LedgerTypeOK
    /\ log \in Seq(Row) /\ Len(log) <= MaxRows
    /\ day \in Day
    /\ call \in [Slot -> Call]

Init == LedgerInit /\ log = <<>> /\ day = 1 /\ call = [s \in Slot |-> Idle]

-----------------------------------------------------------------------------
At(s, pc) == call[s].pc = pc
Start(s, c) == At(s, "idle") /\ call' = [call EXCEPT ![s] = c]
Finish(s) == call' = [call EXCEPT ![s] = Idle]

Home(u) == GroupOf[u]
Officers(g, roles) == {u \in User : Home(u) = g /\ RoleOf[u] \in roles}

\* Who books cash by hand.
Keepers(g) == Officers(g, {"TREASURER", "LEADER"})

\* Whose approval of an event of g can be the last one: the treasurer's, of the
\* parent where g has none, or the leader's of the parent.
Payers(g) ==
    Officers(ParentOf[g], {"LEADER"})
    \cup IF Officers(g, {"TREASURER"}) # {} THEN Officers(g, {"TREASURER"})
         ELSE Officers(ParentOf[g], {"TREASURER"})

\* Who decides on a request of g for extra funds.
Grantors(g) == Officers(ParentOf[g], {"TREASURER"})

EntryOf(g, type, a) == [group |-> g, type |-> type, amount |-> a]
Signed(row) == IF row.type = "CREDIT" THEN row.amount ELSE -row.amount
RowsOf(g, n) == {i \in 1 .. n : log[i].group = g}

\* What the first n of a list of rows add up to for the wallet of g.
Net(rows, g, n) ==
    SumFunctionOnSet([i \in 1 .. n |-> Signed(rows[i])], {i \in 1 .. n : rows[i].group = g})

\* Mutant: an expense of any amount is booked.
MayBookAny(g, type, a) == TRUE
\* Only what leaves a wallet is compared with its balance.
MayBook(g, type, a) == type = "DEBIT" => balance[g] >= a

\* A booking is compared and handed to its transaction.
StartBooking(s, entries) ==
    /\ Start(s, [Idle EXCEPT !.pc = "book", !.entries = entries])
    /\ UNCHANGED <<ledgerVars, log, day>>

\* createManualTransaction, up to its transaction.
Manual(s, g, type, a) ==
    /\ Keepers(g) # {} /\ MayBook(g, type, a)
    /\ StartBooking(s, <<EntryOf(g, type, a)>>)

\* disburseEventFund, on the last approval of an event of g.
PayEvent(s, g, a) ==
    /\ Payers(g) # {} /\ MayBook(g, "DEBIT", a)
    /\ StartBooking(s, <<EntryOf(g, "DEBIT", a)>>)

\* refundEventFund: cancelled, or less was spent.
RefundEvent(s, g, a) == StartBooking(s, <<EntryOf(g, "CREDIT", a)>>)

\* transferInterGroup, for a request that is not about an event.
Transfer(s, g, a) ==
    /\ Grantors(g) # {} /\ MayBook(ParentOf[g], "DEBIT", a)
    /\ StartBooking(s, <<EntryOf(ParentOf[g], "DEBIT", a), EntryOf(g, "CREDIT", a)>>)

\* transferAndDisburseForEvent, for one that is: through the wallet of g.
TransferToEvent(s, g, a) ==
    /\ Grantors(g) # {} /\ MayBook(ParentOf[g], "DEBIT", a)
    /\ StartBooking(s, <<EntryOf(ParentOf[g], "DEBIT", a), EntryOf(g, "CREDIT", a),
                         EntryOf(g, "DEBIT", a)>>)

\* The transaction of each: an increment or decrement and a row per entry.
Book(s) ==
    /\ At(s, "book") /\ Len(log) + Len(call[s].entries) <= MaxRows
    /\ LET new == call[s].entries
       IN  /\ CreditShares([g \in Group |-> Net(new, g, Len(new))])
           /\ log' = log \o [i \in DOMAIN new |-> [group |-> new[i].group, type |-> new[i].type,
                                                   amount |-> new[i].amount, day |-> day]]
    /\ Finish(s)
    /\ UNCHANGED day

DayPasses == day < LastDay /\ day' = day + 1 /\ UNCHANGED <<ledgerVars, log, call>>

-----------------------------------------------------------------------------
(* The report *)

Children(g) == {h \in Group : ParentOf[h] = g}

\* The groups a report may be about: residents get the summary of their RT
\* and its RW, administrators the details of their RT, leaders either.
Scopes(u) ==
    CASE RoleOf[u] = "RESIDENT" -> {{Home(u)} \cup ({ParentOf[Home(u)]} \ {NoGroup})}
      [] RoleOf[u] = "ADMIN" -> {{Home(u)}}
      [] RoleOf[u] = "LEADER" -> {{Home(u)} \cup Children(Home(u))}
                                 \cup {{g} : g \in {Home(u)} \cup Children(Home(u))}
      [] OTHER -> {}

\* The last day of a range ends at its midnight, before anything is booked on
\* it; a month or a year ends after its last day.
Periods == {from .. to - 1 : from, to \in Day} \cup {Day}

GenerateReport(s, u, groups, days) ==
    /\ groups \in Scopes(u)
    /\ Start(s, [Idle EXCEPT !.pc = "read", !.user = u, !.groups = groups, !.days = days])
    /\ UNCHANGED <<ledgerVars, log, day>>

\* The query for the groups is a statement for the wallet of the requester's
\* group and one for the wallets of its children, or of its parent.
ReadWallets(s) ==
    LET c == call[s] IN
    \E G \in {c.groups \cap {Home(c.user)}, c.groups \ {Home(c.user)}} \ {{}} :
        /\ At(s, "read") /\ G \cap c.known = {}
        /\ call' = [call EXCEPT ![s].known = @ \cup G,
                                ![s].shown = [g \in Group |-> IF g \in G THEN balance[g] ELSE @[g]]]
        /\ UNCHANGED <<ledgerVars, log, day>>

\* Mutant: both queries are sent at once.
AllWalletsReadAtOnce(s) == TRUE
AllWalletsRead(s) == call[s].known = call[s].groups

ReadRows(s) ==
    /\ At(s, "read") /\ AllWalletsRead(s) /\ ~call[s].hasRows
    /\ call' = [call EXCEPT ![s].hasRows = TRUE,
                            ![s].rows = {i \in DOMAIN log : /\ log[i].group \in call[s].groups
                                                            /\ log[i].day \in call[s].days}]
    /\ UNCHANGED <<ledgerVars, log, day>>

\* Drawn, page by page, once all is read.
Complete(s) == At(s, "read") /\ call[s].hasRows /\ call[s].known = call[s].groups

Download(s) == Complete(s) /\ Finish(s) /\ UNCHANGED <<ledgerVars, log, day>>

\* The rows of one group.
RowsPrinted(s, g) == Cardinality({i \in call[s].rows : log[i].group = g})

-----------------------------------------------------------------------------
(* drawTransactionTable, and the summary's table, drawn likewise: rows are   *)
(* their cells, in their order; the place of a row is its page, 0 the one    *)
(* the text before the table ends on, and its top.                           *)

Below(place, height) == [place EXCEPT !.y = @ + height]

\* ensureSpace, then the section's title and the header.
FirstPlace(t, y) ==
    Below(IF y + t.space > PageBottom + Slack THEN [page |-> 1, y |-> PageTop]
          ELSE [page |-> 0, y |-> y],
          t.title + t.header)

\* Mutant: no room is kept for the total below the last row.
NeededRowOnly(t, rows, i) == rows[i].measured
\* The last row is kept together with the total.
Needed(t, rows, i) == rows[i].measured + IF i = Len(rows) THEN t.total ELSE 0

\* On this page if there is room for it, or else under the header of the next.
Put(t, place, height) ==
    IF place.y + height > PageBottom
    THEN [page |-> place.page + 1, y |-> PageTop + t.header] ELSE place

\* Where each row goes, after the ones before it.
RowPlaces(t, y, rows) ==
    LET place[i \in 1 .. Len(rows)] ==
            Put(t, IF i = 1 THEN FirstPlace(t, y) ELSE Below(place[i - 1], rows[i - 1].measured),
                Needed(t, rows, i))
    IN  place

TotalPlace(t, y, rows) ==
    Put(t, Below(RowPlaces(t, y, rows)[Len(rows)], rows[Len(rows)].measured), t.total)

-----------------------------------------------------------------------------
Handler(s) ==
    \/ \E g \in Group, a \in Amount :
          \/ \E type \in TransactionType : Manual(s, g, type, a)
          \/ PayEvent(s, g, a)
          \/ RefundEvent(s, g, a)
          \/ Transfer(s, g, a)
          \/ TransferToEvent(s, g, a)
    \/ Book(s)

Report(s) ==
    \/ \E u \in User, days \in Periods : \E groups \in Scopes(u) :
          GenerateReport(s, u, groups, days)
    \/ ReadWallets(s) \/ ReadRows(s) \/ Download(s)

Next == DayPasses \/ \E s \in Slot : Handler(s) \/ Report(s)

Spec == Init /\ [][Next]_vars

-----------------------------------------------------------------------------
(***************************************************************************)
(* Every expense, payment and transfer is compared with the balance before  *)
(* its transaction and not again in it, so that those in flight at the same *)
(* time can overdraw a wallet together: by no more than the amounts of all  *)
(* of them but one, however many have been booked before.                   *)
(***************************************************************************)
OverdraftIsBounded ==
    \A g \in Group : balance[g] + (Cardinality(Slot) - 1) * MaxAmount >= 0

(***************************************************************************)
(* A report never shows a balance its rows leave unexplained: each balance  *)
(* is what some first rows of the wallet add up to, and those of them that  *)
(* fall into the period are all in the report, however many were booked     *)
(* between its three reads.                                                 *)
(***************************************************************************)
BalancesAreExplained ==
    \A s \in Slot : Complete(s) =>
        \A g \in call[s].groups : \E n \in 0 .. Len(log) :
            /\ call[s].shown[g] = Opening[g] + Net(log, g, n)
            /\ {i \in RowsOf(g, n) : log[i].day \in call[s].days} \subseteq call[s].rows

(***************************************************************************)
(* A row of a table gets the height measured for it (of its description, or *)
(* that of one line in the summary), whatever its name needs.  A table of   *)
(* which no name needs more is whole wherever it starts: no row is cut by   *)
(* the end of a page or drawn over by another, and the total stands below   *)
(* the last row on the same page.                                           *)
(***************************************************************************)
NamesFit(rows) == \A i \in DOMAIN rows : rows[i].name <= rows[i].measured

TableIsWhole(t, y, rows) ==
    LET place == RowPlaces(t, y, rows)
        total == TotalPlace(t, y, rows)
        last == Len(rows)
        End(i) == place[i].y + IF rows[i].name > rows[i].measured THEN rows[i].name
                               ELSE rows[i].measured
    IN  /\ \A i \in 1 .. last : End(i) <= PageBottom
        /\ \A i \in 1 .. last - 1 : place[i].page = place[i + 1].page => End(i) <= place[i + 1].y
        /\ total.page = place[last].page
        /\ End(last) <= total.y /\ total.y + t.total <= PageBottom

\* The tables of n rows that are whole.
AreWhole(t, n) ==
    n > 0 => \A rows \in [1 .. n -> t.cells], y \in TableStart :
                NamesFit(rows) => TableIsWhole(t, y, rows)

TablesAreWhole ==
    \A s \in Slot : Complete(s) =>
        /\ AreWhole(SummaryTable, Cardinality(call[s].groups))
        /\ \A g \in call[s].groups : AreWhole(TransactionTable, RowsPrinted(s, g))
=============================================================================
