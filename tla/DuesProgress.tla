----------------------------- MODULE DuesProgress -----------------------------
(***************************************************************************)
(* Who has paid their dues, four times over: the bills (Dues); the recap of *)
(* its RTs that the server computes for an RW (FinanceService); the pages   *)
(* with the residents of one RT, which the client computes from what the    *)
(* server lists (PaymentPage.tsx, GroupDuesProgressPage.tsx); and what the  *)
(* client makes of a resident's own bill (ResidentDashboard.tsx,            *)
(* ResidentPaymentPage.tsx).  All but the bills count year by year.         *)
(***************************************************************************)
EXTENDS Dues

CONSTANT YearLength     \* 12; shorter, a year's end comes within a few months

ASSUME YearAssumption == YearLength \in Nat \ {0}

FilterMode == {"all", "lunas", "belum"}

Year(m) == (m - 1) \div YearLength
currentYear == Year(month)
MonthsOfYear(year) == year * YearLength + 1 .. (year + 1) * YearLength

-----------------------------------------------------------------------------
(* The server *)

\* The members getDuesProgress lists: no officers.
getDuesProgress(g) == {u \in Residents : Home(u) = g}

hasDuesRule(g) == rate[g] # 0

eligibleResidents(g, m) == {u \in Residents : Home(u) = g /\ Joined[u] <= m}

\* Mutant: the months before the first row count as unpaid.
isPaidByRow(u, m) == HasPaid(u, m)
isPaid(u, m) == HasPaid(u, m) \/ (paidUntil[u] # Never /\ paidUntil[u] >= m)

monthlyStatus(g, m) ==
    LET eligible == eligibleResidents(g, m)
        paid == {u \in eligible : isPaid(u, m)}
    IN  CASE m > month -> "FUTURE"
          [] m <= month /\ eligible = {} -> "NOT_REGISTERED"
          [] m <= month /\ eligible # {} /\ paid = {} -> "UNPAID"
          [] m <= month /\ eligible # {} /\ paid = eligible -> "PAID"
          [] OTHER -> "PARTIAL"

isGroupFullyPaid(g, year) ==
    \A m \in MonthsOfYear(year) : monthlyStatus(g, m) \notin {"UNPAID", "PARTIAL"}

findParentWithChildrenProgress(g) == {c \in Group : ParentOf[c] = g}

getParentDuesProgress(g, year) ==
    [c \in findParentWithChildrenProgress(g) |->
        [hasDuesRule   |-> hasDuesRule(c),
         isFullyPaid   |-> isGroupFullyPaid(c, year),
         monthlyStatus |-> [m \in MonthsOfYear(year) |-> monthlyStatus(c, m)]]]

-----------------------------------------------------------------------------
(* The officers' pages *)

memberExistedInMonth(u, m) == m >= Joined[u]
isPaidForMonth(u, m) == HasPaid(u, m) \/ (paidUntil[u] # Never /\ m <= paidUntil[u])

\* A cell, named by its tooltip.
getChildMonthStatus(u, m) ==
    LET existed == memberExistedInMonth(u, m)
        paid == existed /\ isPaidForMonth(u, m)
    IN  CASE ~existed -> "Belum terdaftar"
          [] paid -> "Lunas"
          [] existed /\ ~paid /\ m > month -> "Belum jatuh tempo"
          [] OTHER -> "Menunggak"

\* The months of the year up to today; all twelve of a year that is over.
isFullyPaid(u, year) ==
    \A m \in MonthsOfYear(year) :
        m <= month /\ memberExistedInMonth(u, m) => isPaidForMonth(u, m)

filteredMembers(g, year, filter) ==
    {u \in getDuesProgress(g) : /\ filter = "lunas" => isFullyPaid(u, year)
                                /\ filter = "belum" => ~isFullyPaid(u, year)}

MemberRow(u, year) == [m \in MonthsOfYear(year) |-> getChildMonthStatus(u, m)]

\* What GroupDuesProgressPage shows of g, and the numbers on its cards.
GroupDuesProgressPage(g, year, filter) ==
    LET lunas == Cardinality(filteredMembers(g, year, "lunas"))
    IN  [rows  |-> [u \in filteredMembers(g, year, filter) |-> MemberRow(u, year)],
         lunas |-> lunas,
         belum |-> Cardinality(getDuesProgress(g)) - lunas]

\* PaymentPage of an RT: no rows where there is no rate.
ChildRow(u, year) == IF isFullyPaid(u, year) THEN "Lunas" ELSE "Tunggakan"
ProgressOfRT(g, year, filter) ==
    [u \in (IF hasDuesRule(g) THEN filteredMembers(g, year, filter) ELSE {}) |-> ChildRow(u, year)]

\* PaymentPage of an RW: a row for each RT.
filteredGroups(recap, filter) ==
    {c \in DOMAIN recap : /\ filter = "lunas" => recap[c].isFullyPaid
                          /\ filter = "belum" => ~recap[c].isFullyPaid}
ParentRow(group) ==
    CASE ~group.hasDuesRule -> "Belum Diatur"
      [] group.hasDuesRule /\ group.isFullyPaid -> "Lunas"
      [] OTHER -> "Ada Tunggakan"
ProgressOfRW(g, year, filter) ==
    LET recap == getParentDuesProgress(g, year)
    IN  [c \in filteredGroups(recap, filter) |-> ParentRow(recap[c])]

-----------------------------------------------------------------------------
(* The resident's pages *)

getMyBill(u) ==
    [totalAmount       |-> MonthlyTotal(u) * UnpaidMonths(u),
     baseMonthlyAmount |-> MonthlyTotal(u),
     unpaidMonthsCount |-> UnpaidMonths(u),
     nextBill          |-> NextBillMonth(u)]

\* The card of the dashboard.
StatusCard(bill) ==
    CASE bill.baseMonthlyAmount = 0 -> "Belum Ditentukan"
      [] bill.baseMonthlyAmount # 0 /\ bill.totalAmount > 0 -> "Tagihan"
      [] bill.baseMonthlyAmount # 0 /\ bill.totalAmount = 0 /\ Year(bill.nextBill) > currentYear ->
            "Lunas Setahun Penuh"
      [] OTHER -> "Status Terkini"

\* The months that can be ticked, in the year of the first unpaid one.
monthGrid(bill) ==
    [m \in MonthsOfYear(Year(bill.nextBill)) |->
        CASE m < bill.nextBill -> "paid"
          [] m >= bill.nextBill /\ m - bill.nextBill < bill.unpaidMonthsCount -> "locked"
          [] OTHER -> "selectable"]

defaultSelect(bill) == IF bill.unpaidMonthsCount > 0 THEN bill.unpaidMonthsCount ELSE 1

\* How many months the ticks can stand for: none but a month one can tick changes it.
selectedMonthCount(bill) ==
    LET grid == monthGrid(bill)
        offset(m) == m - bill.nextBill
        ticked == {m \in DOMAIN grid : grid[m] = "selectable" /\ offset(m) > 0}
    IN  {defaultSelect(bill)} \cup {offset(m) : m \in ticked} \cup {offset(m) + 1 : m \in ticked}

isFullYearPaid(bill) == bill.baseMonthlyAmount > 0 /\ Year(bill.nextBill) > currentYear

\* The numbers of months the page offers to pay for.
OfferedMonths(bill) ==
    IF bill.baseMonthlyAmount = 0 \/ isFullYearPaid(bill) THEN {} ELSE selectedMonthCount(bill)

\* PayDuesDto: at most twelve months, a whole year.
Accepted(months) == months \in 1 .. YearLength

-----------------------------------------------------------------------------
Collective(cells) ==
    CASE cells = {} -> "NOT_REGISTERED"
      [] cells = {"Lunas"} -> "PAID"
      [] cells = {"Menunggak"} -> "UNPAID"
      [] OTHER -> "PARTIAL"

\* The months a resident is billed for today.
BilledMonths(u) == {m \in 1 .. month : m >= NextBillMonth(u)}

\* Who is listed as behind, and where; what an RT's row sums up.
RecapAgrees(rw, year) ==
    LET recap == getParentDuesProgress(rw, year) IN
    \A g \in DOMAIN recap :
        LET rows == GroupDuesProgressPage(g, year, "all").rows
            behind == {u \in DOMAIN rows : BilledMonths(u) \cap MonthsOfYear(year) # {}}
        IN  /\ DOMAIN GroupDuesProgressPage(g, year, "belum").rows = behind
            /\ recap[g].isFullyPaid <=> behind = {}
            /\ ProgressOfRW(rw, year, "all")[g] = "Ada Tunggakan"
                    <=> \E u \in DOMAIN ProgressOfRT(g, year, "belum") : TRUE
            /\ \A m \in MonthsOfYear(year) : m <= month =>
                    recap[g].monthlyStatus[m]
                        = Collective({rows[u][m] : u \in DOMAIN rows} \ {"Belum terdaftar"})

\* What a resident is told, and offered.
BillIsShown(u) ==
    LET bill == getMyBill(u)
        grid == monthGrid(bill)
        row(year) == MemberRow(u, year)
    IN  /\ StatusCard(bill) = "Lunas Setahun Penuh" =>
                \A m \in MonthsOfYear(currentYear) : row(currentYear)[m] \in {"Lunas", "Belum terdaftar"}
        /\ StatusCard(bill) = "Lunas Setahun Penuh" <=> isFullYearPaid(bill)
        /\ {m \in DOMAIN grid : grid[m] = "locked"}
                = {m \in DOMAIN grid : row(Year(bill.nextBill))[m] = "Menunggak"}
        /\ BilledMonths(u) # {} /\ MonthlyTotal(u) > 0 =>
                /\ \A n \in OfferedMonths(bill) : n >= Cardinality(BilledMonths(u))
                /\ Cardinality(BilledMonths(u)) <= YearLength =>
                        OfferedMonths(bill) # {} /\ \A n \in OfferedMonths(bill) : Accepted(n)

(***************************************************************************)
(* The computations agree.  A resident is listed as behind in a year        *)
(* exactly when their bill asks for one of its months; an RW sees an RT as  *)
(* fully paid exactly when no resident of it is, and the cell of the RT     *)
(* sums up those of its residents.  The residents themselves are told that  *)
(* the year is paid only when all of it is, must pay exactly the months     *)
(* their RT sees as overdue, and what the page offers to those no more than *)
(* a year behind covers the arrears and is accepted.                        *)
(***************************************************************************)
RecapMatchesBills ==
    /\ \A rw \in Group, year \in 0 .. currentYear : RecapAgrees(rw, year)
    /\ \A u \in Residents : BillIsShown(u)
=============================================================================
