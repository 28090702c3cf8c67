-------------------------------- MODULE Screens -------------------------------
(***************************************************************************)
(* The pages of the web client: who may open which, what each asks the      *)
(* backend for when it loads and when its buttons are pressed, and where    *)
(* its links lead.  A page knows the user u in local storage (id, role and  *)
(* home of the login); its lists are those of the requester v the backend   *)
(* sees, filtered in ways that never matter to who may open what.           *)
(***************************************************************************)
EXTENDS Access

(* The router *)

\* path |-> allowedRoles, without the prefix /dashboard and what identifies a row.
LeadersRoutes == [p \in {"rw", "kegiatan", "events", "kas", "pembayaran", "detail-progres",
                         "progres-iuran", "organisasi", "pengaturan"} |-> {"LEADER"}]
AdminsRoutes == [p \in {"rt", "kegiatan-rt", "events-rt", "kas-rt", "pembayaran-rt",
                        "organisasi-rt"} |-> {"ADMIN"}]
TreasurersRoutes == [p \in {"finance", "organisasi-bendahara", "kegiatan-bendahara",
                            "events-bendahara", "kas-bendahara", "pembayaran-bendahara",
                            "detail-progres-bendahara", "progres-iuran-bendahara"}
                        |-> {"TREASURER"}]
ResidentsRoutes == [p \in {"warga", "organisasi-warga", "kegiatan-warga", "events-warga",
                           "pembayaran-warga"} |-> {"RESIDENT"}]
SharedRoutes == [users |-> Role, transaksi |-> Role, keuangan_rt |-> Officer,
                 pengajuan_dana |-> Officer, pengaturan_iuran |-> {"LEADER", "ADMIN"},
                 profile |-> Role]

RoutesOf == <<LeadersRoutes, AdminsRoutes, TreasurersRoutes, ResidentsRoutes, SharedRoutes>>
Guarded == UNION {DOMAIN RoutesOf[i] : i \in DOMAIN RoutesOf}
allowedRoles(p) == UNION {RoutesOf[i][p] : i \in {j \in DOMAIN RoutesOf : p \in DOMAIN RoutesOf[j]}}

Paths == Guarded \cup {"/", "dashboard", "login"}

getDashboardPathByRole(r) ==
    CASE r = "LEADER" -> "rw"
      [] r = "ADMIN" -> "rt"
      [] r = "TREASURER" -> "finance"
      [] OTHER -> "warga"

getMenuItems(r) ==
    {"profile"} \cup
    CASE r = "LEADER" -> {"rw", "organisasi", "kegiatan", "kas", "pembayaran", "pengaturan"}
      [] r = "ADMIN" -> {"rt", "organisasi-rt", "kegiatan-rt", "kas-rt", "pembayaran-rt"}
      [] r = "TREASURER" -> {"finance", "organisasi-bendahara", "kegiatan-bendahara",
                             "kas-bendahara", "pembayaran-bendahara"}
      [] OTHER -> {"warga", "organisasi-warga", "pembayaran-warga"}

-----------------------------------------------------------------------------
\* A request, and the row it is about.
Ask(endpoints) == [endpoint : endpoints, row : {NoRow}]
AskFor(endpoint, rows) == [endpoint : {endpoint}, row : rows]
\* A page, and the row it shows.
At(pages) == [page : pages, row : {NoRow}]
AtEach(page, rows) == [page : {page}, row : rows]

-----------------------------------------------------------------------------
(* What the pages ask for when they load; row is what their address names *)

ChildGroups == {row \in findAllGroups : Type(row.group) = "RT"}

LeaderDashboard ==
    Ask({"wallet", "events", "groups", "fund-requests", "dues-config"})
        \cup AskFor("users-in-group", ChildGroups)
AdminDashboard == Ask({"wallet", "events", "users", "fund-requests", "dues-config"})
TreasurerDashboard == Ask({"wallet", "transactions", "fund-requests", "events"})
ResidentDashboard == Ask({"transparency", "my-bill", "events", "history"})
EventsPage == Ask({"events", "users"})
EventDetailPage(row) == AskFor("event", {row})

\* Whether the treasurer keeps the money of the RW shows in the wallet.
isRwTreasurer(u, v) == u.role = "TREASURER" /\ Type(v.home) = "RW"
FinancePage(u, v) ==
    Ask({"wallet", "transactions", "fund-requests"}
        \cup (IF u.role \in {"TREASURER", "ADMIN"} THEN {"events"} ELSE {})
        \cup (IF u.role # "TREASURER" THEN {"dues-config"} ELSE {})
        \cup (IF u.role = "LEADER" \/ isRwTreasurer(u, v) THEN {"children-wallets"} ELSE {}))

\* The answer says whether the group is an RW; its RTs' progress is then asked for.
PaymentPage(u, row) ==
    LET resolved == IF row = NoRow THEN Of(u.home) ELSE row
    IN  AskFor("dues-progress", {resolved})
            \cup (IF Type(resolved.group) = "RW" THEN AskFor("parent-dues-progress", {resolved}) ELSE {})

LeaderView == Ask({"groups", "users"}) \cup AskFor("users-in-group", ChildGroups)
TreasurerView == Ask({"hierarchy", "users"})
AdminView == Ask({"hierarchy", "users"})
ResidentView == Ask({"hierarchy", "users"})
OrganizationPage(r) ==
    CASE r = "LEADER" -> LeaderView
      [] r = "TREASURER" -> TreasurerView
      [] r = "ADMIN" -> AdminView
      [] OTHER -> ResidentView

GroupDuesProgressPage(u, row) ==
    AskFor("dues-progress", {IF row = NoRow THEN Of(u.home) ELSE row})
GroupFinanceDetailPage(row) == AskFor("group-detail", {row})
TransactionDetailPage(row) == AskFor("transaction", {row})
FundRequestDetailPage(row) == AskFor("fund-request", {row})
DuesConfigPage == Ask({"dues-config"})
ResidentPaymentPage == Ask({"my-bill", "history"})
RoleLabelSettingsPage == Ask({"role-labels"})
UserDetailPage(row) == Ask({"role-labels-map"}) \cup AskFor("user", {row})
ProfilePage == Ask({"me"})

EventsPaths == {"kegiatan", "kegiatan-rt", "kegiatan-bendahara", "kegiatan-warga"}
FinancePaths == {"kas", "kas-rt", "kas-bendahara"}
OrganizationPaths == {"organisasi", "organisasi-rt", "organisasi-bendahara", "organisasi-warga"}
PaymentPaths == {"pembayaran", "pembayaran-rt", "pembayaran-bendahara", "detail-progres",
                 "detail-progres-bendahara"}
EventPaths == {"events", "events-rt", "events-bendahara", "events-warga"}
ProgressPaths == {"progres-iuran", "progres-iuran-bendahara"}
\* Their addresses end in the id of a row.
RowPaths == EventPaths \cup {"keuangan_rt", "transaksi", "pengajuan_dana", "users", "progres-iuran",
                              "detail-progres", "detail-progres-bendahara"}

Loads(at, u, v) ==
    CASE at.page = "rw" -> LeaderDashboard
      [] at.page = "rt" -> AdminDashboard
      [] at.page = "finance" -> TreasurerDashboard
      [] at.page = "warga" -> ResidentDashboard
      [] at.page \in EventsPaths -> EventsPage
      [] at.page \in EventPaths -> EventDetailPage(at.row)
      [] at.page \in FinancePaths -> FinancePage(u, v)
      [] at.page \in PaymentPaths -> PaymentPage(u, at.row)
      [] at.page \in OrganizationPaths -> OrganizationPage(u.role)
      [] at.page \in ProgressPaths -> GroupDuesProgressPage(u, at.row)
      [] at.page = "keuangan_rt" -> GroupFinanceDetailPage(at.row)
      [] at.page = "transaksi" -> TransactionDetailPage(at.row)
      [] at.page = "pengajuan_dana" -> FundRequestDetailPage(at.row)
      [] at.page = "pengaturan_iuran" -> DuesConfigPage
      [] at.page = "pembayaran-warga" -> ResidentPaymentPage
      [] at.page = "pengaturan" -> RoleLabelSettingsPage
      [] at.page = "users" -> UserDetailPage(at.row)
      [] at.page = "profile" -> ProfilePage

-----------------------------------------------------------------------------
(* What the buttons of a page ask for (those of an event are in EventPages) *)

EventsPageOffers(r) == IF r = "TREASURER" THEN {} ELSE Ask({"create-event"})

\* The requests for funds are a tab the treasurer of an RT does not have.
showsFundRequests(u, v) == u.role # "TREASURER" \/ isRwTreasurer(u, v)
FinancePageOffers(u, v) ==
    Ask((IF u.role \in {"LEADER", "ADMIN"} THEN {"report"} ELSE {})
        \cup (IF u.role \in {"LEADER", "TREASURER"} THEN {"book"} ELSE {})
        \cup (IF u.role \in {"ADMIN", "TREASURER"} /\ showsFundRequests(u, v)
                THEN {"create-fund-request"} ELSE {}))
        \cup (IF u.role = "LEADER" \/ isRwTreasurer(u, v)
                THEN AskFor("decide-fund-request", getRequestsByGroup(v)) ELSE {})
FundRequestDetailPageOffers(u, row) ==
    IF u.role = "TREASURER" /\ row # NoRow /\ u.home = ParentOf[row.group]
      THEN AskFor("decide-fund-request", {row})
      ELSE {}
DuesConfigForm == {"set-dues-config"}
CreateRtDialog == {"create-group"}
EditRtDialog == {"update-group"}
CreateWargaDialog == {"create-user"}
EditWargaDialog == {"update-user"}
LeaderViewOffers ==
    Ask(CreateRtDialog \cup EditRtDialog \cup CreateWargaDialog \cup EditWargaDialog
        \cup {"delete-group", "delete-user"})
RoleLabelSettingsPageOffers == Ask({"set-role-label"})
ProfilePageOffers == Ask({"profile"})
ResidentDashboardOffers == Ask({"report"})
ResidentPaymentPageOffers(v) == Ask({"pay-dues"}) \cup AskFor("sync", getHistory(v))
TransactionDetailPageOffers(row) == AskFor("sync", {row})

Offers(at, u, v) ==
    CASE at.page \in EventsPaths -> EventsPageOffers(u.role)
      [] at.page \in FinancePaths -> FinancePageOffers(u, v)
      [] at.page = "pengajuan_dana" -> FundRequestDetailPageOffers(u, at.row)
      [] at.page = "pengaturan_iuran" -> Ask(DuesConfigForm)
      [] at.page = "organisasi" -> LeaderViewOffers
      [] at.page = "pengaturan" -> RoleLabelSettingsPageOffers
      [] at.page = "profile" -> ProfilePageOffers
      [] at.page = "warga" -> ResidentDashboardOffers
      [] at.page = "pembayaran-warga" -> ResidentPaymentPageOffers(v)
      [] at.page = "transaksi" -> TransactionDetailPageOffers(at.row)
      [] OTHER -> {}

-----------------------------------------------------------------------------
(* Where the links of a page lead *)

RecentEventsCard(viewAllLink, eventDetailBasePath, v) ==
    At({viewAllLink}) \cup AtEach(eventDetailBasePath, findAllEvents(v))
ActionRequired(eventBasePath, fundRequestsPath, v) ==
    AtEach(eventBasePath, findAllEvents(v)) \cup At({fundRequestsPath})
RecentTransactions(viewAllLink) == At({viewAllLink})
RecentFundRequests == At({"kas"})
defaultLinks == {"organisasi", "kegiatan", "kas", "pembayaran"}
treasurerLinks == {"kas-bendahara", "kegiatan-bendahara", "pembayaran-bendahara"}
QuickLinks(items) == At(items)

LeaderDashboardLinks(v) ==
    At({"pengaturan_iuran"}) \cup ActionRequired("events", "kas", v)
        \cup RecentEventsCard("kegiatan", "events", v) \cup RecentFundRequests
        \cup QuickLinks(defaultLinks)
AdminDashboardLinks(v) ==
    At({"pengaturan_iuran"}) \cup RecentEventsCard("kegiatan-rt", "events-rt", v)
        \cup QuickLinks(defaultLinks)
TreasurerDashboardLinks(v) ==
    At({"kas-bendahara"}) \cup ActionRequired("events-bendahara", "kas-bendahara", v)
        \cup RecentTransactions("kas-bendahara")
        \cup RecentEventsCard("kegiatan-bendahara", "events-bendahara", v)
        \cup QuickLinks(treasurerLinks)
ResidentDashboardLinks(v) ==
    At({"pembayaran-warga", "organisasi-warga"}) \cup AtEach("events-warga", findAllEvents(v))

getEventDetailPath(p) ==
    CASE p = "kegiatan-bendahara" -> "events-bendahara"
      [] p = "kegiatan-rt" -> "events-rt"
      [] p = "kegiatan-warga" -> "events-warga"
      [] OTHER -> "events"
EventsTable(p, v) == AtEach(getEventDetailPath(p), findAllEvents(v))

TransactionTable(v) == AtEach("transaksi", getTransactionHistory(v))
ChildrenWalletsSection(v) == AtEach("keuangan_rt", getChildrenWallets(v))
FundRequestTable(v) == AtEach("pengajuan_dana", getRequestsByGroup(v))
FinancePageLinks(u, v) ==
    TransactionTable(v)
        \cup (IF u.role # "TREASURER" THEN At({"pengaturan_iuran"}) ELSE {})
        \cup (IF u.role = "TREASURER" /\ Type(v.home) = "RT"
                THEN AtEach("progres-iuran-bendahara", {Of(v.home)}) ELSE {})
        \cup (IF u.role = "LEADER" \/ isRwTreasurer(u, v) THEN ChildrenWalletsSection(v) ELSE {})
        \cup (IF showsFundRequests(u, v) THEN FundRequestTable(v) ELSE {})

backPath(r) ==
    CASE r = "LEADER" -> "kas" [] r = "TREASURER" -> "kas-bendahara" [] OTHER -> "kas-rt"
GroupFinanceDetailPageLinks(u, row) ==
    At({backPath(u.role)})
        \cup (IF row = NoRow THEN {} ELSE AtEach("transaksi", getGroupFinanceDetailList(row.group)))

\* A row of the RTs' table, which is there once its request is answered; the table of
\* one group's residents has no links.
ParentRow(u, v) ==
    IF v.role \in Roles("parent-dues-progress")
      THEN AtEach(IF u.role = "TREASURER" THEN "progres-iuran-bendahara" ELSE "progres-iuran",
                  getParentDuesProgressList(u.home))
      ELSE {}

RwInfoCard(v) == AtEach("users", {row \in getHierarchy(v) : Type(row.group) = "RW"})
ReadOnlyMemberTable(rts) == AtEach("users", {row \in rts : Type(row.group) = "RT"})
WargaTable(v) == AtEach("users", findAllUsers(v)) \cup At({"profile"})
RtMemberTable(rts) == AtEach("users", rts)

LeaderViewLinks(v) == RtMemberTable(ChildGroups) \cup WargaTable(v)
\* The treasurer of the RW sees the members of every RT, the others those of their own.
TreasurerViewLinks(u, v) ==
    LET isParentRole == u.home = RwOf(v.home)
    IN  RwInfoCard(v)
            \cup ReadOnlyMemberTable({row \in getHierarchy(v) : isParentRole \/ row.group = u.home})
AdminViewLinks(u, v) ==
    RwInfoCard(v) \cup ReadOnlyMemberTable({row \in getHierarchy(v) : row.group = u.home})
ResidentViewLinks(u, v) ==
    RwInfoCard(v) \cup ReadOnlyMemberTable({row \in getHierarchy(v) : row.group = u.home})
OrganizationPageLinks(u, v) ==
    CASE u.role = "LEADER" -> LeaderViewLinks(v)
      [] u.role = "TREASURER" -> TreasurerViewLinks(u, v)
      [] u.role = "ADMIN" -> AdminViewLinks(u, v)
      [] OTHER -> ResidentViewLinks(u, v)

ResidentPaymentPageLinks(v) == AtEach("transaksi", getHistory(v))

Links(at, u, v) ==
    At(getMenuItems(u.role)) \cup
    CASE at.page = "rw" -> LeaderDashboardLinks(v)
      [] at.page = "rt" -> AdminDashboardLinks(v)
      [] at.page = "finance" -> TreasurerDashboardLinks(v)
      [] at.page = "warga" -> ResidentDashboardLinks(v)
      [] at.page \in EventsPaths -> EventsTable(at.page, v)
      [] at.page \in FinancePaths -> FinancePageLinks(u, v)
      [] at.page = "keuangan_rt" -> GroupFinanceDetailPageLinks(u, at.row)
      [] at.page \in PaymentPaths -> ParentRow(u, v)
      [] at.page \in OrganizationPaths -> OrganizationPageLinks(u, v)
      [] at.page = "pembayaran-warga" -> ResidentPaymentPageLinks(v)
      [] OTHER -> {}

-----------------------------------------------------------------------------
(* The badges of the sidebar *)

fetchProfileBadge == Ask({"me"})
fetchEventBadge == Ask({"events"})
fetchFinanceBadge(r) ==
    Ask({"transactions"} \cup (IF r \in {"LEADER", "ADMIN"} THEN {"dues-config"} ELSE {}))
fetchPaymentBadge == Ask({"my-bill", "history"})
fetchBadges(r) ==
    fetchProfileBadge
        \cup (IF r \in Officer THEN fetchEventBadge \cup fetchFinanceBadge(r) ELSE {})
        \cup (IF r = "RESIDENT" THEN fetchPaymentBadge ELSE {})
=============================================================================
