----------------------------- MODULE AccessProofs -----------------------------
(***************************************************************************)
(* What the backend lists, it lets be opened: for every organisation of     *)
(* RWs and RTs, and every requester in one of its groups.  And what the     *)
(* pages of the client ask for, and where their links lead, agrees with     *)
(* the guards of both sides: page by page first, then of every session.     *)
(***************************************************************************)
EXTENDS Session, TLAPS

Requesters == [id : Account, role : Role, home : Group]

\* RWs have RTs and no parent; RTs have a parent and no RTs.
LEMMA TwoLevels ==
  ASSUME NEW g \in Group, ParentOf[g] # NoGroup
  PROVE  /\ ParentOf[g] \in Group /\ ParentOf[ParentOf[g]] = NoGroup
         /\ Type(g) = "RT" /\ Type(ParentOf[g]) = "RW"
         /\ RwOf(g) = ParentOf[g]
BY AccessAssumption DEF Type, RwOf

LEMMA TopLevel ==
  ASSUME NEW g \in Group, ParentOf[g] = NoGroup
  PROVE  Type(g) = "RW" /\ RwOf(g) = g
BY DEF Type, RwOf

LEMMA NoGroupIsNone == NoGroup \notin Group
BY AccessAssumption

(***************************************************************************)
(* The events in one's list (findAllEvents: one's own group's, those of its *)
(* RTs and of its RW) pass checkGroupAccess, which guards all that can be   *)
(* done with an event.                                                      *)
(***************************************************************************)
THEOREM ListedEventsOpen ==
  ASSUME NEW v \in Requesters, NEW row \in findAllEvents(v)
  PROVE  checkGroupAccess(v, row.group)
<1>1. v.home \in Group
  BY DEF Requesters
<1>2. PICK g \in {v.home} \cup ({ParentOf[v.home]} \ {NoGroup}) \cup ChildrenOf(v.home) : row = Of(g)
  BY DEF findAllEvents
<1>3. row.group = g
  BY <1>2 DEF Of
<1> QED
  BY <1>1, <1>2, <1>3 DEF checkGroupAccess, ChildrenOf

(***************************************************************************)
(* No event is out of reach that a list hides: who passes checkGroupAccess  *)
(* for a group's events finds them in the list.                             *)
(***************************************************************************)
THEOREM OpenEventsAreListed ==
  ASSUME NEW v \in Requesters, NEW g \in Group, checkGroupAccess(v, g)
  PROVE  Of(g) \in findAllEvents(v)
BY NoGroupIsNone DEF Requesters, checkGroupAccess, findAllEvents, ChildrenOf

(***************************************************************************)
(* The wallets of RTs that getChildrenWallets lists, to an RW its own RTs', *)
(* to an RT those of all of its RW, pass the check of the page they lead to *)
(* and of the dues of that RT.                                              *)
(***************************************************************************)
THEOREM ListedWalletsOpen ==
  ASSUME NEW v \in Requesters, NEW row \in getChildrenWallets(v)
  PROVE  getGroupFinanceDetail(v, row.group) /\ getDuesProgress(v, row.group)
<1>1. v.home \in Group
  BY DEF Requesters
<1>2. PICK g \in ChildrenOf(RwOf(v.home)) : row = Of(g)
  BY DEF getChildrenWallets
<1>3. row.group = g /\ g \in Group /\ ParentOf[g] = RwOf(v.home)
  BY <1>2 DEF Of, ChildrenOf
<1>4. CASE ParentOf[v.home] = NoGroup
  BY <1>1, <1>3, <1>4, TopLevel DEF getGroupFinanceDetail, getDuesProgress
<1>5. CASE ParentOf[v.home] # NoGroup
  BY <1>1, <1>3, <1>5, TwoLevels DEF getGroupFinanceDetail, getDuesProgress
<1> QED
  BY <1>4, <1>5

(***************************************************************************)
(* A request for funds in one's list may be opened; by an officer of an RW  *)
(* it may be decided, by one of an RT never.                                *)
(***************************************************************************)
THEOREM ListedRequestsOpen ==
  ASSUME NEW v \in Requesters, NEW row \in getRequestsByGroup(v)
  PROVE  /\ getById(v, row.group)
         /\ approveExtraFunds(v, row.group) <=> Type(v.home) = "RW"
<1>1. v.home \in Group
  BY DEF Requesters
<1>2. PICK g \in {h \in Group : Type(h) = "RT" /\ v.home \in {h, ParentOf[h]}} : row = Of(g)
  BY DEF getRequestsByGroup
<1>3. row.group = g /\ g \in Group /\ Type(g) = "RT" /\ v.home \in {g, ParentOf[g]}
  BY <1>2 DEF Of
<1>4. ParentOf[g] # NoGroup
  BY <1>3, TopLevel DEF Type
<1>5. ParentOf[g] \in Group /\ Type(ParentOf[g]) = "RW" /\ ParentOf[g] # g
  BY <1>3, <1>4, TwoLevels DEF Type
<1> QED
  BY <1>3, <1>5 DEF getById, approveExtraFunds, Type

(***************************************************************************)
(* An officer may open every transaction in the lists of the own group; a   *)
(* resident the own payments, which is what the history holds.              *)
(***************************************************************************)
THEOREM ListedTransactionsOpen ==
  ASSUME NEW v \in Requesters
  PROVE  /\ v.role \in Officer => \A row \in getTransactionHistory(v) : getTransactionDetail(v, row)
         /\ \A row \in getHistory(v) : getTransactionDetail(v, row) /\ syncPayment(v, row)
<1>1. \A row \in getTransactionHistory(v) : row.group = v.home
  BY DEF getTransactionHistory, findTransactions
<1>2. \A row \in getHistory(v) : row.group = v.home /\ row.owner = v.id
  BY DEF getHistory
<1>3. v.role \in Officer => v.role # "RESIDENT"
  BY DEF Officer
<1> QED
  BY <1>1, <1>2, <1>3 DEF getTransactionDetail, syncPayment

(***************************************************************************)
(* The transactions on the page of an RT's money, though, are refused to    *)
(* whoever sees that page from an RT beside it, unless they are one's own   *)
(* group's: the page opens, its rows do not.                                *)
(***************************************************************************)
THEOREM NeighboursRowsStayShut ==
  ASSUME NEW v \in Requesters, NEW g \in Group, v.role \in Officer,
         ParentOf[v.home] # NoGroup, g # v.home, ParentOf[g] = ParentOf[v.home],
         NEW row \in getGroupFinanceDetailList(g)
  PROVE  getGroupFinanceDetail(v, g) /\ ~getTransactionDetail(v, row)
<1>1. getGroupFinanceDetail(v, g)
  BY DEF getGroupFinanceDetail
<1>2. v.home \in Group /\ Type(v.home) = "RT"
  BY TwoLevels DEF Requesters
<1>3. row.group = g
  BY DEF getGroupFinanceDetailList, findTransactions
<1>4. v.role # "RESIDENT"
  BY DEF Officer
<1> QED
  BY <1>1, <1>2, <1>3, <1>4 DEF getTransactionDetail

-----------------------------------------------------------------------------
(* The tables of the guards of both sides, row by row *)

LEMMA RolesAre ==
  /\ \A e \in {"wallet", "transactions", "children-wallets", "group-detail", "dues-progress",
               "dues-config", "set-dues-config", "fund-requests", "fund-request"} :
        Roles(e) = Officer
  /\ \A e \in {"transaction", "transparency", "users", "user", "me", "profile", "groups",
               "hierarchy", "role-labels-map", "events", "event", "history", "sync"} :
        Roles(e) = Role
  /\ \A e \in {"parent-dues-progress", "book"} : Roles(e) = {"LEADER", "TREASURER"}
  /\ \A e \in {"my-bill", "pay-dues"} : Roles(e) = {"RESIDENT"}
  /\ Roles("report") = {"LEADER", "ADMIN", "RESIDENT"}
  /\ Roles("create-fund-request") = {"ADMIN", "TREASURER"}
  /\ Roles("decide-fund-request") = {"TREASURER"}
  /\ \A e \in {"users-in-group", "create-user", "update-user", "delete-user", "create-event"} :
        Roles(e) = {"LEADER", "ADMIN"}
  /\ \A e \in {"create-group", "update-group", "delete-group", "role-labels", "set-role-label"} :
        Roles(e) = {"LEADER"}
BY DEF Roles, FinanceController, FundRequestsController, UsersController, GroupsController,
       SettingsController, EventsController, PaymentController, Controllers, Role, Officer

\* The pages of the router that one role has to itself, and those it shares.
OwnRoutes(r) == CASE r = "LEADER" -> DOMAIN LeadersRoutes
                  [] r = "ADMIN" -> DOMAIN AdminsRoutes
                  [] r = "TREASURER" -> DOMAIN TreasurersRoutes
                  [] r = "RESIDENT" -> DOMAIN ResidentsRoutes

LEMMA RoutesAre ==
  ASSUME NEW r \in Role, NEW p
  PROVE  r \in allowedRoles(p) <=>
            \/ p \in OwnRoutes(r)
            \/ p \in DOMAIN SharedRoutes /\ r \in SharedRoutes[p]
<1>1. DOMAIN RoutesOf = 1..5
  BY DEF RoutesOf
<1>2. r \in allowedRoles(p) <=> \E i \in 1..5 : p \in DOMAIN RoutesOf[i] /\ r \in RoutesOf[i][p]
  BY <1>1 DEF allowedRoles
<1>3. r \in allowedRoles(p) <=>
         \/ p \in DOMAIN LeadersRoutes /\ r \in LeadersRoutes[p]
         \/ p \in DOMAIN AdminsRoutes /\ r \in AdminsRoutes[p]
         \/ p \in DOMAIN TreasurersRoutes /\ r \in TreasurersRoutes[p]
         \/ p \in DOMAIN ResidentsRoutes /\ r \in ResidentsRoutes[p]
         \/ p \in DOMAIN SharedRoutes /\ r \in SharedRoutes[p]
  <2>1. \A i \in 1..5 : i = 1 \/ i = 2 \/ i = 3 \/ i = 4 \/ i = 5
    OBVIOUS
  <2>2. /\ RoutesOf[1] = LeadersRoutes /\ RoutesOf[2] = AdminsRoutes
        /\ RoutesOf[3] = TreasurersRoutes /\ RoutesOf[4] = ResidentsRoutes
        /\ RoutesOf[5] = SharedRoutes
    BY DEF RoutesOf
  <2>3. QED
    BY <1>2, <2>1, <2>2
<1>4. CASE r = "LEADER"
  BY <1>3, <1>4 DEF OwnRoutes, LeadersRoutes, AdminsRoutes, TreasurersRoutes, ResidentsRoutes
<1>5. CASE r = "ADMIN"
  BY <1>3, <1>5 DEF OwnRoutes, LeadersRoutes, AdminsRoutes, TreasurersRoutes, ResidentsRoutes
<1>6. CASE r = "TREASURER"
  BY <1>3, <1>6 DEF OwnRoutes, LeadersRoutes, AdminsRoutes, TreasurersRoutes, ResidentsRoutes
<1>7. CASE r = "RESIDENT"
  BY <1>3, <1>7 DEF OwnRoutes, LeadersRoutes, AdminsRoutes, TreasurersRoutes, ResidentsRoutes
<1> QED
  BY <1>4, <1>5, <1>6, <1>7 DEF Role

\* Of the shared pages, those a role may open.
SharedPages(r) ==
  {"users", "transaksi", "profile"}
    \cup (IF r # "RESIDENT" THEN {"keuangan_rt", "pengajuan_dana"} ELSE {})
    \cup (IF r \in {"LEADER", "ADMIN"} THEN {"pengaturan_iuran"} ELSE {})

LEMMA SharedAre ==
  ASSUME NEW r \in Role, NEW p
  PROVE  p \in DOMAIN SharedRoutes /\ r \in SharedRoutes[p] <=> p \in SharedPages(r)
BY DEF SharedRoutes, SharedPages, Role, Officer

\* Who may log in: a leader is the leader of an RW.
Seated == {u \in Requesters : u.role = "LEADER" => Type(u.home) = "RW"}

\* GroupsService.create takes there to be one RW, whose child every new RT becomes.
OneRW == \A g, h \in Group : Type(g) = "RW" /\ Type(h) = "RW" => g = h

\* What a page whose address names a row may be opened for.
MayShow(at, u) ==
    /\ at.page \in EventPaths => checkGroupAccess(u, at.row.group)
    /\ at.page = "keuangan_rt" => at.row \in getChildrenWallets(u) /\ Type(u.home) = "RW"
    /\ at.page \in ProgressPaths =>
          at.row \in {NoRow, Of(u.home)} \cup getParentDuesProgressList(u.home)
    /\ at.page = "transaksi" => getTransactionDetail(u, at.row) /\ syncPayment(u, at.row)
    /\ at.page = "pengajuan_dana" => at.row \in getRequestsByGroup(u)
    /\ at.page \in PaymentPaths => at.row = NoRow

\* The backend answers, or it is known not to.
Agrees(request, u) ==
    \/ u.role \in Roles(request.endpoint) /\ Admits(request.endpoint, u, request.row)
    \/ InVain(request, u)

\* The requests that are about no row, and nobody is refused for where they are.
Plain == {"wallet", "transactions", "children-wallets", "dues-config", "set-dues-config",
          "fund-requests", "transparency", "users", "user", "me", "profile", "groups",
          "hierarchy", "role-labels-map", "events", "history", "book", "my-bill", "pay-dues",
          "report", "create-user", "update-user", "delete-user", "create-event", "create-group",
          "update-group", "delete-group", "role-labels", "set-role-label"}

\* A page that asks for E asks for nothing a requester of role r is refused.
MayAsk(E, r) == \A e \in E : e \in Plain /\ r \in Roles(e)

LEMMA AskAgrees ==
  ASSUME NEW u \in Seated, NEW E, MayAsk(E, u.role), NEW request \in Ask(E)
  PROVE  Agrees(request, u)
<1>1. PICK e \in E : request.endpoint = e
  BY DEF Ask
<1>2. Admits(e, u, request.row)
  BY <1>1 DEF MayAsk, Plain, Admits
<1> QED
  BY <1>1, <1>2 DEF MayAsk, Agrees

LEMMA AskForAgrees ==
  ASSUME NEW u \in Seated, NEW e, NEW rows, \A row \in rows : u.role \in Roles(e) /\ Admits(e, u, row),
         NEW request \in AskFor(e, rows)
  PROVE  Agrees(request, u)
BY DEF Agrees, AskFor

LEMMA SeatedIs ==
  ASSUME NEW u \in Seated
  PROVE  u \in Requesters /\ u.role \in Role /\ u.home \in Group
BY DEF Seated, Requesters

-----------------------------------------------------------------------------
(* What the pages ask for when they load *)

\* The leader's dashboard counts the residents of every RT there is: with a second RW,
\* countByGroup refuses those of the other one.
LEMMA ChildGroupsCounted ==
  ASSUME NEW u \in Seated, OneRW, u.role = "LEADER", NEW row \in ChildGroups
  PROVE  countByGroup(u, row.group)
<1>1. PICK g \in Group : row = Of(g) /\ Type(g) = "RT"
  BY DEF ChildGroups, findAllGroups, Of
<1>2. ParentOf[g] # NoGroup
  BY <1>1 DEF Type
<1>3. ParentOf[g] \in Group /\ Type(ParentOf[g]) = "RW" /\ row.group = g
  BY <1>1, <1>2, TwoLevels DEF Of
<1>4. u.home \in Group /\ Type(u.home) = "RW"
  BY DEF Seated, Requesters
<1> QED
  BY <1>3, <1>4 DEF countByGroup, OneRW

LEMMA DashboardsAgree ==
  ASSUME NEW u \in Seated, OneRW
  PROVE  /\ u.role = "LEADER" => \A request \in LeaderDashboard : Agrees(request, u)
         /\ u.role = "ADMIN" => \A request \in AdminDashboard : Agrees(request, u)
         /\ u.role = "TREASURER" => \A request \in TreasurerDashboard : Agrees(request, u)
         /\ u.role = "RESIDENT" => \A request \in ResidentDashboard : Agrees(request, u)
<1>1. ASSUME u.role = "LEADER", NEW request \in LeaderDashboard PROVE Agrees(request, u)
  <2>1. CASE request \in Ask({"wallet", "events", "groups", "fund-requests", "dues-config"})
    <3>1. MayAsk({"wallet", "events", "groups", "fund-requests", "dues-config"}, "LEADER")
      BY RolesAre DEF MayAsk, Plain, Role, Officer
    <3>2. QED
      BY <1>1, <2>1, <3>1, AskAgrees
  <2>2. CASE request \in AskFor("users-in-group", ChildGroups)
    <3>1. \A row \in ChildGroups : u.role \in Roles("users-in-group") /\ Admits("users-in-group", u, row)
      BY <1>1, ChildGroupsCounted, RolesAre DEF Admits
    <3>2. QED
      BY <2>2, <3>1, AskForAgrees
  <2>3. QED
    BY <1>1, <2>1, <2>2 DEF LeaderDashboard
<1>2. ASSUME u.role = "ADMIN", NEW request \in AdminDashboard PROVE Agrees(request, u)
  <2>1. MayAsk({"wallet", "events", "users", "fund-requests", "dues-config"}, "ADMIN")
    BY RolesAre DEF MayAsk, Plain, Role, Officer
  <2>2. QED
    BY <1>2, <2>1, AskAgrees DEF AdminDashboard
<1>3. ASSUME u.role = "TREASURER", NEW request \in TreasurerDashboard PROVE Agrees(request, u)
  <2>1. MayAsk({"wallet", "transactions", "fund-requests", "events"}, "TREASURER")
    BY RolesAre DEF MayAsk, Plain, Role, Officer
  <2>2. QED
    BY <1>3, <2>1, AskAgrees DEF TreasurerDashboard
<1>4. ASSUME u.role = "RESIDENT", NEW request \in ResidentDashboard PROVE Agrees(request, u)
  <2>1. MayAsk({"transparency", "my-bill", "events", "history"}, "RESIDENT")
    BY RolesAre DEF MayAsk, Plain, Role, Officer
  <2>2. QED
    BY <1>4, <2>1, AskAgrees DEF ResidentDashboard
<1> QED
  BY <1>1, <1>2, <1>3, <1>4

LEMMA FinanceAgrees ==
  ASSUME NEW u \in Seated, u.role \in Officer, NEW request \in FinancePage(u, u)
  PROVE  Agrees(request, u)
<1>1. PICK E : request \in Ask(E) /\ \A e \in E : e \in {"wallet", "transactions", "fund-requests",
                                                    "events", "dues-config", "children-wallets"}
  BY DEF FinancePage
<1>2. MayAsk(E, u.role)
  BY <1>1, RolesAre DEF MayAsk, Plain, Role, Officer
<1> QED
  BY <1>1, <1>2, AskAgrees

LEMMA ProgressAgrees ==
  ASSUME NEW u \in Seated, u.role \in Officer,
         NEW row \in {Of(u.home)} \cup getParentDuesProgressList(u.home),
         NEW request \in AskFor("dues-progress", {row})
  PROVE  Agrees(request, u)
<1>1. PICK g \in Group : row = Of(g) /\ (g = u.home \/ ParentOf[g] = u.home)
  BY SeatedIs DEF getParentDuesProgressList, ChildrenOf
<1>2. ParentOf[g] = u.home => Type(u.home) = "RW"
  BY <1>1, SeatedIs, TwoLevels, NoGroupIsNone
<1>3. getDuesProgress(u, row.group)
  BY <1>1, <1>2 DEF getDuesProgress, getGroupFinanceDetail, Of
<1>4. \A r \in {row} : u.role \in Roles("dues-progress") /\ Admits("dues-progress", u, r)
  BY <1>3, RolesAre DEF Admits
<1> QED
  BY <1>4, AskForAgrees

LEMMA PaymentAgrees ==
  ASSUME NEW u \in Seated, u.role \in Officer, NEW request \in PaymentPage(u, NoRow)
  PROVE  Agrees(request, u)
<1>1. CASE request \in AskFor("dues-progress", {Of(u.home)})
  <2>1. PICK row \in {Of(u.home)} \cup getParentDuesProgressList(u.home) : row = Of(u.home)
    OBVIOUS
  <2>2. request \in AskFor("dues-progress", {row})
    BY <1>1, <2>1
  <2>3. QED
    BY <2>2, ProgressAgrees
<1>2. CASE request \in AskFor("parent-dues-progress", {Of(u.home)}) /\ Type(Of(u.home).group) = "RW"
  <2>1. request.endpoint = "parent-dues-progress" /\ request.row.group = u.home /\ Type(u.home) = "RW"
    BY <1>2 DEF AskFor, Of
  <2>2. CASE u.role = "ADMIN"
    BY <2>1, <2>2 DEF Agrees, InVain
  <2>3. CASE u.role \in {"LEADER", "TREASURER"}
    BY <2>1, <2>3, RolesAre DEF Agrees, Admits, getParentDuesProgress
  <2>4. QED
    BY <2>2, <2>3 DEF Officer, Role
<1>3. \/ request \in AskFor("dues-progress", {Of(u.home)})
      \/ request \in AskFor("parent-dues-progress", {Of(u.home)}) /\ Type(Of(u.home).group) = "RW"
  BY DEF PaymentPage
<1> QED
  BY <1>1, <1>2, <1>3

\* The pages of one row ask for the row that their address names.
LEMMA RowPagesAgree ==
  ASSUME NEW u \in Seated, NEW at, MayShow(at, u), u.role \in allowedRoles(at.page)
  PROVE  /\ at.page \in EventPaths => \A request \in EventDetailPage(at.row) : Agrees(request, u)
         /\ at.page = "keuangan_rt" =>
               \A request \in GroupFinanceDetailPage(at.row) : Agrees(request, u)
         /\ at.page = "transaksi" => \A request \in TransactionDetailPage(at.row) : Agrees(request, u)
         /\ at.page = "pengajuan_dana" =>
               \A request \in FundRequestDetailPage(at.row) : Agrees(request, u)
         /\ at.page \in ProgressPaths =>
               \A request \in GroupDuesProgressPage(u, at.row) : Agrees(request, u)
         /\ \A request \in UserDetailPage(at.row) : Agrees(request, u)
<1>0. u.role \in Role /\ u \in Requesters
  BY SeatedIs
<1>1. ASSUME at.page \in EventPaths PROVE \A request \in EventDetailPage(at.row) : Agrees(request, u)
  BY <1>0, <1>1, AskForAgrees, RolesAre DEF MayShow, Admits, EventDetailPage
<1>2. ASSUME at.page \in {"keuangan_rt", "pengajuan_dana"} PROVE u.role \in Officer
  BY <1>0, <1>2, RoutesAre, SharedAre DEF OwnRoutes, SharedPages, LeadersRoutes, AdminsRoutes,
     TreasurersRoutes, ResidentsRoutes, Role, Officer
<1>3. ASSUME at.page = "keuangan_rt"
      PROVE  \A request \in GroupFinanceDetailPage(at.row) : Agrees(request, u)
  <2>1. getGroupFinanceDetail(u, at.row.group)
    BY <1>0, <1>3, ListedWalletsOpen DEF MayShow
  <2>2. QED
    BY <1>2, <1>3, <2>1, AskForAgrees, RolesAre DEF Admits, GroupFinanceDetailPage
<1>4. ASSUME at.page = "transaksi"
      PROVE  \A request \in TransactionDetailPage(at.row) : Agrees(request, u)
  BY <1>0, <1>4, AskForAgrees, RolesAre DEF MayShow, Admits, TransactionDetailPage
<1>5. ASSUME at.page = "pengajuan_dana"
      PROVE  \A request \in FundRequestDetailPage(at.row) : Agrees(request, u)
  <2>1. getById(u, at.row.group)
    BY <1>0, <1>5, ListedRequestsOpen DEF MayShow
  <2>2. QED
    BY <1>2, <1>5, <2>1, AskForAgrees, RolesAre DEF Admits, FundRequestDetailPage
<1>6. ASSUME at.page \in ProgressPaths
      PROVE  \A request \in GroupDuesProgressPage(u, at.row) : Agrees(request, u)
  <2>1. u.role \in Officer
    BY <1>0, <1>6, RoutesAre, SharedAre DEF OwnRoutes, SharedPages, LeadersRoutes, AdminsRoutes,
       TreasurersRoutes, ResidentsRoutes, Role, Officer, ProgressPaths
  <2>2. PICK row \in {Of(u.home)} \cup getParentDuesProgressList(u.home) :
          GroupDuesProgressPage(u, at.row) = AskFor("dues-progress", {row})
    BY <1>6 DEF GroupDuesProgressPage, MayShow
  <2>3. QED
    BY <2>1, <2>2, ProgressAgrees
<1>7. ASSUME NEW request \in UserDetailPage(at.row) PROVE Agrees(request, u)
  <2>1. CASE request \in Ask({"role-labels-map"})
    <3>1. MayAsk({"role-labels-map"}, u.role)
      BY <1>0, RolesAre DEF MayAsk, Plain
    <3>2. QED
      BY <2>1, <3>1, AskAgrees
  <2>2. CASE request \in AskFor("user", {at.row})
    BY <1>0, <2>2, AskForAgrees, RolesAre DEF Admits
  <2>3. QED
    BY <1>7, <2>1, <2>2 DEF UserDetailPage
<1> QED
  BY <1>1, <1>3, <1>4, <1>5, <1>6, <1>7

\* The guard of the page has let a user through who got there by links.
Inside(at, u) == u \in Seated /\ MayShow(at, u) /\ u.role \in allowedRoles(at.page)

LEMMA PagesAre ==
  ASSUME NEW u, NEW at, Inside(at, u)
  PROVE  /\ u.role \in Role
         /\ at.page \in OwnRoutes(u.role) \cup SharedPages(u.role)
BY SeatedIs, RoutesAre, SharedAre DEF Inside

LEMMA OfficersPages ==
  ASSUME NEW u, NEW at, Inside(at, u),
         at.page \in FinancePaths \cup PaymentPaths \cup ProgressPaths \cup {"keuangan_rt", "pengajuan_dana"}
  PROVE  u.role \in Officer
BY PagesAre DEF OwnRoutes, SharedPages, LeadersRoutes, AdminsRoutes, TreasurersRoutes,
   ResidentsRoutes, Role, Officer, FinancePaths, PaymentPaths, ProgressPaths

\* No page that u gets to asks for more than u may see.
LEMMA LoadsAgree ==
  ASSUME NEW u, NEW at, Inside(at, u), OneRW, NEW request \in Loads(at, u, u)
  PROVE  Agrees(request, u)
<1>0. u \in Seated /\ u.role \in Role /\ MayShow(at, u) /\ u.role \in allowedRoles(at.page)
  BY PagesAre DEF Inside
<1>1. PICK p : p = at.page
  OBVIOUS
<1>2. p \in OwnRoutes(u.role) \cup SharedPages(u.role)
  BY <1>1, PagesAre
<1>3. \/ p \in {"rw", "rt", "finance", "warga"}
      \/ p \in EventsPaths
      \/ p \in EventPaths
      \/ p \in FinancePaths
      \/ p \in PaymentPaths
      \/ p \in OrganizationPaths
      \/ p \in ProgressPaths
      \/ p \in {"keuangan_rt", "transaksi", "pengajuan_dana", "pengaturan_iuran",
                "pembayaran-warga", "pengaturan", "users", "profile"}
  BY <1>0, <1>2 DEF OwnRoutes, SharedPages, LeadersRoutes, AdminsRoutes, TreasurersRoutes,
     ResidentsRoutes, Role, EventsPaths, EventPaths, FinancePaths, PaymentPaths,
     OrganizationPaths, ProgressPaths
<1>4. CASE p \in {"rw", "rt", "finance", "warga"}
  <2>1. \/ p = "rw" /\ u.role = "LEADER" /\ request \in LeaderDashboard
        \/ p = "rt" /\ u.role = "ADMIN" /\ request \in AdminDashboard
        \/ p = "finance" /\ u.role = "TREASURER" /\ request \in TreasurerDashboard
        \/ p = "warga" /\ u.role = "RESIDENT" /\ request \in ResidentDashboard
    BY <1>0, <1>1, <1>2, <1>4 DEF OwnRoutes, SharedPages, LeadersRoutes, AdminsRoutes,
       TreasurersRoutes, ResidentsRoutes, Role, Loads, EventsPaths, EventPaths, FinancePaths,
       PaymentPaths, OrganizationPaths, ProgressPaths
  <2>2. QED
    BY <1>0, <2>1, DashboardsAgree
<1>5. CASE p \in EventsPaths
  <2>1. request \in EventsPage
    BY <1>1, <1>5 DEF Loads, EventsPaths, EventPaths, FinancePaths, PaymentPaths,
       OrganizationPaths, ProgressPaths
  <2>2. MayAsk({"events", "users"}, u.role)
    BY <1>0, RolesAre DEF MayAsk, Plain
  <2>3. QED
    BY <1>0, <2>1, <2>2, AskAgrees DEF EventsPage
<1>6. CASE p \in EventPaths
  <2>1. request \in EventDetailPage(at.row)
    BY <1>1, <1>6 DEF Loads, EventsPaths, EventPaths, FinancePaths, PaymentPaths,
       OrganizationPaths, ProgressPaths
  <2>2. QED
    BY <1>0, <1>1, <1>6, <2>1, RowPagesAgree
<1>7. CASE p \in FinancePaths
  <2>1. request \in FinancePage(u, u)
    BY <1>1, <1>7 DEF Loads, EventsPaths, EventPaths, FinancePaths, PaymentPaths,
       OrganizationPaths, ProgressPaths
  <2>2. QED
    BY <1>0, <1>1, <1>7, <2>1, FinanceAgrees, OfficersPages
<1>8. CASE p \in PaymentPaths
  <2>1. request \in PaymentPage(u, NoRow)
    BY <1>0, <1>1, <1>8 DEF Loads, EventsPaths, EventPaths, FinancePaths, PaymentPaths,
       OrganizationPaths, ProgressPaths, MayShow
  <2>2. QED
    BY <1>0, <1>1, <1>8, <2>1, PaymentAgrees, OfficersPages
<1>9. CASE p \in OrganizationPaths
  <2>1. request \in OrganizationPage(u.role)
    BY <1>1, <1>9 DEF Loads, EventsPaths, EventPaths, FinancePaths, PaymentPaths,
       OrganizationPaths, ProgressPaths
  <2>2. CASE u.role = "LEADER"
    <3>1. MayAsk({"groups", "users"}, u.role)
      BY <1>0, RolesAre DEF MayAsk, Plain
    <3>2. request \in Ask({"groups", "users"}) \/ request \in AskFor("users-in-group", ChildGroups)
      BY <2>1, <2>2 DEF OrganizationPage, LeaderView
    <3>3. \A row \in ChildGroups : u.role \in Roles("users-in-group") /\ Admits("users-in-group", u, row)
      BY <1>0, <2>2, ChildGroupsCounted, RolesAre DEF Admits
    <3>4. QED
      BY <1>0, <3>1, <3>2, <3>3, AskAgrees, AskForAgrees
  <2>3. CASE u.role # "LEADER"
    <3>1. MayAsk({"hierarchy", "users"}, u.role)
      BY <1>0, RolesAre DEF MayAsk, Plain
    <3>2. request \in Ask({"hierarchy", "users"})
      BY <1>0, <2>1, <2>3 DEF OrganizationPage, TreasurerView, AdminView, ResidentView, Role
    <3>3. QED
      BY <1>0, <3>1, <3>2, AskAgrees
  <2>4. QED
    BY <2>2, <2>3
<1>10. CASE p \in ProgressPaths
  <2>1. request \in GroupDuesProgressPage(u, at.row)
    BY <1>1, <1>10 DEF Loads, EventsPaths, EventPaths, FinancePaths, PaymentPaths,
       OrganizationPaths, ProgressPaths
  <2>2. QED
    BY <1>0, <1>1, <1>10, <2>1, RowPagesAgree
<1>11. CASE p \in {"keuangan_rt", "transaksi", "pengajuan_dana", "users"}
  <2>1. \/ p = "keuangan_rt" /\ request \in GroupFinanceDetailPage(at.row)
        \/ p = "transaksi" /\ request \in TransactionDetailPage(at.row)
        \/ p = "pengajuan_dana" /\ request \in FundRequestDetailPage(at.row)
        \/ p = "users" /\ request \in UserDetailPage(at.row)
    BY <1>1, <1>11 DEF Loads, EventsPaths, EventPaths, FinancePaths, PaymentPaths,
       OrganizationPaths, ProgressPaths
  <2>2. QED
    BY <1>0, <1>1, <2>1, RowPagesAgree
<1>12. CASE p \in {"pengaturan_iuran", "pembayaran-warga", "pengaturan", "profile"}
  <2>1. \/ p = "pengaturan_iuran" /\ request \in Ask({"dues-config"}) /\ u.role \in Officer
        \/ p = "pembayaran-warga" /\ request \in Ask({"my-bill", "history"}) /\ u.role = "RESIDENT"
        \/ p = "pengaturan" /\ request \in Ask({"role-labels"}) /\ u.role = "LEADER"
        \/ p = "profile" /\ request \in Ask({"me"})
    <3>1. /\ p = "pengaturan_iuran" => u.role \in Officer
          /\ p = "pembayaran-warga" => u.role = "RESIDENT"
          /\ p = "pengaturan" => u.role = "LEADER"
      BY <1>0, <1>2 DEF OwnRoutes, SharedPages, LeadersRoutes, AdminsRoutes,
         TreasurersRoutes, ResidentsRoutes, Role, Officer
    <3>2. \/ p = "pengaturan_iuran" /\ request \in Ask({"dues-config"})
          \/ p = "pembayaran-warga" /\ request \in Ask({"my-bill", "history"})
          \/ p = "pengaturan" /\ request \in Ask({"role-labels"})
          \/ p = "profile" /\ request \in Ask({"me"})
      BY <1>1, <1>12 DEF Loads, EventsPaths, EventPaths, FinancePaths, PaymentPaths,
         OrganizationPaths, ProgressPaths, DuesConfigPage, ResidentPaymentPage,
         RoleLabelSettingsPage, ProfilePage
    <3>3. QED
      BY <3>1, <3>2
  <2>2. /\ u.role \in Officer => MayAsk({"dues-config"}, u.role)
        /\ u.role = "RESIDENT" => MayAsk({"my-bill", "history"}, u.role)
        /\ u.role = "LEADER" => MayAsk({"role-labels"}, u.role)
        /\ MayAsk({"me"}, u.role)
    BY <1>0, RolesAre DEF MayAsk, Plain
  <2>3. QED
    BY <1>0, <2>1, <2>2, AskAgrees
<1> QED
  BY <1>3, <1>4, <1>5, <1>6, <1>7, <1>8, <1>9, <1>10, <1>11, <1>12

-----------------------------------------------------------------------------
(* What the buttons of a page, and the sidebar, ask for *)

LEMMA BadgesAgree ==
  ASSUME NEW u \in Seated, NEW request \in fetchBadges(u.role)
  PROVE  Agrees(request, u)
<1>0. u.role \in Role
  BY SeatedIs
<1>1. PICK E : request \in Ask(E) /\ MayAsk(E, u.role)
  <2>1. /\ MayAsk({"me"}, u.role)
        /\ u.role \in Officer => MayAsk({"events"}, u.role)
        /\ u.role = "RESIDENT" => MayAsk({"my-bill", "history"}, u.role)
    BY <1>0, RolesAre DEF MayAsk, Plain
  <2>2. u.role \in Officer =>
          MayAsk({"transactions"} \cup (IF u.role \in {"LEADER", "ADMIN"} THEN {"dues-config"} ELSE {}),
                 u.role)
    BY RolesAre DEF MayAsk, Plain
  <2>3. QED
    BY <2>1, <2>2, Zenon DEF fetchBadges, fetchProfileBadge, fetchEventBadge, fetchFinanceBadge,
       fetchPaymentBadge
<1> QED
  BY <1>1, AskAgrees

LEMMA FinanceOffersAgree ==
  ASSUME NEW u \in Seated, u.role \in Officer, NEW request \in FinancePageOffers(u, u)
  PROVE  Agrees(request, u)
<1>0. u \in Requesters /\ u.home \in Group
  BY SeatedIs
<1>1. CASE request.endpoint = "report" /\ u.role \in {"LEADER", "ADMIN"}
  BY <1>1, RolesAre DEF Agrees, Admits
<1>2. CASE request.endpoint = "book" /\ u.role \in {"LEADER", "TREASURER"}
  BY <1>2, RolesAre DEF Agrees, Admits
<1>3. CASE request.endpoint = "create-fund-request" /\ u.role \in {"ADMIN", "TREASURER"}
  <2>1. createRequest(u) \/ Type(u.home) = "RW"
    BY DEF createRequest, Type
  <2>2. QED
    BY <1>3, <2>1, RolesAre DEF Agrees, Admits, InVain
<1>4. CASE /\ request \in AskFor("decide-fund-request", getRequestsByGroup(u))
           /\ u.role = "LEADER" \/ isRwTreasurer(u, u)
  <2>1. CASE u.role = "LEADER"
    BY <1>4, <2>1 DEF Agrees, InVain, AskFor
  <2>2. CASE isRwTreasurer(u, u)
    <3>1. \A row \in getRequestsByGroup(u) : /\ u.role \in Roles("decide-fund-request")
                                             /\ Admits("decide-fund-request", u, row)
      BY <1>0, <2>2, ListedRequestsOpen, RolesAre DEF isRwTreasurer, Admits
    <3>2. QED
      BY <1>4, <3>1, AskForAgrees
  <2>3. QED
    BY <1>4, <2>1, <2>2
<1> QED
  BY <1>1, <1>2, <1>3, <1>4 DEF FinancePageOffers, Ask

\* No button of it asks for more than u may do.
LEMMA OffersAgree ==
  ASSUME NEW u, NEW at, Inside(at, u), NEW request \in Offers(at, u, u)
  PROVE  Agrees(request, u)
<1>0. u \in Seated /\ u.role \in Role /\ MayShow(at, u) /\ u \in Requesters
  BY PagesAre DEF Inside, Seated
<1>1. PICK p : p = at.page
  OBVIOUS
<1>2. p \in OwnRoutes(u.role) \cup SharedPages(u.role)
  BY <1>1, PagesAre
<1>3. \/ p \in EventsPaths /\ request \in EventsPageOffers(u.role)
      \/ p \in FinancePaths /\ request \in FinancePageOffers(u, u)
      \/ p = "pengajuan_dana" /\ request \in FundRequestDetailPageOffers(u, at.row)
      \/ p = "pengaturan_iuran" /\ request \in Ask({"set-dues-config"})
      \/ p = "organisasi" /\ request \in LeaderViewOffers
      \/ p = "pengaturan" /\ request \in Ask({"set-role-label"})
      \/ p = "profile" /\ request \in Ask({"profile"})
      \/ p = "warga" /\ request \in Ask({"report"})
      \/ p = "pembayaran-warga" /\ request \in ResidentPaymentPageOffers(u)
      \/ p = "transaksi" /\ request \in TransactionDetailPageOffers(at.row)
  BY <1>1 DEF Offers, DuesConfigForm, RoleLabelSettingsPageOffers, ProfilePageOffers,
     ResidentDashboardOffers
<1>4. CASE p \in EventsPaths /\ request \in EventsPageOffers(u.role)
  <2>1. request.endpoint = "create-event" /\ u.role # "TREASURER"
    BY <1>4 DEF EventsPageOffers, Ask
  <2>2. QED
    BY <1>0, <2>1, RolesAre DEF Agrees, Admits, InVain, Role
<1>5. CASE p \in FinancePaths /\ request \in FinancePageOffers(u, u)
  BY <1>0, <1>1, <1>5, OfficersPages, FinanceOffersAgree
<1>6. CASE p = "pengajuan_dana" /\ request \in FundRequestDetailPageOffers(u, at.row)
  <2>1. /\ u.role = "TREASURER" /\ u.home = ParentOf[at.row.group]
        /\ request.endpoint = "decide-fund-request" /\ request.row = at.row
    BY <1>6 DEF FundRequestDetailPageOffers, AskFor
  <2>2. QED
    BY <2>1, RolesAre DEF Agrees, Admits, approveExtraFunds
<1>7. CASE /\ p \in {"pengaturan_iuran", "pengaturan", "profile", "warga", "organisasi"}
           /\ \/ p = "pengaturan_iuran" /\ request \in Ask({"set-dues-config"})
              \/ p = "pengaturan" /\ request \in Ask({"set-role-label"})
              \/ p = "profile" /\ request \in Ask({"profile"})
              \/ p = "warga" /\ request \in Ask({"report"})
              \/ p = "organisasi" /\ request \in LeaderViewOffers
  <2>1. /\ p = "pengaturan_iuran" => u.role \in {"LEADER", "ADMIN"}
        /\ p \in {"pengaturan", "organisasi"} => u.role = "LEADER"
        /\ p = "warga" => u.role = "RESIDENT"
    BY <1>0, <1>2 DEF OwnRoutes, SharedPages, LeadersRoutes, AdminsRoutes,
       TreasurersRoutes, ResidentsRoutes, Role
  <2>2. /\ u.role \in {"LEADER", "ADMIN"} => MayAsk({"set-dues-config"}, u.role)
        /\ u.role = "LEADER" => MayAsk({"set-role-label"}, u.role)
        /\ MayAsk({"profile"}, u.role)
        /\ u.role = "RESIDENT" => MayAsk({"report"}, u.role)
    BY <1>0, RolesAre DEF MayAsk, Plain, Officer, Role
  <2>3. CASE p = "organisasi" /\ request \in LeaderViewOffers
    <3>1. request.endpoint \in {"create-group", "update-group", "create-user", "update-user",
                                "delete-group", "delete-user"}
      BY <2>3 DEF LeaderViewOffers, Ask, CreateRtDialog, EditRtDialog, CreateWargaDialog,
         EditWargaDialog
    <3>2. QED
      BY <2>1, <2>3, <3>1, RolesAre DEF Agrees, Admits
  <2>4. QED
    BY <1>0, <1>7, <2>1, <2>2, <2>3, AskAgrees
<1>8. CASE p = "pembayaran-warga" /\ request \in ResidentPaymentPageOffers(u)
  <2>1. u.role = "RESIDENT"
    BY <1>0, <1>2, <1>8 DEF OwnRoutes, SharedPages, LeadersRoutes, AdminsRoutes,
       TreasurersRoutes, ResidentsRoutes, Role
  <2>2. MayAsk({"pay-dues"}, u.role)
    BY <2>1, RolesAre DEF MayAsk, Plain
  <2>3. \A row \in getHistory(u) : u.role \in Roles("sync") /\ Admits("sync", u, row)
    BY <1>0, ListedTransactionsOpen, RolesAre DEF Admits
  <2>4. QED
    BY <1>0, <1>8, <2>2, <2>3, AskAgrees, AskForAgrees DEF ResidentPaymentPageOffers
<1>9. CASE p = "transaksi" /\ request \in TransactionDetailPageOffers(at.row)
  <2>1. \A row \in {at.row} : u.role \in Roles("sync") /\ Admits("sync", u, row)
    BY <1>0, <1>1, <1>9, RolesAre DEF Admits, MayShow
  <2>2. QED
    BY <1>0, <1>9, <2>1, AskForAgrees DEF TransactionDetailPageOffers
<1> QED
  BY <1>3, <1>4, <1>5, <1>6, <1>7, <1>8, <1>9

-----------------------------------------------------------------------------
(* Where the links of a page lead *)

\* The page behind a link lets u in (or is a known exception), with a row u may see.
Leads(at, u, to) ==
    /\ u.role \in allowedRoles(to.page) \/ Bounces(at, to)
    /\ MayShow(to, u)

\* The pages whose guard lets a role in.
OpenTo(r) == OwnRoutes(r) \cup SharedPages(r)

LEMMA NoRowShows ==
  ASSUME NEW u, NEW to, to.row = NoRow, to.page \notin RowPaths
  PROVE  MayShow(to, u)
BY DEF MayShow, RowPaths, EventPaths

LEMMA MyPages ==
  ASSUME NEW r \in Role, NEW p \in OpenTo(r)
  PROVE  r \in allowedRoles(p)
BY RoutesAre, SharedAre DEF OpenTo

LEMMA PagesLead ==
  ASSUME NEW u \in Seated, NEW at, NEW pages, pages \subseteq OpenTo(u.role) \ RowPaths,
         NEW to \in At(pages)
  PROVE  Leads(at, u, to)
<1>1. to.page \in pages /\ to.row = NoRow
  BY DEF At
<1> QED
  BY <1>1, NoRowShows, MyPages, SeatedIs DEF Leads

LEMMA EventsLead ==
  ASSUME NEW u \in Seated, NEW at, NEW p \in EventPaths \cap OpenTo(u.role),
         NEW to \in AtEach(p, findAllEvents(u))
  PROVE  Leads(at, u, to)
<1>1. to.page = p /\ to.row \in findAllEvents(u)
  BY DEF AtEach
<1>2. checkGroupAccess(u, to.row.group)
  BY <1>1, ListedEventsOpen, SeatedIs
<1>3. p \notin PaymentPaths \cup ProgressPaths \cup {"keuangan_rt", "transaksi", "pengajuan_dana"}
  BY DEF EventPaths, PaymentPaths, ProgressPaths
<1>4. MayShow(to, u)
  BY <1>1, <1>2, <1>3 DEF MayShow
<1> QED
  BY <1>1, <1>4, MyPages, SeatedIs DEF Leads

LEMMA TransactionsLead ==
  ASSUME NEW u \in Seated, NEW at, NEW rows,
         \A row \in rows : getTransactionDetail(u, row) /\ syncPayment(u, row),
         NEW to \in AtEach("transaksi", rows)
  PROVE  Leads(at, u, to)
<1>1. to.page = "transaksi" /\ to.row \in rows
  BY DEF AtEach
<1>2. MayShow(to, u)
  BY <1>1 DEF MayShow, EventPaths, PaymentPaths, ProgressPaths
<1>3. "transaksi" \in OpenTo(u.role)
  BY DEF OpenTo, SharedPages
<1> QED
  BY <1>1, <1>2, <1>3, MyPages, SeatedIs DEF Leads

LEMMA UsersLead ==
  ASSUME NEW u \in Seated, NEW at, NEW rows, NEW to \in AtEach("users", rows)
  PROVE  Leads(at, u, to)
<1>1. to.page = "users"
  BY DEF AtEach
<1>2. MayShow(to, u)
  BY <1>1 DEF MayShow, EventPaths, PaymentPaths, ProgressPaths
<1>3. "users" \in OpenTo(u.role)
  BY DEF OpenTo, SharedPages
<1> QED
  BY <1>1, <1>2, <1>3, MyPages, SeatedIs DEF Leads

LEMMA ProgressLead ==
  ASSUME NEW u \in Seated, NEW at, NEW p \in ProgressPaths \cap OpenTo(u.role),
         NEW rows, rows \subseteq {Of(u.home)} \cup getParentDuesProgressList(u.home),
         NEW to \in AtEach(p, rows)
  PROVE  Leads(at, u, to)
<1>1. to.page = p /\ to.row \in rows
  BY DEF AtEach
<1>2. p \notin PaymentPaths \cup EventPaths \cup {"keuangan_rt", "transaksi", "pengajuan_dana"}
  BY DEF EventPaths, PaymentPaths, ProgressPaths
<1>3. MayShow(to, u)
  BY <1>1, <1>2 DEF MayShow
<1> QED
  BY <1>1, <1>3, MyPages, SeatedIs DEF Leads

LEMMA OfficersTransactionsOpen ==
  ASSUME NEW u \in Seated, u.role \in Officer, NEW row \in getTransactionHistory(u)
  PROVE  getTransactionDetail(u, row) /\ syncPayment(u, row)
BY ListedTransactionsOpen, SeatedIs DEF syncPayment

\* The officers of an RW may open the transactions of every group.
LEMMA RwTransactionsOpen ==
  ASSUME NEW u \in Seated, u.role \in Officer, Type(u.home) = "RW", NEW row
  PROVE  getTransactionDetail(u, row) /\ syncPayment(u, row)
BY DEF getTransactionDetail, syncPayment, Officer

LEMMA FinanceLead ==
  ASSUME NEW u \in Seated, u.role \in Officer, NEW at, NEW to \in FinancePageLinks(u, u)
  PROVE  Leads(at, u, to)
<1>0. u.home \in Group /\ u.role \in Role
  BY SeatedIs
<1>1. CASE to \in TransactionTable(u)
  BY <1>1, OfficersTransactionsOpen, TransactionsLead DEF TransactionTable
<1>2. CASE u.role # "TREASURER" /\ to \in At({"pengaturan_iuran"})
  <2>1. {"pengaturan_iuran"} \subseteq OpenTo(u.role) \ RowPaths
    BY <1>0, <1>2 DEF OpenTo, SharedPages, RowPaths, EventPaths, Officer, Role
  <2>2. QED
    BY <1>2, <2>1, PagesLead
<1>3. CASE u.role = "TREASURER" /\ to \in AtEach("progres-iuran-bendahara", {Of(u.home)})
  <2>1. "progres-iuran-bendahara" \in ProgressPaths \cap OpenTo(u.role)
    BY <1>3 DEF ProgressPaths, OpenTo, OwnRoutes, TreasurersRoutes
  <2>2. QED
    BY <1>3, <2>1, ProgressLead
<1>4. CASE (u.role = "LEADER" \/ isRwTreasurer(u, u)) /\ to \in ChildrenWalletsSection(u)
  <2>1. Type(u.home) = "RW"
    BY <1>4 DEF isRwTreasurer, Seated
  <2>2. to.page = "keuangan_rt" /\ to.row \in getChildrenWallets(u)
    BY <1>4 DEF ChildrenWalletsSection, AtEach
  <2>3. "keuangan_rt" \in OpenTo(u.role)
    BY DEF OpenTo, SharedPages, Officer
  <2>4. MayShow(to, u)
    BY <2>1, <2>2 DEF MayShow, EventPaths, PaymentPaths, ProgressPaths
  <2>5. QED
    BY <1>0, <2>2, <2>3, <2>4, MyPages DEF Leads
<1>5. CASE to \in FundRequestTable(u)
  <2>1. to.page = "pengajuan_dana" /\ to.row \in getRequestsByGroup(u)
    BY <1>5 DEF FundRequestTable, AtEach
  <2>2. "pengajuan_dana" \in OpenTo(u.role)
    BY DEF OpenTo, SharedPages, Officer
  <2>3. MayShow(to, u)
    BY <2>1 DEF MayShow, EventPaths, PaymentPaths, ProgressPaths
  <2>4. QED
    BY <1>0, <2>1, <2>2, <2>3, MyPages DEF Leads
<1> QED
  BY <1>1, <1>2, <1>3, <1>4, <1>5 DEF FinancePageLinks

LeadersLinks == {"pengaturan_iuran", "kas", "kegiatan", "organisasi", "pembayaran"}

LEMMA DashboardsLead ==
  ASSUME NEW u \in Seated, NEW at, NEW to
  PROVE  /\ u.role = "LEADER" /\ to \in LeaderDashboardLinks(u) => Leads(at, u, to)
         /\ u.role = "ADMIN" /\ at.page = "rt" /\ to \in AdminDashboardLinks(u) => Leads(at, u, to)
         /\ u.role = "TREASURER" /\ to \in TreasurerDashboardLinks(u) => Leads(at, u, to)
         /\ u.role = "RESIDENT" /\ to \in ResidentDashboardLinks(u) => Leads(at, u, to)
<1>1. ASSUME u.role = "LEADER", to \in LeaderDashboardLinks(u) PROVE Leads(at, u, to)
  <2>1. \/ \E pages : to \in At(pages) /\ pages \subseteq LeadersLinks
        \/ to \in AtEach("events", findAllEvents(u))
    <3>1. \A p \in {"pengaturan_iuran", "kas", "kegiatan"} : {p} \subseteq LeadersLinks
      BY DEF LeadersLinks
    <3>2. defaultLinks \subseteq LeadersLinks
      BY DEF defaultLinks, LeadersLinks
    <3>3. QED
      BY <1>1, <3>1, <3>2, Zenon DEF LeaderDashboardLinks, ActionRequired, RecentEventsCard,
         RecentFundRequests, QuickLinks
  <2>2. LeadersLinks \subseteq OpenTo(u.role) \ RowPaths
    BY <1>1 DEF LeadersLinks, OpenTo, SharedPages, OwnRoutes, LeadersRoutes, RowPaths, EventPaths
  <2>3. "events" \in EventPaths \cap OpenTo(u.role)
    BY <1>1 DEF OpenTo, OwnRoutes, LeadersRoutes, EventPaths
  <2>4. ASSUME NEW pages, to \in At(pages), pages \subseteq LeadersLinks
        PROVE  Leads(at, u, to)
    <3>1. pages \subseteq OpenTo(u.role) \ RowPaths
      BY <2>2, <2>4
    <3>2. QED
      BY <2>4, <3>1, PagesLead
  <2>5. QED
    BY <2>1, <2>3, <2>4, EventsLead
<1>2. ASSUME u.role = "ADMIN", at.page = "rt", to \in AdminDashboardLinks(u) PROVE Leads(at, u, to)
  <2>1. CASE to \in At({"pengaturan_iuran"}) \/ to \in At({"kegiatan-rt"})
    <3>1. {"pengaturan_iuran"} \subseteq OpenTo(u.role) \ RowPaths
      BY <1>2 DEF OpenTo, SharedPages, RowPaths, EventPaths
    <3>2. {"kegiatan-rt"} \subseteq OpenTo(u.role) \ RowPaths
      BY <1>2 DEF OpenTo, OwnRoutes, AdminsRoutes, RowPaths, EventPaths
    <3>3. QED
      BY <2>1, <3>1, <3>2, PagesLead
  <2>2. CASE to \in AtEach("events-rt", findAllEvents(u))
    <3>1. "events-rt" \in EventPaths \cap OpenTo(u.role)
      BY <1>2 DEF OpenTo, OwnRoutes, AdminsRoutes, EventPaths
    <3>2. QED
      BY <2>2, <3>1, EventsLead
  <2>3. CASE to \in At(defaultLinks)
    <3>1. to.page \in defaultLinks /\ to.row = NoRow
      BY <2>3 DEF At
    <3>2. to.page \notin RowPaths
      BY <3>1 DEF defaultLinks, RowPaths, EventPaths
    <3>3. QED
      BY <1>2, <3>1, <3>2, NoRowShows DEF Leads, Bounces
  <2>4. QED
    BY <1>2, <2>1, <2>2, <2>3 DEF AdminDashboardLinks, RecentEventsCard, QuickLinks
<1>3. ASSUME u.role = "TREASURER", to \in TreasurerDashboardLinks(u) PROVE Leads(at, u, to)
  <2>1. CASE to \in AtEach("events-bendahara", findAllEvents(u))
    <3>1. "events-bendahara" \in EventPaths \cap OpenTo(u.role)
      BY <1>3 DEF OpenTo, OwnRoutes, TreasurersRoutes, EventPaths
    <3>2. QED
      BY <2>1, <3>1, EventsLead
  <2>2. CASE \E pages : to \in At(pages) /\ pages \subseteq treasurerLinks
    <3>1. PICK pages : to \in At(pages) /\ pages \subseteq treasurerLinks
      BY <2>2
    <3>2. treasurerLinks \subseteq OpenTo(u.role) \ RowPaths
      BY <1>3 DEF treasurerLinks, OpenTo, OwnRoutes, TreasurersRoutes, RowPaths, EventPaths
    <3>3. pages \subseteq OpenTo(u.role) \ RowPaths
      BY <3>1, <3>2
    <3>4. QED
      BY <3>1, <3>3, PagesLead
  <2>3. \A p \in {"kas-bendahara", "kegiatan-bendahara"} : {p} \subseteq treasurerLinks
    BY DEF treasurerLinks
  <2>4. treasurerLinks \subseteq treasurerLinks
    OBVIOUS
  <2>5. \/ to \in At({"kas-bendahara"}) \/ to \in At({"kegiatan-bendahara"}) \/ to \in At(treasurerLinks)
        \/ to \in AtEach("events-bendahara", findAllEvents(u))
    BY <1>3, Zenon DEF TreasurerDashboardLinks, ActionRequired, RecentTransactions,
       RecentEventsCard, QuickLinks
  <2>6. QED
    BY <2>1, <2>2, <2>3, <2>4, <2>5
<1>4. ASSUME u.role = "RESIDENT", to \in ResidentDashboardLinks(u) PROVE Leads(at, u, to)
  <2>1. {"pembayaran-warga", "organisasi-warga"} \subseteq OpenTo(u.role) \ RowPaths
    BY <1>4 DEF OpenTo, OwnRoutes, ResidentsRoutes, RowPaths, EventPaths
  <2>2. "events-warga" \in EventPaths \cap OpenTo(u.role)
    BY <1>4 DEF OpenTo, OwnRoutes, ResidentsRoutes, EventPaths
  <2>3. QED
    BY <1>4, <2>1, <2>2, PagesLead, EventsLead DEF ResidentDashboardLinks
<1> QED
  BY <1>1, <1>2, <1>3, <1>4

LEMMA MenuLeads ==
  ASSUME NEW u \in Seated, NEW at, NEW to \in At(getMenuItems(u.role))
  PROVE  Leads(at, u, to)
<1>1. getMenuItems(u.role) \subseteq OpenTo(u.role) \ RowPaths
  BY SeatedIs DEF getMenuItems, OpenTo, OwnRoutes, SharedPages, LeadersRoutes, AdminsRoutes,
     TreasurersRoutes, ResidentsRoutes, Role, RowPaths, EventPaths
<1> QED
  BY <1>1, PagesLead

LEMMA OrganizationLead ==
  ASSUME NEW u \in Seated, NEW at, NEW to \in OrganizationPageLinks(u, u)
  PROVE  Leads(at, u, to)
<1>1. \/ \E rows : to \in AtEach("users", rows)
      \/ to \in At({"profile"})
  <2>1. CASE u.role = "LEADER"
    BY <2>1 DEF OrganizationPageLinks, LeaderViewLinks, RtMemberTable, WargaTable
  <2>2. CASE u.role = "TREASURER"
    BY <2>2 DEF OrganizationPageLinks, TreasurerViewLinks, RwInfoCard, ReadOnlyMemberTable
  <2>3. CASE u.role = "ADMIN"
    BY <2>3 DEF OrganizationPageLinks, AdminViewLinks, RwInfoCard, ReadOnlyMemberTable
  <2>4. CASE u.role = "RESIDENT"
    BY <2>4 DEF OrganizationPageLinks, ResidentViewLinks, RwInfoCard, ReadOnlyMemberTable
  <2>5. QED
    BY <2>1, <2>2, <2>3, <2>4, SeatedIs DEF Role
<1>2. {"profile"} \subseteq OpenTo(u.role) \ RowPaths
  BY DEF OpenTo, SharedPages, RowPaths, EventPaths
<1> QED
  BY <1>1, <1>2, UsersLead, PagesLead

LEMMA ParentRowsLead ==
  ASSUME NEW u \in Seated, NEW at, NEW to \in ParentRow(u, u)
  PROVE  Leads(at, u, to)
<1>1. u.role \in {"LEADER", "TREASURER"}
  BY RolesAre DEF ParentRow
<1>2. PICK p : /\ p = IF u.role = "TREASURER" THEN "progres-iuran-bendahara" ELSE "progres-iuran"
               /\ to \in AtEach(p, getParentDuesProgressList(u.home))
  BY DEF ParentRow
<1>3. p \in ProgressPaths \cap OpenTo(u.role)
  BY <1>1, <1>2 DEF ProgressPaths, OpenTo, OwnRoutes, LeadersRoutes, TreasurersRoutes
<1>4. getParentDuesProgressList(u.home) \subseteq {Of(u.home)} \cup getParentDuesProgressList(u.home)
  OBVIOUS
<1> QED
  BY <1>2, <1>3, <1>4, ProgressLead

\* No link of a page that u gets to leads where u may not go.
LEMMA LinksLead ==
  ASSUME NEW u, NEW at, Inside(at, u), NEW to \in Links(at, u, u)
  PROVE  Leads(at, u, to)
<1>0. u \in Seated /\ u.role \in Role /\ MayShow(at, u)
  BY PagesAre DEF Inside
<1>1. PICK p : p = at.page
  OBVIOUS
<1>2. p \in OwnRoutes(u.role) \cup SharedPages(u.role)
  BY <1>1, PagesAre
<1>3. \/ to \in At(getMenuItems(u.role))
      \/ p = "rw" /\ to \in LeaderDashboardLinks(u)
      \/ p = "rt" /\ to \in AdminDashboardLinks(u)
      \/ p = "finance" /\ to \in TreasurerDashboardLinks(u)
      \/ p = "warga" /\ to \in ResidentDashboardLinks(u)
      \/ p \in EventsPaths /\ to \in EventsTable(p, u)
      \/ p \in FinancePaths /\ to \in FinancePageLinks(u, u)
      \/ p = "keuangan_rt" /\ to \in GroupFinanceDetailPageLinks(u, at.row)
      \/ p \in PaymentPaths /\ to \in ParentRow(u, u)
      \/ p \in OrganizationPaths /\ to \in OrganizationPageLinks(u, u)
      \/ p = "pembayaran-warga" /\ to \in ResidentPaymentPageLinks(u)
  BY <1>1 DEF Links
<1>4. CASE to \in At(getMenuItems(u.role))
  BY <1>0, <1>4, MenuLeads
<1>5. CASE \/ p = "rw" /\ to \in LeaderDashboardLinks(u)
           \/ p = "rt" /\ to \in AdminDashboardLinks(u)
           \/ p = "finance" /\ to \in TreasurerDashboardLinks(u)
           \/ p = "warga" /\ to \in ResidentDashboardLinks(u)
  <2>1. /\ p = "rw" => u.role = "LEADER"
        /\ p = "rt" => u.role = "ADMIN"
        /\ p = "finance" => u.role = "TREASURER"
        /\ p = "warga" => u.role = "RESIDENT"
    BY <1>0, <1>2 DEF OwnRoutes, SharedPages, LeadersRoutes, AdminsRoutes,
       TreasurersRoutes, ResidentsRoutes, Role
  <2>2. QED
    BY <1>0, <1>1, <1>5, <2>1, DashboardsLead
<1>6. CASE p \in EventsPaths /\ to \in EventsTable(p, u)
  <2>1. getEventDetailPath(p) \in EventPaths \cap OpenTo(u.role)
    BY <1>0, <1>2, <1>6 DEF EventsPaths, EventPaths, getEventDetailPath, OpenTo, OwnRoutes,
       SharedPages, LeadersRoutes, AdminsRoutes, TreasurersRoutes, ResidentsRoutes, Role
  <2>2. QED
    BY <1>0, <1>6, <2>1, EventsLead DEF EventsTable
<1>7. CASE p \in FinancePaths /\ to \in FinancePageLinks(u, u)
  BY <1>0, <1>1, <1>7, OfficersPages, FinanceLead
<1>8. CASE p = "keuangan_rt" /\ to \in GroupFinanceDetailPageLinks(u, at.row)
  <2>1. u.role \in Officer /\ Type(u.home) = "RW"
    BY <1>0, <1>1, <1>8, OfficersPages DEF MayShow
  <2>2. CASE to \in At({backPath(u.role)})
    <3>1. {backPath(u.role)} \subseteq OpenTo(u.role) \ RowPaths
      BY <1>0, <2>1 DEF backPath, OpenTo, OwnRoutes, LeadersRoutes, AdminsRoutes,
         TreasurersRoutes, ResidentsRoutes, Role, Officer, RowPaths, EventPaths
    <3>2. QED
      BY <1>0, <2>2, <3>1, PagesLead
  <2>3. CASE to \in AtEach("transaksi", getGroupFinanceDetailList(at.row.group))
    <3>1. \A row \in getGroupFinanceDetailList(at.row.group) :
             getTransactionDetail(u, row) /\ syncPayment(u, row)
      BY <1>0, <2>1, RwTransactionsOpen
    <3>2. QED
      BY <1>0, <2>3, <3>1, TransactionsLead
  <2>4. QED
    BY <1>8, <2>2, <2>3 DEF GroupFinanceDetailPageLinks
<1>9. CASE p \in PaymentPaths /\ to \in ParentRow(u, u)
  BY <1>0, <1>9, ParentRowsLead
<1>10. CASE p \in OrganizationPaths /\ to \in OrganizationPageLinks(u, u)
  BY <1>0, <1>10, OrganizationLead
<1>11. CASE p = "pembayaran-warga" /\ to \in ResidentPaymentPageLinks(u)
  BY <1>0, <1>11, ListedTransactionsOpen, SeatedIs, TransactionsLead DEF ResidentPaymentPageLinks
<1> QED
  BY <1>3, <1>4, <1>5, <1>6, <1>7, <1>8, <1>9, <1>10, <1>11

-----------------------------------------------------------------------------
(* The session *)

\* What every step of the session preserves.  A user who has not been moved sees rows
\* of the own group or those the lists gave; a batch was right for whoever sent it.
SeatsInv == seat \in [Account -> Seat]
UserInv ==
    isAuthenticated =>
        /\ user \in Seated
        /\ ~moved => user = Requester(user.id) /\ MayShow(path, user)
ShownInv == isAuthenticated /\ InDashboard => user.role \in allowedRoles(path.page)
SentInv ==
    \A b \in sent : /\ b.viewer \in Seated
                    /\ \A request \in b.requests : Agrees(request, b.viewer)
SessionInv == SeatsInv /\ UserInv /\ ShownInv /\ SentInv

LEMMA RequesterSeated ==
  ASSUME SeatsInv, NEW a \in Account
  PROVE  Requester(a) \in Seated /\ Requester(a).id = a
<1>1. seat[a] \in Seat
  BY DEF SeatsInv
<1>2. /\ seat[a].role \in Role /\ seat[a].home \in Group
      /\ seat[a].role = "LEADER" => Type(seat[a].home) = "RW"
  BY <1>1, SessionAssumption DEF Seat
<1> QED
  BY <1>2 DEF Requester, Seated, Requesters

LEMMA HereInside ==
  ASSUME SessionInv, isAuthenticated, InDashboard, ~moved
  PROVE  user = Requester(user.id) /\ Inside(path, user)
BY DEF SessionInv, UserInv, ShownInv, Inside

LEMMA BatchAgrees ==
  ASSUME user \in Seated, NEW requests, ~moved => \A request \in requests : Agrees(request, user)
  PROVE  /\ Batch(requests).viewer \in Seated
         /\ \A request \in Batch(requests).requests : Agrees(request, Batch(requests).viewer)
BY DEF Batch

LEMMA PlainPageShows ==
  ASSUME NEW p, p \notin RowPaths, NEW u
  PROVE  MayShow([page |-> p, row |-> NoRow], u)
BY NoRowShows

LEMMA InitSession == Init => SessionInv
<1> SUFFICES ASSUME Init PROVE SessionInv
  OBVIOUS
<1> QED
  BY DEF Init, SessionInv, SeatsInv, UserInv, ShownInv, SentInv, isAuthenticated

LEMMA RedirectSession ==
  ASSUME SessionInv, Redirect PROVE SessionInv'
<1>1. PICK p : p = NavigateTo
  OBVIOUS
<1>2. /\ path' = [page |-> p, row |-> NoRow] /\ shown' = FALSE
      /\ seat' = seat /\ user' = user /\ sent' = sent /\ moved' = moved
  BY <1>1 DEF Redirect, GoToPage, GoTo
<1>3. p \notin RowPaths
  BY <1>1 DEF NavigateTo, getDashboardPathByRole, RowPaths, EventPaths
<1>4. \A u : MayShow(path', u)
  BY <1>2, <1>3, PlainPageShows
<1>5. UserInv'
  BY <1>2, <1>4 DEF SessionInv, UserInv, isAuthenticated, Requester
<1> QED
  BY <1>2, <1>5 DEF SessionInv, SeatsInv, ShownInv, SentInv, InDashboard

LEMMA RenderSession ==
  ASSUME OneRW, SessionInv, Render PROVE SessionInv'
<1>1. /\ LetsIn(path.page) /\ shown' = TRUE
      /\ seat' = seat /\ user' = user /\ path' = path /\ moved' = moved
  BY DEF Render
<1>2. ShownInv'
  BY <1>1 DEF ShownInv, LetsIn, isAuthenticated, InDashboard
<1>3. UserInv' /\ SeatsInv'
  BY <1>1 DEF SessionInv, UserInv, SeatsInv, isAuthenticated, Requester
<1>4. SentInv'
  <2>1. CASE path.page = "login"
    BY <1>1, <2>1, Zenon DEF Render, SessionInv, SentInv
  <2>2. CASE path.page # "login"
    <3>1. PICK requests : requests = Loads(path, user, Requester(user.id))
      OBVIOUS
    <3>2. PICK b : b = Batch(requests)
      OBVIOUS
    <3>3. sent' = sent \cup {b}
      BY <2>2, <3>1, <3>2 DEF Render
    <3>4. isAuthenticated /\ user.role \in allowedRoles(path.page)
      BY <1>1, <2>2 DEF LetsIn
    <3>5. user \in Seated /\ (~moved => user = Requester(user.id) /\ MayShow(path, user))
      BY <3>4 DEF SessionInv, UserInv
    <3>6. ~moved => \A request \in requests : Agrees(request, user)
      BY <3>1, <3>4, <3>5, LoadsAgree DEF Inside
    <3>7. b.viewer \in Seated /\ \A request \in b.requests : Agrees(request, b.viewer)
      BY <3>2, <3>5, <3>6, BatchAgrees
    <3>8. QED
      BY <3>3, <3>7 DEF SessionInv, SentInv
  <2>3. QED
    BY <2>1, <2>2
<1> QED
  BY <1>2, <1>3, <1>4 DEF SessionInv

LEMMA ClickSession ==
  ASSUME SessionInv, Click PROVE SessionInv'
<1>1. PICK to \in Links(path, user, Requester(user.id)) : path' = to /\ shown' = FALSE
  BY DEF Click, GoTo
<1>2. /\ isAuthenticated /\ InDashboard
      /\ seat' = seat /\ user' = user /\ sent' = sent /\ moved' = moved
  BY DEF Click
<1>3. ASSUME ~moved PROVE MayShow(to, user)
  BY <1>1, <1>2, <1>3, HereInside, LinksLead DEF Leads
<1>4. UserInv'
  BY <1>1, <1>2, <1>3 DEF SessionInv, UserInv, isAuthenticated, Requester
<1> QED
  BY <1>1, <1>2, <1>4 DEF SessionInv, SeatsInv, ShownInv, SentInv, InDashboard

LEMMA UseSession ==
  ASSUME SessionInv, Use PROVE SessionInv'
<1>1. PICK operation \in Offers(path, user, Requester(user.id)) : sent' = sent \cup {Batch({operation})}
  BY DEF Use
<1>2. /\ isAuthenticated /\ InDashboard /\ user \in Seated
      /\ seat' = seat /\ user' = user /\ path' = path /\ shown' = shown /\ moved' = moved
  BY DEF Use, SessionInv, UserInv
<1>3. ~moved => \A request \in {operation} : Agrees(request, user)
  BY <1>1, <1>2, HereInside, OffersAgree
<1>4. PICK b : b = Batch({operation})
  OBVIOUS
<1>5. b.viewer \in Seated /\ \A request \in b.requests : Agrees(request, b.viewer)
  BY <1>2, <1>3, <1>4, BatchAgrees
<1>6. SentInv'
  BY <1>1, <1>4, <1>5 DEF SessionInv, SentInv
<1> QED
  BY <1>2, <1>6 DEF SessionInv, SeatsInv, UserInv, ShownInv, InDashboard, isAuthenticated, Requester

LEMMA BadgePollSession ==
  ASSUME SessionInv, BadgePoll PROVE SessionInv'
<1>1. /\ isAuthenticated /\ InDashboard /\ user \in Seated
      /\ sent' = sent \cup {Batch(fetchBadges(user.role))}
      /\ seat' = seat /\ user' = user /\ path' = path /\ shown' = shown /\ moved' = moved
  BY DEF BadgePoll, SessionInv, UserInv
<1>2. \A request \in fetchBadges(user.role) : Agrees(request, user)
  BY <1>1, BadgesAgree
<1>3. PICK b : b = Batch(fetchBadges(user.role))
  OBVIOUS
<1>4. b.viewer \in Seated /\ \A request \in b.requests : Agrees(request, b.viewer)
  BY <1>1, <1>2, <1>3, BatchAgrees
<1>5. SentInv'
  BY <1>1, <1>3, <1>4 DEF SessionInv, SentInv
<1> QED
  BY <1>1, <1>5 DEF SessionInv, SeatsInv, UserInv, ShownInv, InDashboard, isAuthenticated, Requester

LEMMA OpenSession ==
  ASSUME SessionInv, NEW p, Open(p) PROVE SessionInv'
<1>1. shown' = FALSE /\ sent' = {} /\ seat' = seat /\ user' = user /\ moved' = moved
  BY DEF Open, GoTo, GoToPage
<1>2. CASE p \notin RowPaths /\ path' = [page |-> p, row |-> NoRow]
  <2>1. \A u : MayShow(path', u)
    BY <1>2, PlainPageShows
  <2>2. QED
    BY <1>1, <2>1 DEF SessionInv, SeatsInv, UserInv, ShownInv, SentInv, InDashboard,
     isAuthenticated, Requester
<1>3. CASE path' = path
  BY <1>1, <1>3 DEF SessionInv, SeatsInv, UserInv, ShownInv, SentInv, InDashboard,
     isAuthenticated, Requester
<1> QED
  BY <1>2, <1>3 DEF Open, GoTo, GoToPage

LEMMA LoginSession ==
  ASSUME SessionInv, NEW a \in Account, Login(a) PROVE SessionInv'
<1>1. PICK p : p = getDashboardPathByRole(seat[a].role)
  OBVIOUS
<1>2. /\ path' = [page |-> p, row |-> NoRow] /\ shown' = FALSE
      /\ seat' = seat /\ user' = Requester(a) /\ sent' = sent /\ moved' = FALSE
  BY <1>1 DEF Login, GoToPage, GoTo
<1>3. p \notin RowPaths
  BY <1>1 DEF getDashboardPathByRole, RowPaths, EventPaths
<1>4. \A u : MayShow(path', u)
  BY <1>2, <1>3, PlainPageShows
<1>5. Requester(a) \in Seated /\ Requester(a).id = a
  BY RequesterSeated DEF SessionInv
<1>6. PICK r : r = Requester(a)
  OBVIOUS
<1>7. user' = r /\ r \in Seated /\ r.id = a
  BY <1>2, <1>5, <1>6
<1>8. Requester(user.id)' = r
  <2>1. Requester(user.id)' = [id |-> user'.id, role |-> seat'[user'.id].role, home |-> seat'[user'.id].home]
    BY DEF Requester
  <2>2. QED
    BY <1>2, <1>6, <1>7, <2>1 DEF Requester
<1>9. UserInv'
  BY <1>4, <1>7, <1>8 DEF UserInv
<1> QED
  BY <1>2, <1>9 DEF SessionInv, SeatsInv, ShownInv, SentInv, InDashboard

LEMMA LogoutSession ==
  ASSUME SessionInv, Logout PROVE SessionInv'
<1>1. user' = Nobody /\ seat' = seat /\ sent' \subseteq sent
  BY DEF Logout
<1> QED
  BY <1>1 DEF SessionInv, SeatsInv, UserInv, ShownInv, SentInv, isAuthenticated

LEMMA AnswerSession ==
  ASSUME SessionInv, NEW b \in sent, Answer(b) PROVE SessionInv'
<1>1. /\ seat' = seat /\ moved' = moved
      /\ \/ user' = Nobody /\ sent' = {}
         \/ user' = user /\ path' = path /\ shown' = shown /\ sent' = sent \ {b}
  BY DEF Answer
<1>2. CASE user' = Nobody /\ sent' = {}
  BY <1>1, <1>2 DEF SessionInv, SeatsInv, UserInv, ShownInv, SentInv, isAuthenticated
<1>3. CASE user' = user /\ path' = path /\ shown' = shown /\ sent' = sent \ {b}
  BY <1>1, <1>3 DEF SessionInv, SeatsInv, UserInv, ShownInv, SentInv, isAuthenticated,
     InDashboard, Requester
<1> QED
  BY <1>1, <1>2, <1>3

LEMMA SeatChangesSession ==
  ASSUME SessionInv, NEW a \in Account, NEW s \in Seat, SeatChanges(a, s) PROVE SessionInv'
<1>1. /\ seat' = [seat EXCEPT ![a] = s]
      /\ moved' = (moved \/ (isAuthenticated /\ user.id = a))
      /\ user' = user /\ path' = path /\ shown' = shown /\ sent' = sent
  BY DEF SeatChanges
<1>2. SeatsInv'
  BY <1>1 DEF SessionInv, SeatsInv
<1>3. ASSUME isAuthenticated, ~moved' PROVE user' = Requester(user.id)' /\ MayShow(path, user)
  <2>1. ~moved /\ user.id # a /\ user \in Seated /\ user = Requester(user.id) /\ MayShow(path, user)
    BY <1>1, <1>3 DEF SessionInv, UserInv
  <2>2. user.id \in Account
    BY <2>1 DEF Seated, Requesters
  <2>3. seat'[user.id] = seat[user.id]
    BY <1>1, <2>1, <2>2 DEF SessionInv, SeatsInv
  <2>4. QED
    BY <1>1, <2>1, <2>3 DEF Requester
<1>4. UserInv'
  BY <1>1, <1>3 DEF SessionInv, UserInv, isAuthenticated
<1> QED
  BY <1>1, <1>2, <1>4 DEF SessionInv, ShownInv, SentInv, isAuthenticated, InDashboard

LEMMA NextSession ==
  ASSUME OneRW, SessionInv, [Next]_vars PROVE SessionInv'
<1>1. CASE CookieExpires
  BY <1>1 DEF CookieExpires, SessionInv, SeatsInv, UserInv, ShownInv, SentInv, isAuthenticated,
     InDashboard, Requester
<1>2. CASE UNCHANGED vars
  BY <1>2 DEF vars, SessionInv, SeatsInv, UserInv, ShownInv, SentInv, isAuthenticated,
     InDashboard, Requester
<1> QED
  BY <1>1, <1>2, RedirectSession, RenderSession, ClickSession, UseSession, LogoutSession,
     BadgePollSession, OpenSession, LoginSession, SeatChangesSession, AnswerSession
     DEF Next, Settle

LEMMA SessionAgrees == ASSUME SessionInv PROVE NothingIsRefused
<1>1. ASSUME isAuthenticated, InDashboard, ~moved,
             NEW to \in Links(path, user, Requester(user.id))
      PROVE  user.role \in allowedRoles(to.page) \/ Bounces(path, to)
  BY <1>1, HereInside, LinksLead DEF Leads
<1>2. ASSUME NEW b \in sent, b.viewer.id = b.cookie, Requester(b.cookie) = b.viewer,
             NEW request \in b.requests
      PROVE  ~Refused(b, request) \/ InVain(request, b.viewer)
  <2>1. Agrees(request, b.viewer)
    BY <1>2 DEF SessionInv, SentInv
  <2>2. seat[b.cookie].role = b.viewer.role
    BY <1>2 DEF Requester
  <2>3. QED
    BY <1>2, <2>1, <2>2 DEF Agrees, Refused
<1> QED
  BY <1>1, <1>2 DEF NothingIsRefused

(***************************************************************************)
(* For every organisation with one RW and any accounts moved about in it:   *)
(* however a tab is used, the pages an account gets to, their buttons, the  *)
(* sidebar and the links ask for nothing that the guards, of the router and *)
(* of the backend, refuse an account with the role and group it logged in   *)
(* with, but for the exceptions InVain and Bounces name.                    *)
(***************************************************************************)
THEOREM PagesAndGuardsAgree ==
  ASSUME OneRW
  PROVE  Spec => []NothingIsRefused
<1>1. Init => SessionInv
  BY InitSession
<1>2. SessionInv /\ [Next]_vars => SessionInv'
  BY NextSession
<1>3. SessionInv => NothingIsRefused
  BY SessionAgrees
<1> QED
  BY <1>1, <1>2, <1>3, PTL DEF Spec
(***************************************************************************)
(* The one RW is needed: the dashboard of a leader counts the residents of  *)
(* every RT there is, and the backend refuses those below another RW.       *)
(***************************************************************************)
THEOREM OtherRtsStayUncounted ==
  ASSUME NEW u \in Seated, u.role = "LEADER",
         NEW g \in Group, ParentOf[g] \notin {NoGroup, u.home}
  PROVE  \E request \in Loads([page |-> "rw", row |-> NoRow], u, u) :
            request.row = Of(g) /\ ~Agrees(request, u)
<1>1. Of(g) \in ChildGroups
  <2>1. Type(g) = "RT"
    BY TwoLevels
  <2>2. Of(g) \in findAllGroups /\ Of(g).group = g
    BY DEF findAllGroups, Of
  <2>3. QED
    BY <2>1, <2>2 DEF ChildGroups
<1>2. PICK request : request = [endpoint |-> "users-in-group", row |-> Of(g)]
  OBVIOUS
<1>3. request \in Loads([page |-> "rw", row |-> NoRow], u, u)
  BY <1>1, <1>2 DEF Loads, LeaderDashboard, AskFor, EventsPaths, EventPaths, FinancePaths,
     PaymentPaths, OrganizationPaths, ProgressPaths
<1>4. ~countByGroup(u, Of(g).group)
  BY DEF countByGroup, Of
<1>5. ~Admits("users-in-group", u, Of(g)) /\ ~InVain(request, u)
  BY <1>2, <1>4 DEF Admits, InVain
<1> QED
  BY <1>2, <1>3, <1>5 DEF Agrees
=============================================================================
