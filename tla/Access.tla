-------------------------------- MODULE Access --------------------------------
(***************************************************************************)
(* Whom the backend lets see and do what: which rows its lists hold for a   *)
(* requester, and which requests its guards and services refuse because of  *)
(* the requester's role or group.  A requester is a record of id, role and  *)
(* home (communityGroupId), as JwtStrategy reads them at every request.     *)
(***************************************************************************)
EXTENDS FiniteSets, Naturals

CONSTANTS
    Account,
    Stranger,       \* everybody else
    Group,
    NoGroup,        \* parentId = null
    ParentOf        \* [Group -> Group \cup {NoGroup}]

ASSUME AccessAssumption ==
    /\ Stranger \notin Account /\ NoGroup \notin Group
    /\ ParentOf \in [Group -> Group \cup {NoGroup}]
    /\ \A g \in Group : ParentOf[g] # NoGroup => ParentOf[ParentOf[g]] = NoGroup

Role == {"LEADER", "ADMIN", "TREASURER", "RESIDENT"}
Officer == Role \ {"RESIDENT"}

ChildrenOf(g) == {h \in Group : ParentOf[h] = g}
Type(g) == IF ParentOf[g] = NoGroup THEN "RW" ELSE "RT"
\* The RW of a group.
RwOf(g) == IF Type(g) = "RW" THEN g ELSE ParentOf[g]

\* An event, a transaction, a request for funds, a user or a group, as far as access
\* goes: the group it belongs to and whose it is.
Row == [group : Group, owner : Account \cup {Stranger}]
Of(g) == [group |-> g, owner |-> Stranger]
NoRow == [group |-> NoGroup, owner |-> Stranger]

-----------------------------------------------------------------------------
(* What the lists hold *)

findAllEvents(v) == {Of(g) : g \in {v.home} \cup ({ParentOf[v.home]} \ {NoGroup}) \cup ChildrenOf(v.home)}

findTransactions(g) == [group : {g}, owner : Account \cup {Stranger}]
getTransactionHistory(v) == findTransactions(v.home)
getGroupFinanceDetailList(g) == findTransactions(g)
getHistory(v) == {[group |-> v.home, owner |-> v.id]}

\* A request belongs to the group that asks; it asks its parent.
getRequestsByGroup(v) ==
    {Of(g) : g \in {h \in Group : Type(h) = "RT" /\ v.home \in {h, ParentOf[h]}}}

getChildrenWallets(v) == {Of(g) : g \in ChildrenOf(RwOf(v.home))}
getParentDuesProgressList(g) == {Of(h) : h \in ChildrenOf(g)}

findAllGroups == {Of(g) : g \in Group}
getHierarchy(v) == {Of(g) : g \in {RwOf(v.home)} \cup ChildrenOf(RwOf(v.home))}
findAllUsers(v) ==
    IF v.role = "LEADER" \/ (v.role = "TREASURER" /\ Type(v.home) = "RW")
      THEN {Of(g) : g \in Group}
      ELSE {Of(v.home)}

-----------------------------------------------------------------------------
(* What the services refuse *)

\* Mutant: without the way up, from an RT to the events of its RW.
checkGroupAccessDown(v, g) == g = v.home \/ ParentOf[g] = v.home
\* The group's own events, those of its RTs, those of its RW.
checkGroupAccess(v, g) == g = v.home \/ ParentOf[g] = v.home \/ ParentOf[v.home] = g

\* Its own money, that of its RTs, that of the RTs beside it.
getGroupFinanceDetail(v, g) ==
    \/ g = v.home
    \/ Type(v.home) = "RW" /\ ParentOf[g] = v.home
    \/ ParentOf[v.home] # NoGroup /\ ParentOf[v.home] = ParentOf[g]
getDuesProgress(v, g) == getGroupFinanceDetail(v, g)
getParentDuesProgress(g) == Type(g) = "RW"

\* Less is refused of an order no transaction has been booked for yet.
getTransactionDetail(v, row) ==
    IF v.role = "RESIDENT"
      THEN row.owner = v.id
      ELSE row.group = v.home \/ Type(v.home) = "RW"

createRequest(v) == ParentOf[v.home] # NoGroup
getById(v, g) == v.home \in {g, ParentOf[g]}
approveExtraFunds(v, g) == v.home = ParentOf[g]

countByGroup(v, g) ==
    IF v.role \in {"LEADER", "TREASURER"} THEN ParentOf[g] = v.home ELSE g = v.home

\* checkAccess of the payments.
syncPayment(v, row) == v.role \in Officer \/ row.owner = v.id

\* The requests that are about one row, or depend on where the requester is.
Admits(endpoint, v, row) ==
    CASE endpoint = "event" -> checkGroupAccess(v, row.group)
      [] endpoint = "group-detail" -> getGroupFinanceDetail(v, row.group)
      [] endpoint = "dues-progress" -> getDuesProgress(v, row.group)
      [] endpoint = "parent-dues-progress" -> getParentDuesProgress(row.group)
      [] endpoint = "transaction" -> getTransactionDetail(v, row)
      [] endpoint = "fund-request" -> getById(v, row.group)
      [] endpoint = "decide-fund-request" -> approveExtraFunds(v, row.group)
      [] endpoint = "create-fund-request" -> createRequest(v)
      [] endpoint = "users-in-group" -> countByGroup(v, row.group)
      [] endpoint = "sync" -> syncPayment(v, row)
      [] OTHER -> TRUE

-----------------------------------------------------------------------------
(* What the guards refuse *)

\* @Roles of the handlers, as pairs; without the decorator, everybody with a token.
FinanceController ==
    ({"wallet", "transactions", "children-wallets", "group-detail", "dues-progress",
      "dues-config", "set-dues-config"} \X Officer)
        \cup ({"transaction", "transparency"} \X Role)
        \cup ({"parent-dues-progress", "book"} \X {"LEADER", "TREASURER"})
        \cup ({"my-bill"} \X {"RESIDENT"})
        \cup ({"report"} \X {"LEADER", "ADMIN", "RESIDENT"})
FundRequestsController ==
    ({"fund-requests", "fund-request"} \X Officer)
        \cup ({"create-fund-request"} \X {"ADMIN", "TREASURER"})
        \cup ({"decide-fund-request"} \X {"TREASURER"})
UsersController ==
    ({"users", "user", "me", "profile"} \X Role)
        \cup ({"users-in-group", "create-user", "update-user", "delete-user"} \X {"LEADER", "ADMIN"})
GroupsController ==
    ({"groups", "hierarchy"} \X Role)
        \cup ({"create-group", "update-group", "delete-group"} \X {"LEADER"})
SettingsController ==
    ({"role-labels", "set-role-label"} \X {"LEADER"}) \cup ({"role-labels-map"} \X Role)
EventsController == ({"events", "event"} \X Role) \cup ({"create-event"} \X {"LEADER", "ADMIN"})
PaymentController == ({"history", "sync"} \X Role) \cup ({"pay-dues"} \X {"RESIDENT"})

Controllers ==
    FinanceController \cup FundRequestsController \cup UsersController \cup GroupsController
        \cup SettingsController \cup EventsController \cup PaymentController

Roles(endpoint) == {r \in Role : <<endpoint, r>> \in Controllers}
=============================================================================
