------------------------------- MODULE Session --------------------------------
(***************************************************************************)
(* One tab of the web client between its router (App.tsx, DashboardLayout), *)
(* what the browser keeps of a login (the cookie with the token, and the    *)
(* user in local storage) and the guards of the backend.  Role and group in *)
(* local storage are those of the login; the backend reads them from the    *)
(* database at every request.  The requests a page sends on loading are one *)
(* batch.  What a service refuses for other reasons than the requester's    *)
(* role and group is not here.                                              *)
(***************************************************************************)
EXTENDS Screens

CONSTANTS
    Home,           \* the groups the accounts are moved between
    Nobody,         \* no cookie, no user in local storage
    MaxInFlight     \* bound: batches unanswered when the user goes on or the badge is polled

ASSUME SessionAssumption ==
    Nobody \notin Account /\ Home \subseteq Group /\ MaxInFlight \in Nat \ {0}

\* What an officer of the RW can make of an account, who is leader of the RW alone.
Seat == {s \in [role : Role, home : Home] : s.role = "LEADER" => Type(s.home) = "RW"}

VARIABLES
    seat,       \* [Account -> Seat], in the database
    cookie,     \* whose token the browser sends
    user,       \* local storage: who logged in, with which seat
    path,       \* where the tab is: the page, and the row in its address
    shown,      \* the guards have let it through: the page is mounted
    sent,       \* batches of requests in flight
    moved       \* the seat of the user has changed since the login (not in the code)

vars == <<seat, cookie, user, path, shown, sent, moved>>

\* ActiveUserData
Requester(a) == [id |-> a, role |-> seat[a].role, home |-> seat[a].home]

isAuthenticated == user # Nobody

\* ProtectedRoute, RoleProtectedRoute, PublicRoute: does the guard of p let the tab through?
LetsIn(p) ==
    \/ p = "login" /\ ~isAuthenticated
    \/ p \in Guarded /\ isAuthenticated /\ user.role \in allowedRoles(p)

\* Where it sends the tab otherwise.
NavigateTo == IF isAuthenticated THEN getDashboardPathByRole(user.role) ELSE "login"

\* JwtAuthGuard: the token of the cookie the request was sent with.
Unauthorized(b) == b.cookie = Nobody
\* RolesGuard, and the services: the account as the database has it now.
Refused(b, request) ==
    \/ seat[b.cookie].role \notin Roles(request.endpoint)
    \/ ~Admits(request.endpoint, Requester(b.cookie), request.row)

-----------------------------------------------------------------------------
(* Steps *)

Init ==
    /\ seat \in [Account -> Seat]
    /\ cookie = Nobody /\ user = Nobody
    /\ path = [page |-> "/", row |-> NoRow] /\ shown = FALSE
    /\ sent = {} /\ moved = FALSE

\* What is asked for after the user's seat has changed is not looked at.
Batch(requests) ==
    [viewer |-> user, cookie |-> cookie, requests |-> IF moved THEN {} ELSE requests]

GoTo(at) == path' = at /\ shown' = FALSE
GoToPage(p) == GoTo([page |-> p, row |-> NoRow])

\* A guard sends the tab elsewhere.
Redirect ==
    /\ ~shown /\ ~LetsIn(path.page)
    /\ GoToPage(NavigateTo)
    /\ UNCHANGED <<seat, cookie, user, sent, moved>>

\* The page is mounted and asks for what it shows.
Render ==
    /\ ~shown /\ LetsIn(path.page)
    /\ shown' = TRUE
    /\ sent' = IF path.page = "login"
                 THEN sent
                 ELSE sent \cup {Batch(Loads(path, user, Requester(user.id)))}
    /\ UNCHANGED <<seat, cookie, user, path, moved>>

\* An address is typed, or the page reloaded: the answers to what was sent are lost.
Open(p) ==
    /\ shown
    /\ \/ p \notin RowPaths /\ GoToPage(p)
       \/ p = path.page /\ GoTo(path)
    /\ sent' = {}
    /\ UNCHANGED <<seat, cookie, user, moved>>

InDashboard == shown /\ path.page # "login"
MaySend == Cardinality(sent) < MaxInFlight

\* A link inside the client: what was sent is still answered.
Click ==
    /\ InDashboard /\ isAuthenticated /\ MaySend
    /\ \E to \in Links(path, user, Requester(user.id)) : GoTo(to)
    /\ UNCHANGED <<seat, cookie, user, sent, moved>>

Login(a) ==
    /\ shown /\ path.page = "login" /\ Cardinality(sent) <= MaxInFlight
    /\ cookie' = a
    /\ user' = Requester(a)
    /\ moved' = FALSE
    /\ GoToPage(getDashboardPathByRole(seat[a].role))
    /\ UNCHANGED <<seat, sent>>

\* Logging out takes a valid token; without one the answer 401 does the same here.
Logout ==
    /\ InDashboard
    /\ cookie' = Nobody /\ user' = Nobody
    /\ GoToPage("login")
    /\ sent' = IF cookie = Nobody THEN {} ELSE sent
    /\ UNCHANGED <<seat, moved>>

Use ==
    /\ InDashboard /\ isAuthenticated /\ MaySend
    /\ \E operation \in Offers(path, user, Requester(user.id)) :
          sent' = sent \cup {Batch({operation})}
    /\ UNCHANGED <<seat, cookie, user, path, shown, moved>>

\* Every two minutes, while somebody is in local storage.
BadgePoll ==
    /\ InDashboard /\ isAuthenticated /\ MaySend
    /\ sent' = sent \cup {Batch(fetchBadges(user.role))}
    /\ UNCHANGED <<seat, cookie, user, path, shown, moved>>

\* Mutant: the tab is sent to the login page with the user still stored.
AnswerKeepsUser(b) ==
    /\ b \in sent
    /\ IF Unauthorized(b)
         THEN GoToPage("login") /\ sent' = {} /\ UNCHANGED user
         ELSE sent' = sent \ {b} /\ UNCHANGED <<user, path, shown>>
    /\ UNCHANGED <<seat, cookie, moved>>
\* 401 throws the user out, with a reload; 403 is left to the page.
Answer(b) ==
    /\ b \in sent
    /\ IF Unauthorized(b)
         THEN user' = Nobody /\ GoToPage("login") /\ sent' = {}
         ELSE sent' = sent \ {b} /\ UNCHANGED <<user, path, shown>>
    /\ UNCHANGED <<seat, cookie, moved>>

\* After a day, token and cookie.
CookieExpires ==
    /\ cookie # Nobody /\ cookie' = Nobody
    /\ UNCHANGED <<seat, user, path, shown, sent, moved>>

\* Somebody with the right to gives the account another role, or moves it.
SeatChanges(a, s) ==
    /\ seat[a] # s /\ seat' = [seat EXCEPT ![a] = s]
    /\ moved' = (moved \/ (isAuthenticated /\ user.id = a))
    /\ UNCHANGED <<cookie, user, path, shown, sent>>

Settle == Redirect \/ Render

Next ==
    \/ Settle \/ Click \/ Use \/ Logout \/ BadgePoll \/ CookieExpires
    \/ \E p \in Paths : Open(p)
    \/ \E a \in Account : Login(a) \/ \E s \in Seat : SeatChanges(a, s)
    \/ \E b \in sent : Answer(b)

Spec == Init /\ [][Next]_vars

\* The client routes, and polls a user who does nothing while the tab is visible
\* (useBadgeNotifications): of a hidden one nothing is said.  Requests are answered,
\* however often the user opens other pages meanwhile.
FairSpec ==
    /\ Spec
    /\ WF_vars(Settle) /\ WF_vars(BadgePoll)
    /\ SF_vars(\E b \in sent : Answer(b))

-----------------------------------------------------------------------------
\* What the client offers or asks for although the backend refuses it: the events a
\* resident may not create, the requests for funds a leader may not decide and nobody
\* of the RW may make, and the progress of the RTs an administrator of the RW may not see.
InVain(request, u) ==
    \/ request.endpoint = "create-event" /\ u.role = "RESIDENT"
    \/ request.endpoint = "decide-fund-request" /\ u.role = "LEADER"
    \/ request.endpoint = "create-fund-request" /\ Type(u.home) = "RW"
    \/ request.endpoint = "parent-dues-progress" /\ u.role = "ADMIN"

\* Links of the administrator's dashboard that lead to the leader's pages.
Bounces(at, to) == at.page = "rt" /\ to.page \in defaultLinks

(***************************************************************************)
(* Two programs agree on who may do and see what.  As long as an account    *)
(* keeps the role and the group it logged in with, no link or menu item     *)
(* leads it to a page its role is kept out of, and nothing is refused that  *)
(* the pages it gets to, their buttons or the sidebar ask for, row by row,  *)
(* but for the known exceptions above.                                      *)
(***************************************************************************)
NothingIsRefused ==
    /\ isAuthenticated /\ InDashboard /\ ~moved =>
          \A to \in Links(path, user, Requester(user.id)) :
              user.role \in allowedRoles(to.page) \/ Bounces(path, to)
    /\ \A b \in sent : b.viewer.id = b.cookie /\ Requester(b.cookie) = b.viewer =>
          \A request \in b.requests : ~Refused(b, request) \/ InVain(request, b.viewer)

(***************************************************************************)
(* A session that is over ends in the client as well: once the token is     *)
(* gone, the tab reaches a page (redirects come to rest) whose requests     *)
(* throw the user out, without anybody doing anything.                      *)
(***************************************************************************)
SessionEnds ==
    (cookie = Nobody /\ isAuthenticated) ~> (cookie # Nobody \/ ~isAuthenticated)
=============================================================================
