------------------------------- MODULE Community -------------------------------
(***************************************************************************)
(* Users and groups that come and go (UsersService, GroupsService), and the *)
(* treasurer an event is handed to.  The other modules take the             *)
(* organisation as it is; this one is about how it changes under requests   *)
(* that overlap.  A handler is cut at its awaits.                           *)
(***************************************************************************)
EXTENDS Integers, FiniteSets

CONSTANTS
    Group,          \* ids of groups, past and future
    NoGroup,        \* parentId = null
    User,           \* ids of users, past and future
    NoUser,
    Event,
    Slot,           \* handlers that can be in flight at once
    NewRole,        \* roles the officers give to users
    InitialGroup,   \* [Group -> GroupRow], the seed
    InitialUser,    \* [User -> UserRow], the seed
    MaxRequests     \* a bound on the requests there are

Same == "SAME"      \* a field the request leaves out

SystemRoleType == {"RESIDENT", "ADMIN", "TREASURER", "LEADER", "CUSTOM"}
GroupType == {"RT", "RW"}
GroupRow == [type : GroupType \cup {"ABSENT", "DELETED"}, parent : Group \cup {NoGroup}]
UserRow == [status : {"absent", "active", "inactive", "deleted"},
            role : SystemRoleType, group : Group]
ApprovalRule == [role : SystemRoleType, stepOrder : 1 .. 2]

ASSUME CommunityAssumption ==
    /\ NoGroup \notin Group /\ NoUser \notin User
    /\ Same \notin Group
    /\ Event # {}
    /\ NewRole \subseteq SystemRoleType
    /\ InitialGroup \in [Group -> GroupRow]
    /\ InitialUser \in [User -> UserRow]
    /\ MaxRequests \in Nat

\* The seed puts its users into groups of its own, with one treasurer each.
ASSUME SeedAssumption ==
    /\ \A u \in User : InitialUser[u].status \in {"active", "inactive"} =>
          InitialGroup[InitialUser[u].group].type \in GroupType
    /\ \A u, v \in User :
          /\ InitialUser[u].status = "active" /\ InitialUser[u].role = "TREASURER"
          /\ InitialUser[v].status = "active" /\ InitialUser[v].role = "TREASURER"
          /\ InitialUser[u].group = InitialUser[v].group
          => u = v

VARIABLES
    group,      \* [Group -> GroupRow]
    rules,      \* [Group -> SUBSET ApprovalRule]
    user,       \* [User -> UserRow]
    event,      \* [Event -> EventRow], no more than who decides it
    call,       \* [Slot -> Call]
    raced,      \* groups that overlapping requests were about (not in the code)
    requests    \* how many there have been (not in the code)

vars == <<group, rules, user, event, call, raced, requests>>

EventRow == [status : {"DRAFT", "SUBMITTED", "DECIDED"}, group : Group \cup {NoGroup},
             creator : User \cup {NoUser}, approver : User \cup {NoUser}]
Draft == [status |-> "DRAFT", group |-> NoGroup, creator |-> NoUser, approver |-> NoUser]

\* user, group: whom and which group the request is about; role, was: the role
\* it gives, or else the one that was read; moves: it names a group.
Call == [pc : {"idle", "insert", "check", "write", "deactivate", "newGroup", "fix", "pin"},
         user : User \cup {NoUser}, group : Group \cup {NoGroup},
         role : SystemRoleType \cup {Same}, was : SystemRoleType \cup {Same},
         moves : BOOLEAN, type : GroupType,
         snap : SUBSET (Group \X GroupType), event : Event]
Idle == [pc |-> "idle", user |-> NoUser, group |-> NoGroup, role |-> Same, was |-> Same,
         moves |-> FALSE, type |-> "RT", snap |-> {}, event |-> CHOOSE e \in Event : TRUE]

\* Every row and local variable keeps its type.
CommunityTypeOK ==
    /\ group \in [Group -> GroupRow]
    /\ rules \in [Group -> SUBSET ApprovalRule]
    /\ user \in [User -> UserRow]
    /\ event \in [Event -> EventRow]
    /\ call \in [Slot -> Call]
    /\ raced \subseteq Group
    /\ requests \in 0 .. MaxRequests

\* The seed creates groups without rules.
Init ==
    /\ group = InitialGroup
    /\ rules = [g \in Group |-> {}]
    /\ user = InitialUser
    /\ event = [e \in Event |-> Draft]
    /\ call = [s \in Slot |-> Idle]
    /\ raced = {}
    /\ requests = 0

-----------------------------------------------------------------------------
HasGroup(g) == g \in Group /\ group[g].type \in GroupType
HasUser(u) == u \in User /\ user[u].status \in {"active", "inactive"}
HasRole(u, roles) == HasUser(u) /\ user[u].role \in roles

Treasurers(g) ==
    {u \in User : user[u].status = "active" /\ user[u].role = "TREASURER" /\ user[u].group = g}

At(s, pc) == call[s].pc = pc
Request == requests < MaxRequests /\ requests' = requests + 1
Start(s, c) == Request /\ At(s, "idle") /\ call' = [call EXCEPT ![s] = c]
Goto(s, c) == call' = [call EXCEPT ![s] = c] /\ UNCHANGED requests
Finish(s) == call' = [call EXCEPT ![s] = Idle] /\ UNCHANGED requests

\* A request that writes about the same user or the same group while another
\* one has read what it will write upon.
Races(s) ==
    LET others == {t \in Slot \ {s} : /\ call[t].pc \in {"insert", "check", "write"}
                                      /\ \/ call[t].group = call[s].group
                                         \/ call[t].user = call[s].user}
    IN  raced' = IF others = {} THEN raced
                 ELSE raced \cup {call[t].group : t \in others \cup {s}}

-----------------------------------------------------------------------------
(* UsersService *)

\* validateTreasurerLimit: u is not counted; NoUser: nobody to leave out.
WithinLimit(role, g, u) == role = "TREASURER" => Treasurers(g) \ {u} = {}

CreateUser(s, r, role, g) ==
    /\ HasRole(r, {"ADMIN", "LEADER"})
    /\ user[r].role = "ADMIN" => g = user[r].group
    /\ WithinLimit(role, g, NoUser)
    /\ Start(s, [Idle EXCEPT !.pc = "insert", !.role = role, !.group = g])
    /\ UNCHANGED <<group, rules, user, event, raced>>

InsertUser(s, u) ==
    /\ At(s, "insert") /\ user[u].status = "absent"
    /\ IF HasGroup(call[s].group)
       THEN /\ user' = [user EXCEPT ![u] = [status |-> "active", role |-> call[s].role,
                                            group |-> call[s].group]]
            /\ Races(s)
       ELSE UNCHANGED <<user, raced>>
    /\ Finish(s)
    /\ UNCHANGED <<group, rules, event>>

\* An administrator stays within the own group; a leader may move users.
MayManage(r, u) ==
    /\ HasRole(r, {"ADMIN", "LEADER"}) /\ HasUser(u)
    /\ user[r].role = "ADMIN" => user[u].group = user[r].group

UpdateUser(s, r, u, role, g) ==
    /\ MayManage(r, u)
    /\ user[r].role = "ADMIN" => g \in {Same, user[r].group}
    /\ <<role, g>> # <<Same, Same>>
    /\ Start(s, [Idle EXCEPT !.pc = "check", !.user = u, !.role = role,
                             !.was = IF role = Same THEN user[u].role ELSE Same,
                             !.group = IF g = Same THEN user[u].group ELSE g,
                             !.moves = g # Same])
    /\ UNCHANGED <<group, rules, user, event, raced>>

\* Mutant: a treasurer who moves is not checked.
RoleAfterUnread(c) == c.role
\* The role the user will have, as far as the handler knows.
RoleAfter(c) == IF c.role = Same THEN c.was ELSE c.role

CheckUpdate(s) ==
    /\ At(s, "check")
    /\ IF WithinLimit(RoleAfter(call[s]), call[s].group, call[s].user)
       THEN Goto(s, [call[s] EXCEPT !.pc = "write", !.was = Same])
       ELSE Finish(s)
    /\ UNCHANGED <<group, rules, user, event, raced>>

WriteUpdate(s) ==
    /\ At(s, "write")
    /\ LET c == call[s]
           row == user[c.user]
       IN  IF HasUser(c.user) /\ (c.moves => HasGroup(c.group))
           THEN /\ user' = [user EXCEPT ![c.user] =
                              [row EXCEPT !.role = IF c.role = Same THEN @ ELSE c.role,
                                          !.group = IF c.moves THEN c.group ELSE @]]
                /\ Races(s)
           ELSE UNCHANGED <<user, raced>>
    /\ Finish(s)
    /\ UNCHANGED <<group, rules, event>>

RemoveUser(s, r, u) ==
    /\ MayManage(r, u)
    /\ Start(s, [Idle EXCEPT !.pc = "deactivate", !.user = u])
    /\ UNCHANGED <<group, rules, user, event, raced>>

SoftDelete(s) ==
    /\ At(s, "deactivate")
    /\ user' = IF HasUser(call[s].user) THEN [user EXCEPT ![call[s].user].status = "inactive"]
               ELSE user
    /\ Finish(s)
    /\ UNCHANGED <<group, rules, event, raced>>

-----------------------------------------------------------------------------
(* GroupsService *)

\* Mutant: the steps are numbered from zero.
DefaultRulesFromZero(type) ==
    {[role |-> "TREASURER", stepOrder |-> 0],
     [role |-> IF type = "RW" THEN "LEADER" ELSE "ADMIN", stepOrder |-> 1]}
\* createDefaultApprovalRules: the two steps of a group of this type.
DefaultRules(type) ==
    {[role |-> "TREASURER", stepOrder |-> 1],
     [role |-> IF type = "RW" THEN "LEADER" ELSE "ADMIN", stepOrder |-> 2]}

\* An RT is put under whichever RW is found first.
CreateGroup(s, r, type, p) ==
    /\ HasRole(r, {"LEADER"})
    /\ IF type = "RT" THEN HasGroup(p) /\ group[p].type = "RW" ELSE p = NoGroup
    /\ Start(s, [Idle EXCEPT !.pc = "newGroup", !.type = type, !.group = p])
    /\ UNCHANGED <<group, rules, user, event, raced>>

\* Mutant: the rules are left to fixMissingApprovalRules.
RulesAtBirthNone(type) == {}
RulesAtBirth(type) == DefaultRules(type)

\* Group, wallet and rules in one transaction; the parent must still exist.
InsertGroup(s, g) ==
    /\ At(s, "newGroup") /\ group[g].type = "ABSENT"
    /\ LET c == call[s] IN
       IF c.group = NoGroup \/ HasGroup(c.group)
       THEN /\ group' = [group EXCEPT ![g] = [type |-> c.type, parent |-> c.group]]
            /\ rules' = [rules EXCEPT ![g] = RulesAtBirth(c.type)]
       ELSE UNCHANGED <<group, rules>>
    /\ Finish(s)
    /\ UNCHANGED <<user, event, raced>>

\* Whatever the type becomes, the parent stays.
UpdateGroup(r, g, type) ==
    /\ Request /\ HasRole(r, {"LEADER"}) /\ HasGroup(g)
    /\ group' = [group EXCEPT ![g].type = type]
    /\ UNCHANGED <<rules, user, event, call, raced>>

\* Mutant: what a user of the group has decided goes with the user.
RestrictsNot(u, e) == event[e].creator = u
\* Rows of an event that keep a user from being deleted.
Restricts(u, e) == event[e].creator = u \/ event[e].approver = u

\* Users, events and rules go with the group, its children lose their parent;
\* the database refuses if a user of the group has made or is to decide an
\* event: users are deleted before the events of the group are.
RemoveGroup(r, g) ==
    LET members == {u \in User : HasUser(u) /\ user[u].group = g}
        events == {e \in Event : event[e].group = g}
    IN  /\ Request /\ HasRole(r, {"LEADER"}) /\ HasGroup(g)
        /\ \A u \in members, e \in Event : ~Restricts(u, e)
        /\ group' = [h \in Group |->
                       IF h = g THEN [type |-> "DELETED", parent |-> NoGroup]
                       ELSE [group[h] EXCEPT !.parent = IF @ = g THEN NoGroup ELSE @]]
        /\ rules' = [rules EXCEPT ![g] = {}]
        /\ user' = [u \in User |-> IF u \in members THEN [user[u] EXCEPT !.status = "deleted"]
                                   ELSE user[u]]
        /\ event' = [e \in Event |-> IF e \in events THEN Draft ELSE event[e]]
        /\ UNCHANGED <<call, raced>>

\* fixMissingApprovalRules: the groups are read before the transaction.
FixRead(s, r) ==
    LET bare == {g \in Group : HasGroup(g) /\ rules[g] = {}}
    IN  /\ HasRole(r, {"LEADER"})
        /\ bare # {}
        /\ Start(s, [Idle EXCEPT !.pc = "fix", !.snap = {<<g, group[g].type>> : g \in bare}])
        /\ UNCHANGED <<group, rules, user, event, raced>>

\* Rules that are there already are skipped; one missing group undoes it all.
FixWrite(s) ==
    /\ At(s, "fix")
    /\ rules' = IF \A p \in call[s].snap : HasGroup(p[1])
                THEN [g \in Group |-> rules[g] \cup
                        UNION {DefaultRules(p[2]) : p \in {q \in call[s].snap : q[1] = g}}]
                ELSE rules
    /\ Finish(s)
    /\ UNCHANGED <<group, user, event, raced>>

-----------------------------------------------------------------------------
(* An event is submitted and decided: generateApprovalWorkflow's search for  *)
(* a treasurer, here or in the parent group, and the row that pins the one   *)
(* found; EventLifecycle has the rest of both.                               *)

SubmitEvent(s, r, e, u) ==
    LET g == IF event[e].creator = NoUser THEN user[r].group ELSE event[e].group
        here == Treasurers(g)
        above == IF HasGroup(g) /\ group[g].parent # NoGroup THEN Treasurers(group[g].parent) ELSE {}
    IN  /\ HasRole(r, {"ADMIN", "LEADER"})
        /\ event[e].status = "DRAFT" /\ event[e].creator \in {NoUser, r}
        /\ u \in IF here # {} THEN here ELSE above
        /\ event' = [event EXCEPT ![e].creator = r, ![e].group = g]
        /\ Start(s, [Idle EXCEPT !.pc = "pin", !.user = u, !.event = e])
        /\ UNCHANGED <<group, rules, user, raced>>

\* The row needs the event and the user it names to be there.
PinApprover(s) ==
    /\ At(s, "pin")
    /\ LET c == call[s] IN
       event' = IF HasUser(c.user) /\ event[c.event].creator # NoUser
                THEN [event EXCEPT ![c.event].status = "SUBMITTED", ![c.event].approver = c.user]
                ELSE event
    /\ Finish(s)
    /\ UNCHANGED <<group, rules, user, raced>>

\* Whoever was pinned, if still an officer, wherever that is by now.
Decide(e) ==
    /\ event[e].status = "SUBMITTED"
    /\ HasRole(event[e].approver, {"TREASURER", "LEADER"})
    /\ event' = [event EXCEPT ![e].status = "DECIDED"]
    /\ UNCHANGED <<group, rules, user, call, raced, requests>>

-----------------------------------------------------------------------------
UsersStep(s) ==
    \/ \E r, u \in User, role \in NewRole \cup {Same}, g \in Group \cup {Same} :
          UpdateUser(s, r, u, role, g)
    \/ \E r \in User, role \in NewRole, g \in Group : CreateUser(s, r, role, g)
    \/ \E r, u \in User : RemoveUser(s, r, u)
    \/ \E u \in User : InsertUser(s, u)
    \/ CheckUpdate(s) \/ WriteUpdate(s) \/ SoftDelete(s)

GroupsStep(s) ==
    \/ \E r \in User, type \in GroupType, p \in Group \cup {NoGroup} : CreateGroup(s, r, type, p)
    \/ \E g \in Group : InsertGroup(s, g)
    \/ \E r \in User : FixRead(s, r)
    \/ FixWrite(s)

EventsStep(s) ==
    \/ \E r, u \in User, e \in Event : SubmitEvent(s, r, e, u)
    \/ PinApprover(s)

Next ==
    \/ \E s \in Slot : UsersStep(s) \/ GroupsStep(s) \/ EventsStep(s)
    \/ \E r \in User, g \in Group, type \in GroupType : UpdateGroup(r, g, type)
    \/ \E r \in User, g \in Group : RemoveGroup(r, g)
    \/ \E e \in Event : Decide(e)

Spec == Init /\ [][Next]_vars

-----------------------------------------------------------------------------
(***************************************************************************)
(* A group has one active treasurer at most, unless two requests about the  *)
(* group or about one of the users overlapped: counting first and writing   *)
(* later goes wrong in no other way, whatever is moved, given a role,       *)
(* deactivated or removed in whatever order.                                *)
(***************************************************************************)
OneTreasurer == \A g \in Group \ raced : Cardinality(Treasurers(g)) <= 1

(***************************************************************************)
(* An event waits for a user who has a row, in a group that has one: the    *)
(* approver may have been moved or deactivated, never deleted under it.     *)
(***************************************************************************)
ApproverExists ==
    \A e \in Event : event[e].status = "SUBMITTED" =>
        HasUser(event[e].approver) /\ HasGroup(user[event[e].approver].group)

(***************************************************************************)
(* fixMissingApprovalRules leaves no group without rules for both steps,    *)
(* whatever was created while it ran, unless it changed nothing at all.     *)
(***************************************************************************)
FixRepairsAll ==
    [][\A s \in Slot : FixWrite(s) /\ rules' # rules =>
         \A g \in Group : HasGroup(g) => {a.stepOrder : a \in rules'[g]} = {1, 2}]_vars
=============================================================================
