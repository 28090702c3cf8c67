----------------------------- MODULE Organization -----------------------------
(***************************************************************************)
(* The community groups (RT neighbourhoods under one RW), their users and   *)
(* the roles that decide who may do what.  Both are fixed here: the         *)
(* handlers of the events module only read them.                            *)
(***************************************************************************)
EXTENDS Integers

CONSTANTS
    Group,      \* rows of CommunityGroup
    NoGroup,    \* parentId = null
    ParentOf,   \* [Group -> Group \cup {NoGroup}]
    User,       \* rows of User
    GroupOf,    \* [User -> Group]
    RoleOf      \* [User -> SystemRoleType]

SystemRoleType == {"RESIDENT", "ADMIN", "TREASURER", "LEADER", "CUSTOM"}

ASSUME OrganizationAssumption ==
    /\ NoGroup \notin Group
    /\ ParentOf \in [Group -> Group \cup {NoGroup}]
    /\ GroupOf \in [User -> Group]
    /\ RoleOf \in [User -> SystemRoleType]

\* The creator side of an event: an RT or RW head or administrator.
Organizers == {u \in User : RoleOf[u] \in {"ADMIN", "LEADER"}}

\* Those who may decide an approval step.
Reviewers == {u \in User : RoleOf[u] \in {"TREASURER", "LEADER"}}

HoldersOf(role, g) == {u \in User : RoleOf[u] = role /\ GroupOf[u] = g}

\* checkGroupAccess: the event's own group, its parent, or a child of it.
HasGroupAccess(u, g) ==
    \/ GroupOf[u] = g
    \/ ParentOf[g] = GroupOf[u]
    \/ ParentOf[GroupOf[u]] = g
=============================================================================
