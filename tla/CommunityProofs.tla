---------------------------- MODULE CommunityProofs ----------------------------
(***************************************************************************)
(* What holds of users and groups for any number of them and of requests    *)
(* that overlap.  OneTreasurer is about a count that is taken at one await  *)
(* and used at a later one; the invariant behind it (Counted) says what the *)
(* handler in between still knows, unless a request raced with it.          *)
(***************************************************************************)
EXTENDS Community, FiniteSetTheorems, TLAPS

Writing == {"insert", "check", "write"}

\* What a handler between its awaits keeps of the rows it has read.
CallsKnow == \A t \in Slot :
    /\ call[t].pc \in Writing => call[t].group \in Group
    /\ call[t].pc = "insert" => call[t].role \in SystemRoleType
    /\ call[t].pc \in {"check", "write"} =>
          call[t].user \in User /\ user[call[t].user].status # "absent"
    /\ call[t].pc = "deactivate" => call[t].user \in User

TypeInv == CommunityTypeOK /\ CallsKnow

LEMMA TypesDistinct ==
    /\ Same \notin SystemRoleType
    /\ NoUser \notin User /\ NoGroup \notin Group
  BY CommunityAssumption DEF SystemRoleType, Same

LEMMA IdleTyped == Idle \in Call
  BY CommunityAssumption DEF Idle, Call, GroupType, SystemRoleType, Same

\* What a call knows survives as long as nobody becomes absent again.
LEMMA CallsKeep ==
    ASSUME TypeInv, UNCHANGED call,
           \A u \in User : user'[u].status = "absent" => user[u].status = "absent"
    PROVE  CallsKnow'
  BY DEF TypeInv, CallsKnow, CommunityTypeOK

\* Slot s goes on with c.
LEMMA CallTyped ==
    ASSUME TypeInv, NEW s \in Slot, NEW c \in Call,
           call' = [call EXCEPT ![s] = c],
           \A u \in User : user'[u].status = "absent" => user[u].status = "absent",
           c.pc \in Writing => c.group \in Group,
           c.pc = "insert" => c.role \in SystemRoleType,
           c.pc \in {"check", "write"} => c.user \in User /\ user'[c.user].status # "absent",
           c.pc = "deactivate" => c.user \in User
    PROVE  call' \in [Slot -> Call] /\ CallsKnow'
<1>1. call \in [Slot -> Call] /\ call' \in [Slot -> Call]
  BY DEF TypeInv, CommunityTypeOK
<1>2. ASSUME NEW t \in Slot
      PROVE  /\ call'[t].pc \in Writing => call'[t].group \in Group
             /\ call'[t].pc = "insert" => call'[t].role \in SystemRoleType
             /\ call'[t].pc \in {"check", "write"} =>
                   call'[t].user \in User /\ user'[call'[t].user].status # "absent"
             /\ call'[t].pc = "deactivate" => call'[t].user \in User
  <2>1. CASE t = s
    BY <1>1, <2>1
  <2>2. CASE t # s
    <3>1. call'[t] = call[t]
      BY <1>1, <2>2
    <3>2. QED
      BY <3>1 DEF TypeInv, CallsKnow
  <2>3. QED
    BY <2>1, <2>2
<1>3. QED
  BY <1>1, <1>2 DEF CallsKnow

LEMMA IdleAgain ==
    ASSUME TypeInv, NEW s \in Slot, call' = [call EXCEPT ![s] = Idle],
           \A u \in User : user'[u].status = "absent" => user[u].status = "absent"
    PROVE  call' \in [Slot -> Call] /\ CallsKnow'
<1>1. Idle.pc = "idle"
  BY DEF Idle
<1>2. QED
  BY <1>1, IdleTyped, CallTyped DEF Writing

LEMMA Counts == TypeInv /\ Request => requests' \in 0 .. MaxRequests
  BY CommunityAssumption DEF TypeInv, CommunityTypeOK, Request

\* Only groups get into raced.
LEMMA RacesTyped ==
    ASSUME TypeInv, NEW s \in Slot, call[s].pc \in Writing, Races(s)
    PROVE  raced' \subseteq Group
  BY DEF TypeInv, CommunityTypeOK, CallsKnow, Races, Writing

-----------------------------------------------------------------------------
(* Type correctness, action by action *)

LEMMA CreateUserTyped ==
    ASSUME TypeInv, NEW s \in Slot, NEW r \in User, NEW role \in NewRole, NEW g \in Group,
           CreateUser(s, r, role, g)
    PROVE  TypeInv'
<1> DEFINE c == [Idle EXCEPT !.pc = "insert", !.role = role, !.group = g]
<1>1. role \in SystemRoleType
  BY CommunityAssumption
<1>2. c \in Call
  BY <1>1, IdleTyped DEF Call
<1>3. c.pc = "insert" /\ c.group = g /\ c.role = role
  BY DEF Idle
<1>4. call' = [call EXCEPT ![s] = c] /\ UNCHANGED user /\ Request
  BY DEF CreateUser, Start
<1> HIDE DEF c
<1>5. call' \in [Slot -> Call] /\ CallsKnow'
  BY <1>1, <1>2, <1>3, <1>4, CallTyped
<1>6. QED
  BY <1>4, <1>5, Counts DEF TypeInv, CommunityTypeOK, CreateUser

LEMMA InsertUserTyped ==
    ASSUME TypeInv, NEW s \in Slot, NEW u \in User, InsertUser(s, u)
    PROVE  TypeInv'
<1> DEFINE row == [status |-> "active", role |-> call[s].role, group |-> call[s].group]
<1>1. call[s].pc = "insert" /\ call[s].group \in Group /\ call[s].role \in SystemRoleType
  BY DEF InsertUser, At, TypeInv, CallsKnow, Writing
<1>2. row \in UserRow /\ row.status = "active"
  BY <1>1 DEF UserRow
<1>3. user' = [user EXCEPT ![u] = row] \/ UNCHANGED user
  BY DEF InsertUser
<1> HIDE DEF row
<1>4. user' \in [User -> UserRow]
  BY <1>2, <1>3 DEF TypeInv, CommunityTypeOK
<1>5. \A v \in User : user'[v].status = "absent" => user[v].status = "absent"
  BY <1>2, <1>3 DEF TypeInv, CommunityTypeOK
<1>6. call' \in [Slot -> Call] /\ CallsKnow'
  BY <1>5, IdleAgain DEF InsertUser, Finish
<1>7. raced' \subseteq Group
  BY <1>1, RacesTyped DEF InsertUser, Writing, TypeInv, CommunityTypeOK
<1>8. QED
  BY <1>4, <1>6, <1>7 DEF TypeInv, CommunityTypeOK, InsertUser, Finish

LEMMA UpdateUserTyped ==
    ASSUME TypeInv, NEW s \in Slot, NEW r \in User, NEW u \in User,
           NEW role \in NewRole \cup {Same}, NEW g \in Group \cup {Same},
           UpdateUser(s, r, u, role, g)
    PROVE  TypeInv'
<1> DEFINE c == [Idle EXCEPT !.pc = "check", !.user = u, !.role = role,
                             !.was = IF role = Same THEN user[u].role ELSE Same,
                             !.group = IF g = Same THEN user[u].group ELSE g,
                             !.moves = g # Same]
<1>1. user[u] \in UserRow
  BY DEF TypeInv, CommunityTypeOK
<1>2. user[u].role \in SystemRoleType /\ user[u].group \in Group
  BY <1>1 DEF UserRow
<1>3. user[u].status # "absent"
  BY DEF UpdateUser, MayManage, HasUser
<1>4. c.pc = "check" /\ c.user = u /\ c.group = IF g = Same THEN user[u].group ELSE g
  BY DEF Idle
<1>5. c \in Call
  BY <1>2, IdleTyped, CommunityAssumption DEF Call
<1>6. call' = [call EXCEPT ![s] = c] /\ UNCHANGED user /\ Request
  BY DEF UpdateUser, Start
<1> HIDE DEF c
<1>7. call' \in [Slot -> Call] /\ CallsKnow'
  BY <1>2, <1>3, <1>4, <1>5, <1>6, CallTyped
<1>8. QED
  BY <1>6, <1>7, Counts DEF TypeInv, CommunityTypeOK, UpdateUser

LEMMA CheckUpdateTyped ==
    ASSUME TypeInv, NEW s \in Slot, CheckUpdate(s)
    PROVE  TypeInv'
<1> DEFINE c == [call[s] EXCEPT !.pc = "write", !.was = Same]
<1>1. call[s] \in Call /\ call[s].pc = "check"
  BY DEF CheckUpdate, At, TypeInv, CommunityTypeOK
<1>2. c \in Call /\ c.pc = "write" /\ c.user = call[s].user /\ c.group = call[s].group
  BY <1>1 DEF Call
<1>3. c.group \in Group /\ c.user \in User /\ user[c.user].status # "absent"
  BY <1>1, <1>2 DEF TypeInv, CallsKnow, Writing
<1>4. UNCHANGED user
  BY DEF CheckUpdate
<1>5. call' = [call EXCEPT ![s] = c] \/ call' = [call EXCEPT ![s] = Idle]
  BY DEF CheckUpdate, Goto, Finish
<1> HIDE DEF c
<1>6. call' \in [Slot -> Call] /\ CallsKnow'
  BY <1>2, <1>3, <1>4, <1>5, CallTyped, IdleAgain
<1>7. QED
  BY <1>6 DEF TypeInv, CommunityTypeOK, CheckUpdate, Goto, Finish

LEMMA WriteUpdateTyped ==
    ASSUME TypeInv, NEW s \in Slot, WriteUpdate(s)
    PROVE  TypeInv'
<1> DEFINE c == call[s]
           row == [user[c.user] EXCEPT !.role = IF c.role = Same THEN @ ELSE c.role,
                                       !.group = IF c.moves THEN c.group ELSE @]
<1>1. c \in Call /\ c.pc = "write" /\ c.group \in Group /\ c.user \in User
  BY DEF WriteUpdate, At, TypeInv, CommunityTypeOK, CallsKnow, Writing
<1>2. user[c.user] \in UserRow /\ c.role \in SystemRoleType \cup {Same}
  BY <1>1 DEF TypeInv, CommunityTypeOK, Call
<1>3. row \in UserRow /\ row.status = user[c.user].status
  BY <1>1, <1>2 DEF UserRow
<1>4. user' = [user EXCEPT ![c.user] = row] \/ UNCHANGED user
  BY DEF WriteUpdate
<1>5. raced' \subseteq Group
  BY <1>1, RacesTyped DEF WriteUpdate, Writing, TypeInv, CommunityTypeOK
<1>6. call' = [call EXCEPT ![s] = Idle] /\ UNCHANGED requests
  BY DEF WriteUpdate, Finish
<1> HIDE DEF row, c
<1>7. user' \in [User -> UserRow]
  BY <1>3, <1>4 DEF TypeInv, CommunityTypeOK
<1>8. \A v \in User : user'[v].status = "absent" => user[v].status = "absent"
  BY <1>3, <1>4 DEF TypeInv, CommunityTypeOK
<1>9. call' \in [Slot -> Call] /\ CallsKnow'
  BY <1>6, <1>8, IdleAgain
<1>10. QED
  BY <1>5, <1>6, <1>7, <1>9 DEF TypeInv, CommunityTypeOK, WriteUpdate

LEMMA RemoveUserTyped ==
    ASSUME TypeInv, NEW s \in Slot, NEW r \in User, NEW u \in User, RemoveUser(s, r, u)
    PROVE  TypeInv'
<1> DEFINE c == [Idle EXCEPT !.pc = "deactivate", !.user = u]
<1>1. c \in Call /\ c.pc = "deactivate" /\ c.user = u
  BY IdleTyped DEF Call, Idle
<1>2. call' = [call EXCEPT ![s] = c] /\ UNCHANGED user /\ Request
  BY DEF RemoveUser, Start
<1> HIDE DEF c
<1>3. call' \in [Slot -> Call] /\ CallsKnow'
  BY <1>1, <1>2, CallTyped DEF Writing
<1>4. QED
  BY <1>2, <1>3, Counts DEF TypeInv, CommunityTypeOK, RemoveUser

LEMMA SoftDeleteTyped ==
    ASSUME TypeInv, NEW s \in Slot, SoftDelete(s)
    PROVE  TypeInv'
<1>1. call[s].user \in User /\ user \in [User -> UserRow]
  BY DEF SoftDelete, At, TypeInv, CallsKnow, CommunityTypeOK
<1>2. user' = [user EXCEPT ![call[s].user].status = "inactive"] \/ UNCHANGED user
  BY DEF SoftDelete
<1>3. user' \in [User -> UserRow]
  BY <1>1, <1>2 DEF UserRow
<1>4. \A v \in User : user'[v].status = "absent" => user[v].status = "absent"
  BY <1>1, <1>2 DEF UserRow
<1>5. call' \in [Slot -> Call] /\ CallsKnow'
  BY <1>4, IdleAgain DEF SoftDelete, Finish
<1>6. QED
  BY <1>3, <1>5 DEF TypeInv, CommunityTypeOK, SoftDelete, Finish

LEMMA DefaultRulesTyped == \A type : DefaultRules(type) \subseteq ApprovalRule
  BY DEF DefaultRules, ApprovalRule, SystemRoleType

LEMMA CreateGroupTyped ==
    ASSUME TypeInv, NEW s \in Slot, NEW r \in User, NEW type \in GroupType,
           NEW p \in Group \cup {NoGroup}, CreateGroup(s, r, type, p)
    PROVE  TypeInv'
<1> DEFINE c == [Idle EXCEPT !.pc = "newGroup", !.type = type, !.group = p]
<1>1. c \in Call /\ c.pc = "newGroup"
  BY IdleTyped DEF Call, Idle
<1>2. call' = [call EXCEPT ![s] = c] /\ UNCHANGED user /\ Request
  BY DEF CreateGroup, Start
<1> HIDE DEF c
<1>3. call' \in [Slot -> Call] /\ CallsKnow'
  BY <1>1, <1>2, CallTyped DEF Writing
<1>4. QED
  BY <1>2, <1>3, Counts DEF TypeInv, CommunityTypeOK, CreateGroup

LEMMA InsertGroupTyped ==
    ASSUME TypeInv, NEW s \in Slot, NEW g \in Group, InsertGroup(s, g)
    PROVE  TypeInv'
<1>1. call[s] \in Call
  BY DEF TypeInv, CommunityTypeOK
<1>2. [type |-> call[s].type, parent |-> call[s].group] \in GroupRow
  BY <1>1 DEF Call, GroupRow
<1>3. group' \in [Group -> GroupRow]
  BY <1>2 DEF InsertGroup, TypeInv, CommunityTypeOK
<1>4. rules' \in [Group -> SUBSET ApprovalRule]
  BY DefaultRulesTyped DEF InsertGroup, RulesAtBirth, TypeInv, CommunityTypeOK
<1>5. call' \in [Slot -> Call] /\ CallsKnow'
  BY IdleAgain DEF InsertGroup, Finish
<1>6. QED
  BY <1>3, <1>4, <1>5 DEF TypeInv, CommunityTypeOK, InsertGroup, Finish

LEMMA UpdateGroupTyped ==
    ASSUME TypeInv, NEW r \in User, NEW g \in Group, NEW type \in GroupType,
           UpdateGroup(r, g, type)
    PROVE  TypeInv'
<1>1. group' \in [Group -> GroupRow]
  BY DEF UpdateGroup, TypeInv, CommunityTypeOK, GroupRow
<1>2. CallsKnow'
  BY CallsKeep DEF UpdateGroup
<1>3. QED
  BY <1>1, <1>2, Counts DEF TypeInv, CommunityTypeOK, UpdateGroup

LEMMA RemoveGroupTyped ==
    ASSUME TypeInv, NEW r \in User, NEW g \in Group, RemoveGroup(r, g)
    PROVE  TypeInv'
<1>1. group' \in [Group -> GroupRow]
  BY DEF RemoveGroup, TypeInv, CommunityTypeOK, GroupRow
<1>2. rules' \in [Group -> SUBSET ApprovalRule]
  BY DEF RemoveGroup, TypeInv, CommunityTypeOK
<1>3. user' \in [User -> UserRow]
  BY DEF RemoveGroup, TypeInv, CommunityTypeOK, UserRow
<1>4. Draft \in EventRow
  BY DEF Draft, EventRow
<1>5. event' \in [Event -> EventRow]
  BY <1>4 DEF RemoveGroup, TypeInv, CommunityTypeOK
<1>6. \A v \in User : user'[v].status = "absent" => user[v].status = "absent"
  BY DEF RemoveGroup, TypeInv, CommunityTypeOK, UserRow
<1>7. CallsKnow'
  BY <1>6, CallsKeep DEF RemoveGroup
<1>8. QED
  BY <1>1, <1>2, <1>3, <1>5, <1>7, Counts DEF TypeInv, CommunityTypeOK, RemoveGroup

LEMMA FixReadTyped ==
    ASSUME TypeInv, NEW s \in Slot, NEW r \in User, FixRead(s, r)
    PROVE  TypeInv'
<1> DEFINE snap == {<<g, group[g].type>> : g \in {h \in Group : HasGroup(h) /\ rules[h] = {}}}
           c == [Idle EXCEPT !.pc = "fix", !.snap = snap]
<1>1. snap \subseteq Group \X GroupType
  BY DEF HasGroup
<1> HIDE DEF snap
<1>2. c \in Call /\ c.pc = "fix"
  BY <1>1, IdleTyped DEF Call, Idle
<1>3. call' = [call EXCEPT ![s] = c] /\ UNCHANGED user /\ Request
  BY DEF FixRead, Start, snap
<1> HIDE DEF c
<1>4. call' \in [Slot -> Call] /\ CallsKnow'
  BY <1>2, <1>3, CallTyped DEF Writing
<1>5. QED
  BY <1>3, <1>4, Counts DEF TypeInv, CommunityTypeOK, FixRead

LEMMA FixWriteTyped ==
    ASSUME TypeInv, NEW s \in Slot, FixWrite(s)
    PROVE  TypeInv'
<1>1. rules' \in [Group -> SUBSET ApprovalRule]
  BY DefaultRulesTyped DEF FixWrite, TypeInv, CommunityTypeOK
<1>2. call' \in [Slot -> Call] /\ CallsKnow'
  BY IdleAgain DEF FixWrite, Finish
<1>3. QED
  BY <1>1, <1>2 DEF TypeInv, CommunityTypeOK, FixWrite, Finish

LEMMA SubmitEventTyped ==
    ASSUME TypeInv, NEW s \in Slot, NEW r \in User, NEW u \in User, NEW e \in Event,
           SubmitEvent(s, r, e, u)
    PROVE  TypeInv'
<1> DEFINE c == [Idle EXCEPT !.pc = "pin", !.user = u, !.event = e]
           g == IF event[e].creator = NoUser THEN user[r].group ELSE event[e].group
<1>1. c \in Call /\ c.pc = "pin"
  BY IdleTyped DEF Call, Idle
<1>2. call' = [call EXCEPT ![s] = c] /\ UNCHANGED user /\ Request
  BY DEF SubmitEvent, Start
<1>3. g \in Group \cup {NoGroup}
  BY DEF TypeInv, CommunityTypeOK, UserRow, EventRow
<1>4. event' = [event EXCEPT ![e].creator = r, ![e].group = g]
  BY DEF SubmitEvent
<1> HIDE DEF c, g
<1>5. event' \in [Event -> EventRow]
  BY <1>3, <1>4 DEF TypeInv, CommunityTypeOK, EventRow
<1>6. call' \in [Slot -> Call] /\ CallsKnow'
  BY <1>1, <1>2, CallTyped DEF Writing
<1>7. QED
  BY <1>2, <1>5, <1>6, Counts DEF TypeInv, CommunityTypeOK, SubmitEvent

LEMMA PinApproverTyped ==
    ASSUME TypeInv, NEW s \in Slot, PinApprover(s)
    PROVE  TypeInv'
<1>1. call[s] \in Call
  BY DEF TypeInv, CommunityTypeOK
<1>2. call[s].event \in Event
  BY <1>1 DEF Call
<1> DEFINE row == [[event[call[s].event] EXCEPT !.status = "SUBMITTED"] EXCEPT !.approver = call[s].user]
<1>3. event' = [event EXCEPT ![call[s].event] = row] \/ UNCHANGED event
  BY <1>2 DEF PinApprover, TypeInv, CommunityTypeOK
<1>4. row \in EventRow \/ UNCHANGED event
  <2>1. CASE call[s].user \in User
    BY <1>2, <2>1 DEF TypeInv, CommunityTypeOK, EventRow
  <2>2. CASE call[s].user \notin User
    BY <2>2 DEF PinApprover, HasUser
  <2>3. QED
    BY <2>1, <2>2
<1> HIDE DEF row
<1>5. event' \in [Event -> EventRow]
  BY <1>3, <1>4 DEF TypeInv, CommunityTypeOK
<1>6. call' \in [Slot -> Call] /\ CallsKnow'
  BY IdleAgain DEF PinApprover, Finish
<1>7. QED
  BY <1>5, <1>6 DEF TypeInv, CommunityTypeOK, PinApprover, Finish

LEMMA DecideTyped ==
    ASSUME TypeInv, NEW e \in Event, Decide(e)
    PROVE  TypeInv'
<1>1. event' \in [Event -> EventRow]
  BY DEF Decide, TypeInv, CommunityTypeOK, EventRow
<1>2. CallsKnow'
  BY CallsKeep DEF Decide
<1>3. QED
  BY <1>1, <1>2 DEF TypeInv, CommunityTypeOK, Decide

LEMMA TypeInitially == Init => TypeInv
<1> SUFFICES ASSUME Init PROVE TypeInv
  OBVIOUS
<1>1. Draft \in EventRow
  BY DEF Draft, EventRow
<1>2. CommunityTypeOK
  BY <1>1, IdleTyped, CommunityAssumption DEF Init, CommunityTypeOK
<1>3. CallsKnow
  BY DEF Init, CallsKnow, Idle, Writing
<1>4. QED
  BY <1>2, <1>3 DEF TypeInv

LEMMA TypeStep == TypeInv /\ [Next]_vars => TypeInv'
<1> SUFFICES ASSUME TypeInv, [Next]_vars PROVE TypeInv'
  OBVIOUS
<1>1. ASSUME NEW s \in Slot, UsersStep(s) PROVE TypeInv'
  BY <1>1, UpdateUserTyped, CreateUserTyped, RemoveUserTyped, InsertUserTyped,
     CheckUpdateTyped, WriteUpdateTyped, SoftDeleteTyped DEF UsersStep
<1>2. ASSUME NEW s \in Slot, GroupsStep(s) PROVE TypeInv'
  BY <1>2, CreateGroupTyped, InsertGroupTyped, FixReadTyped, FixWriteTyped DEF GroupsStep
<1>3. ASSUME NEW s \in Slot, EventsStep(s) PROVE TypeInv'
  BY <1>3, SubmitEventTyped, PinApproverTyped DEF EventsStep
<1>4. CASE UNCHANGED vars
  BY <1>4 DEF vars, TypeInv, CommunityTypeOK, CallsKnow
<1>5. QED
  BY <1>1, <1>2, <1>3, <1>4, UpdateGroupTyped, RemoveGroupTyped, DecideTyped DEF Next

(***************************************************************************)
(* Users, groups, rules, events and the local variables of the services     *)
(* keep their types under any requests.                                     *)
(***************************************************************************)
THEOREM CommunityTyped == Spec => []CommunityTypeOK
<1>1. TypeInv => CommunityTypeOK
  BY DEF TypeInv
<1>2. QED
  BY <1>1, TypeInitially, TypeStep, PTL DEF Spec

-----------------------------------------------------------------------------
(* One treasurer per group *)

IsTreasurer(u, g) == user[u].status = "active" /\ user[u].role = "TREASURER" /\ user[u].group = g

\* The role user u will have once call c is written.
RoleWritten(c) == IF c.role = Same THEN user[c.user].role ELSE c.role

\* What the limit said at the last await still holds, or the group has raced.
KnowsLimit(c) ==
    /\ c.pc = "insert" /\ c.role = "TREASURER" =>
          c.group \in raced \/ \A u \in User : ~IsTreasurer(u, c.group)
    /\ c.pc = "check" /\ c.role = Same =>
          c.group \in raced \/ c.was = user[c.user].role
    /\ c.pc \in {"check", "write"} /\ ~c.moves =>
          user[c.user].group \in raced \/ user[c.user].group = c.group
    /\ c.pc = "write" /\ RoleWritten(c) = "TREASURER" =>
          c.group \in raced \/ \A u \in User : IsTreasurer(u, c.group) => u = c.user

Counted == \A t \in Slot : KnowsLimit(call[t])

SoleTreasurer ==
    \A g \in Group \ raced : \A u, v \in User : IsTreasurer(u, g) /\ IsTreasurer(v, g) => u = v

TreasurerInv == SoleTreasurer /\ Counted

LEMMA SoleIsOne == SoleTreasurer => OneTreasurer
<1> SUFFICES ASSUME SoleTreasurer, NEW g \in Group \ raced
             PROVE  Cardinality(Treasurers(g)) <= 1
  BY DEF OneTreasurer
<1>1. CASE Treasurers(g) = {}
  BY <1>1, FS_EmptySet
<1>2. CASE Treasurers(g) # {}
  <2>1. PICK u \in Treasurers(g) : TRUE
    BY <1>2
  <2>2. Treasurers(g) = {u}
    BY <2>1 DEF Treasurers, SoleTreasurer, IsTreasurer
  <2>3. QED
    BY <2>2, FS_Singleton
<1>3. QED
  BY <1>1, <1>2

\* Users at most retire: the steps that give nobody a role or a group.
Retire == \A u \in User :
    /\ user'[u].role = user[u].role /\ user'[u].group = user[u].group
    /\ user'[u].status = "active" => user[u].status = "active"

LEMMA RetireKeeps ==
    ASSUME Retire, UNCHANGED raced, SoleTreasurer
    PROVE  SoleTreasurer'
  BY DEF Retire, SoleTreasurer, IsTreasurer

\* A call that is not touched still knows its limit.
LEMMA RetireKnows ==
    ASSUME Retire, UNCHANGED raced, TypeInv, NEW t \in Slot, KnowsLimit(call[t]),
           call'[t] = call[t]
    PROVE  KnowsLimit(call[t])'
<1>1. call[t].pc \in {"check", "write"} => call[t].user \in User
  BY DEF TypeInv, CallsKnow
<1>2. \A u \in User : \A g : IsTreasurer(u, g)' => IsTreasurer(u, g)
  BY DEF Retire, IsTreasurer
<1>3. call[t].pc \in {"check", "write"} =>
        /\ user'[call[t].user].role = user[call[t].user].role
        /\ user'[call[t].user].group = user[call[t].user].group
  BY <1>1 DEF Retire
<1>4. call[t].pc = "write" => RoleWritten(call[t])' = RoleWritten(call[t])
  BY <1>3 DEF RoleWritten
<1>5. QED
  BY <1>2, <1>3, <1>4 DEF KnowsLimit

\* Slot s goes on with a call that knows nothing or knows its limit.
LEMMA RetireStep ==
    ASSUME TypeInv, TreasurerInv, Retire, UNCHANGED raced, NEW s \in Slot, NEW c,
           call' = [call EXCEPT ![s] = c], KnowsLimit(c)'
    PROVE  TreasurerInv'
<1>1. SoleTreasurer'
  BY RetireKeeps DEF TreasurerInv
<1>2. ASSUME NEW t \in Slot PROVE KnowsLimit(call[t])'
  <2>1. CASE t = s
    <3>1. call'[t] = c
      BY <2>1 DEF TypeInv, CommunityTypeOK
    <3>2. QED
      BY <3>1 DEF KnowsLimit, RoleWritten, IsTreasurer
  <2>2. CASE t # s
    <3>1. call'[t] = call[t]
      BY <2>2 DEF TypeInv, CommunityTypeOK
    <3>2. QED
      BY <3>1, RetireKnows DEF TreasurerInv, Counted
  <2>3. QED
    BY <2>1, <2>2
<1>3. QED
  BY <1>1, <1>2 DEF TreasurerInv, Counted

LEMMA OtherCall ==
    ASSUME NEW c, c.pc \notin Writing
    PROVE  KnowsLimit(c)'
  BY DEF KnowsLimit, Writing

\* The steps that write no role and no group, and check no limit.
LEMMA UntouchedStep ==
    ASSUME TypeInv, TreasurerInv, Retire, UNCHANGED raced, NEW s \in Slot, NEW c,
           call' = [call EXCEPT ![s] = c], c.pc \notin Writing
    PROVE  TreasurerInv'
  BY OtherCall, RetireStep

LEMMA SameUsers == UNCHANGED user => Retire
  BY DEF Retire

LEMMA CreateUserCounts ==
    ASSUME TypeInv, TreasurerInv, NEW s \in Slot, NEW r \in User, NEW role \in NewRole,
           NEW g \in Group, CreateUser(s, r, role, g)
    PROVE  TreasurerInv'
<1> DEFINE c == [Idle EXCEPT !.pc = "insert", !.role = role, !.group = g]
<1>1. c.pc = "insert" /\ c.role = role /\ c.group = g
  BY DEF Idle
<1>2. call' = [call EXCEPT ![s] = c] /\ UNCHANGED <<user, raced>>
  BY DEF CreateUser, Start
<1>3. role = "TREASURER" => \A u \in User : ~IsTreasurer(u, g)
  BY TypesDistinct DEF CreateUser, WithinLimit, Treasurers, IsTreasurer
<1> HIDE DEF c
<1>4. KnowsLimit(c)'
  BY <1>1, <1>2, <1>3 DEF KnowsLimit, IsTreasurer
<1>5. QED
  BY <1>2, <1>4, SameUsers, RetireStep

LEMMA UpdateUserCounts ==
    ASSUME TypeInv, TreasurerInv, NEW s \in Slot, NEW r \in User, NEW u \in User,
           NEW role \in NewRole \cup {Same}, NEW g \in Group \cup {Same},
           UpdateUser(s, r, u, role, g)
    PROVE  TreasurerInv'
<1>0. PICK c : c = [Idle EXCEPT !.pc = "check", !.user = u, !.role = role,
                             !.was = IF role = Same THEN user[u].role ELSE Same,
                             !.group = IF g = Same THEN user[u].group ELSE g,
                             !.moves = g # Same]
  OBVIOUS
<1>1. /\ c.pc = "check" /\ c.user = u /\ c.role = role
      /\ c.was = IF role = Same THEN user[u].role ELSE Same
      /\ c.group = IF g = Same THEN user[u].group ELSE g
      /\ c.moves = (g # Same)
  BY <1>0 DEF Idle
<1>2. call' = [call EXCEPT ![s] = c] /\ UNCHANGED <<user, raced>>
  BY <1>0 DEF UpdateUser, Start
<1>3. KnowsLimit(c)'
  BY <1>1, <1>2 DEF KnowsLimit
<1>4. QED
  BY <1>2, <1>3, SameUsers, RetireStep

LEMMA CheckUpdateCounts ==
    ASSUME TypeInv, TreasurerInv, NEW s \in Slot, CheckUpdate(s)
    PROVE  TreasurerInv'
<1>a. PICK d : d = call[s]
  OBVIOUS
<1>b. PICK c : c = [d EXCEPT !.pc = "write", !.was = Same]
  OBVIOUS
<1>1. d \in Call /\ d.pc = "check" /\ d.user \in User /\ KnowsLimit(d)
  BY <1>a DEF CheckUpdate, At, TypeInv, CommunityTypeOK, CallsKnow, TreasurerInv, Counted
<1>2. c.pc = "write" /\ c.user = d.user /\ c.group = d.group /\ c.role = d.role /\ c.moves = d.moves
  BY <1>1, <1>b DEF Call
<1>3. UNCHANGED <<user, raced>>
  BY DEF CheckUpdate
<1>4. CASE WithinLimit(RoleAfter(d), d.group, d.user)
  <2>1. call' = [call EXCEPT ![s] = c]
    BY <1>4, <1>a, <1>b DEF CheckUpdate, Goto
  <2>2. RoleAfter(d) = "TREASURER" =>
          \A u \in User : IsTreasurer(u, d.group) => u = d.user
    BY <1>4 DEF WithinLimit, Treasurers, IsTreasurer
  <2>3. RoleWritten(c) = RoleAfter(d) \/ d.group \in raced
    BY <1>1, <1>2 DEF RoleWritten, RoleAfter, KnowsLimit
  <2>4. KnowsLimit(c)'
    BY <1>1, <1>2, <1>3, <2>2, <2>3 DEF KnowsLimit, RoleWritten, IsTreasurer
  <2>5. QED
    BY <1>3, <2>1, <2>4, SameUsers, RetireStep
<1>5. CASE ~WithinLimit(RoleAfter(d), d.group, d.user)
  <2>1. call' = [call EXCEPT ![s] = Idle] /\ Idle.pc \notin Writing
    BY <1>5, <1>a DEF CheckUpdate, Finish, Idle, Writing
  <2>2. QED
    BY <1>3, <2>1, SameUsers, UntouchedStep
<1>6. QED
  BY <1>4, <1>5

\* Whoever overlaps a write is found out: the groups of both have raced.
LEMMA RacesNotes ==
    ASSUME TypeInv, NEW s \in Slot, call[s].pc \in Writing, Races(s)
    PROVE  /\ raced \subseteq raced'
           /\ \A t \in Slot \ {s} :
                call[t].pc \in Writing /\ (call[t].group = call[s].group \/ call[t].user = call[s].user)
                   => call[t].group \in raced' /\ call[s].group \in raced'
  BY DEF Races, Writing

\* The write of s makes v what it is; everybody else stays as they are.
LEMMA WriteKeepsOthers ==
    ASSUME TypeInv, TreasurerInv, NEW s \in Slot, NEW v \in User, NEW row \in UserRow,
           call[s].pc \in Writing, Races(s),
           user' = [user EXCEPT ![v] = row],
           call' = [call EXCEPT ![s] = Idle],
           \* nobody else is writing about v but the overlapping ones,
           call[s].user = v \/ user[v].status = "absent",
           \* v ends up in the group of the call, or stays where it was,
           row.group = call[s].group \/ (row.group = user[v].group /\ row.group \in raced),
           \* and is the only treasurer there.
           row.status = "active" /\ row.role = "TREASURER" =>
              row.group \in raced \/ \A u \in User : IsTreasurer(u, row.group) => u = v
    PROVE  TreasurerInv'
<1>1. user \in [User -> UserRow] /\ call \in [Slot -> Call]
  BY DEF TypeInv, CommunityTypeOK
<1>2. raced \subseteq raced'
  BY RacesNotes
<1>3. user'[v] = row /\ \A u \in User \ {v} : user'[u] = user[u]
  BY <1>1
<1>4. ASSUME NEW g, NEW u \in User \ {v} PROVE IsTreasurer(u, g)' <=> IsTreasurer(u, g)
  BY <1>3 DEF IsTreasurer
<1>5. SoleTreasurer'
  <2>1. ASSUME NEW g \in Group \ raced', NEW u \in User, NEW w \in User,
               IsTreasurer(u, g)', IsTreasurer(w, g)'
        PROVE  u = w
    <3>1. g \in Group \ raced
      BY <1>2
    <3>2. CASE u # v /\ w # v
      BY <1>4, <2>1, <3>1, <3>2 DEF TreasurerInv, SoleTreasurer
    <3>3. CASE IsTreasurer(v, g)'
      <4>1. row.status = "active" /\ row.role = "TREASURER" /\ row.group = g
        BY <1>3, <3>3 DEF IsTreasurer
      <4>2. \A x \in User : IsTreasurer(x, g) => x = v
        BY <3>1, <4>1
      <4>3. QED
        BY <1>4, <2>1, <4>2
    <3>4. QED
      BY <2>1, <3>2, <3>3
  <2>2. QED
    BY <2>1 DEF SoleTreasurer
<1>6. ASSUME NEW t \in Slot PROVE KnowsLimit(call[t])'
  <2>1. CASE t = s
    <3>1. call'[t] = Idle /\ Idle.pc = "idle"
      BY <1>1, <2>1 DEF Idle
    <3>2. QED
      BY <3>1 DEF KnowsLimit
  <2>2. CASE t # s /\ call[t].pc \notin Writing
    <3>1. call'[t] = call[t]
      BY <1>1, <2>2
    <3>2. QED
      BY <2>2, <3>1 DEF KnowsLimit, Writing
  <2>3. CASE t # s /\ call[t].pc \in Writing
    <3>0. PICK c : c = call[t]
      OBVIOUS
    <3>1. call'[t] = c /\ KnowsLimit(c)
      BY <1>1, <2>3, <3>0 DEF TreasurerInv, Counted
    <3>2. c.pc \in {"check", "write"} => c.user \in User /\ user[c.user].status # "absent"
      BY <3>0 DEF TypeInv, CallsKnow
    <3>3. /\ c.group = call[s].group => c.group \in raced'
          /\ c.user = call[s].user => c.group \in raced' /\ call[s].group \in raced'
      BY <2>3, <3>0, RacesNotes
    <3>4. ASSUME c.pc \in {"check", "write"}, c.user = v
          PROVE  c.group \in raced' /\ row.group \in raced'
      BY <1>2, <3>2, <3>3, <3>4
    <3>5. ASSUME c.group \notin raced', NEW u \in User, IsTreasurer(u, c.group)'
          PROVE  IsTreasurer(u, c.group)
      <4>1. row.group # c.group
        BY <1>2, <3>3, <3>5
      <4>2. u # v
        BY <1>3, <3>5, <4>1 DEF IsTreasurer
      <4>3. QED
        BY <1>4, <3>5, <4>2
    <3>6. c.pc \in {"check", "write"} /\ c.user # v => user'[c.user] = user[c.user]
      BY <1>3, <3>2
    <3>7. c.pc = "insert" /\ c.role = "TREASURER" =>
             c.group \in raced' \/ \A u \in User : ~IsTreasurer(u, c.group)'
      BY <1>2, <3>1, <3>5 DEF KnowsLimit
    <3>8. c.pc = "check" /\ c.role = Same => c.group \in raced' \/ c.was = user'[c.user].role
      BY <1>2, <3>1, <3>4, <3>6 DEF KnowsLimit
    <3>9. c.pc \in {"check", "write"} /\ ~c.moves =>
             user'[c.user].group \in raced' \/ user'[c.user].group = c.group
      BY <1>2, <1>3, <3>1, <3>4, <3>6 DEF KnowsLimit
    <3>10. c.pc = "write" /\ RoleWritten(c)' = "TREASURER" =>
             c.group \in raced' \/ \A u \in User : IsTreasurer(u, c.group)' => u = c.user
      <4>1. c.pc = "write" /\ c.user # v => RoleWritten(c)' = RoleWritten(c)
        BY <3>6 DEF RoleWritten
      <4>2. QED
        BY <1>2, <3>1, <3>4, <3>5, <4>1 DEF KnowsLimit
    <3>11. QED
      BY <3>1, <3>7, <3>8, <3>9, <3>10 DEF KnowsLimit, RoleWritten
  <2>4. QED
    BY <2>1, <2>2, <2>3
<1>7. QED
  BY <1>5, <1>6 DEF TreasurerInv, Counted

LEMMA InsertUserCounts ==
    ASSUME TypeInv, TreasurerInv, NEW s \in Slot, NEW v \in User, InsertUser(s, v)
    PROVE  TreasurerInv'
<1>a. PICK c : c = call[s]
  OBVIOUS
<1>1. /\ c.pc = "insert" /\ c.group \in Group /\ c.role \in SystemRoleType /\ KnowsLimit(c)
      /\ user[v].status = "absent" /\ call' = [call EXCEPT ![s] = Idle]
  BY <1>a DEF InsertUser, At, Finish, TypeInv, CallsKnow, Writing, TreasurerInv, Counted
<1>2. CASE HasGroup(c.group)
  <2>b. PICK row : row = [status |-> "active", role |-> c.role, group |-> c.group]
    OBVIOUS
  <2>1. row \in UserRow /\ row.role = c.role /\ row.group = c.group
    BY <1>1, <2>b DEF UserRow
  <2>2. user' = [user EXCEPT ![v] = row] /\ Races(s)
    BY <1>2, <1>a, <2>b DEF InsertUser
  <2>3. row.role = "TREASURER" =>
          row.group \in raced \/ \A u \in User : IsTreasurer(u, row.group) => u = v
    BY <1>1, <2>1 DEF KnowsLimit
  <2>4. QED
    BY <1>1, <1>a, <2>1, <2>2, <2>3, WriteKeepsOthers DEF Writing
<1>3. CASE ~HasGroup(c.group)
  <2>1. UNCHANGED <<user, raced>>
    BY <1>3, <1>a DEF InsertUser
  <2>2. QED
    BY <1>1, <2>1, SameUsers, UntouchedStep DEF Idle, Writing
<1>4. QED
  BY <1>2, <1>3

LEMMA WriteUpdateCounts ==
    ASSUME TypeInv, TreasurerInv, NEW s \in Slot, WriteUpdate(s)
    PROVE  TreasurerInv'
<1>a. PICK c : c = call[s]
  OBVIOUS
<1>1. /\ c \in Call /\ c.pc = "write" /\ c.group \in Group /\ c.user \in User /\ KnowsLimit(c)
      /\ call' = [call EXCEPT ![s] = Idle]
  BY <1>a DEF WriteUpdate, At, Finish, TypeInv, CommunityTypeOK, CallsKnow, Writing,
              TreasurerInv, Counted
<1>2. CASE HasUser(c.user) /\ (c.moves => HasGroup(c.group))
  <2>b. PICK row : row = [user[c.user] EXCEPT !.role = IF c.role = Same THEN @ ELSE c.role,
                                              !.group = IF c.moves THEN c.group ELSE @]
    OBVIOUS
  <2>1. user[c.user] \in UserRow /\ c.role \in SystemRoleType \cup {Same}
    BY <1>1 DEF TypeInv, CommunityTypeOK, Call
  <2>2. /\ row \in UserRow
        /\ row.role = RoleWritten(c)
        /\ row.group = IF c.moves THEN c.group ELSE user[c.user].group
        /\ row.status = user[c.user].status
    BY <1>1, <2>b, <2>1 DEF UserRow, RoleWritten
  <2>3. user' = [user EXCEPT ![c.user] = row] /\ Races(s)
    BY <1>2, <1>a, <2>b DEF WriteUpdate
  <2>4. row.group = c.group \/ (row.group = user[c.user].group /\ row.group \in raced)
    BY <1>1, <2>2 DEF KnowsLimit
  <2>5. row.role = "TREASURER" =>
          row.group \in raced \/ \A u \in User : IsTreasurer(u, row.group) => u = c.user
    BY <1>1, <2>2, <2>4 DEF KnowsLimit
  <2>6. QED
    BY <1>1, <1>a, <2>2, <2>3, <2>4, <2>5, WriteKeepsOthers DEF Writing
<1>3. CASE ~(HasUser(c.user) /\ (c.moves => HasGroup(c.group)))
  <2>1. UNCHANGED <<user, raced>>
    BY <1>3, <1>a DEF WriteUpdate
  <2>2. QED
    BY <1>1, <2>1, SameUsers, UntouchedStep DEF Idle, Writing
<1>4. QED
  BY <1>2, <1>3

LEMMA RemoveUserCounts ==
    ASSUME TypeInv, TreasurerInv, NEW s \in Slot, NEW r \in User, NEW u \in User,
           RemoveUser(s, r, u)
    PROVE  TreasurerInv'
<1>1. PICK c : c = [Idle EXCEPT !.pc = "deactivate", !.user = u]
  OBVIOUS
<1>2. call' = [call EXCEPT ![s] = c] /\ UNCHANGED <<user, raced>> /\ c.pc = "deactivate"
  BY <1>1 DEF RemoveUser, Start, Idle
<1>3. QED
  BY <1>2, SameUsers, UntouchedStep DEF Writing

LEMMA SoftDeleteCounts ==
    ASSUME TypeInv, TreasurerInv, NEW s \in Slot, SoftDelete(s)
    PROVE  TreasurerInv'
<1>1. Retire
  BY DEF SoftDelete, Retire, TypeInv, CommunityTypeOK, UserRow
<1>2. call' = [call EXCEPT ![s] = Idle] /\ UNCHANGED raced /\ Idle.pc \notin Writing
  BY DEF SoftDelete, Finish, Idle, Writing
<1>3. QED
  BY <1>1, <1>2, UntouchedStep

LEMMA GroupsStepCounts ==
    ASSUME TypeInv, TreasurerInv, NEW s \in Slot, GroupsStep(s) \/ EventsStep(s)
    PROVE  TreasurerInv'
<1>1. UNCHANGED <<user, raced>>
  BY DEF GroupsStep, EventsStep, CreateGroup, InsertGroup, FixRead, FixWrite, SubmitEvent, PinApprover
<1>2. ASSUME NEW r \in User, NEW type \in GroupType, NEW p \in Group \cup {NoGroup},
             CreateGroup(s, r, type, p)
      PROVE  TreasurerInv'
  <2>1. PICK c : c = [Idle EXCEPT !.pc = "newGroup", !.type = type, !.group = p]
    OBVIOUS
  <2>2. call' = [call EXCEPT ![s] = c] /\ c.pc = "newGroup"
    BY <1>2, <2>1 DEF CreateGroup, Start, Idle
  <2>3. QED
    BY <1>1, <2>2, SameUsers, UntouchedStep DEF Writing
<1>3. ASSUME NEW r \in User, FixRead(s, r) PROVE TreasurerInv'
  <2>1. PICK snap : snap = {<<g, group[g].type>> : g \in {h \in Group : HasGroup(h) /\ rules[h] = {}}}
    OBVIOUS
  <2>2. PICK c : c = [Idle EXCEPT !.pc = "fix", !.snap = snap]
    OBVIOUS
  <2>3. call' = [call EXCEPT ![s] = c] /\ c.pc = "fix"
    BY <1>3, <2>1, <2>2 DEF FixRead, Start, Idle
  <2>4. QED
    BY <1>1, <2>3, SameUsers, UntouchedStep DEF Writing
<1>4. ASSUME NEW r \in User, NEW u \in User, NEW e \in Event, SubmitEvent(s, r, e, u)
      PROVE  TreasurerInv'
  <2>1. PICK c : c = [Idle EXCEPT !.pc = "pin", !.user = u, !.event = e]
    OBVIOUS
  <2>2. call' = [call EXCEPT ![s] = c] /\ c.pc = "pin"
    BY <1>4, <2>1 DEF SubmitEvent, Start, Idle
  <2>3. QED
    BY <1>1, <2>2, SameUsers, UntouchedStep DEF Writing
<1>5. CASE Finish(s)
  <2>1. call' = [call EXCEPT ![s] = Idle] /\ Idle.pc \notin Writing
    BY <1>5 DEF Finish, Idle, Writing
  <2>2. QED
    BY <1>1, <2>1, SameUsers, UntouchedStep
<1>6. QED
  BY <1>2, <1>3, <1>4, <1>5 DEF GroupsStep, EventsStep, InsertGroup, FixWrite, PinApprover

\* No call goes on: groups and events change, users at most retire.
LEMMA RestStepCounts ==
    ASSUME TypeInv, TreasurerInv, Retire, UNCHANGED <<call, raced>>
    PROVE  TreasurerInv'
<1>1. SoleTreasurer'
  BY RetireKeeps DEF TreasurerInv
<1>2. ASSUME NEW t \in Slot PROVE KnowsLimit(call[t])'
  BY RetireKnows DEF TreasurerInv, Counted
<1>3. QED
  BY <1>1, <1>2 DEF TreasurerInv, Counted

LEMMA RemoveGroupRetires ==
    ASSUME TypeInv, NEW r \in User, NEW g \in Group, RemoveGroup(r, g)
    PROVE  Retire
  BY DEF RemoveGroup, Retire, TypeInv, CommunityTypeOK, UserRow

LEMMA TreasurerInitially == Init => TreasurerInv
<1> SUFFICES ASSUME Init PROVE TreasurerInv
  OBVIOUS
<1>1. SoleTreasurer
  BY SeedAssumption DEF Init, SoleTreasurer, IsTreasurer
<1>2. Counted
  BY DEF Init, Counted, KnowsLimit, Idle
<1>3. QED
  BY <1>1, <1>2 DEF TreasurerInv

LEMMA TreasurerStep == TypeInv /\ TreasurerInv /\ [Next]_vars => TreasurerInv'
<1> SUFFICES ASSUME TypeInv, TreasurerInv, [Next]_vars PROVE TreasurerInv'
  OBVIOUS
<1>1. ASSUME NEW s \in Slot, UsersStep(s) PROVE TreasurerInv'
  BY <1>1, UpdateUserCounts, CreateUserCounts, RemoveUserCounts, InsertUserCounts,
     CheckUpdateCounts, WriteUpdateCounts, SoftDeleteCounts DEF UsersStep
<1>2. ASSUME NEW s \in Slot, GroupsStep(s) \/ EventsStep(s) PROVE TreasurerInv'
  BY <1>2, GroupsStepCounts
<1>3. ASSUME NEW r \in User, NEW g \in Group, RemoveGroup(r, g) PROVE TreasurerInv'
  BY <1>3, RemoveGroupRetires, RestStepCounts DEF RemoveGroup
<1>4. ASSUME NEW r \in User, NEW g \in Group, NEW type \in GroupType, UpdateGroup(r, g, type)
      PROVE  TreasurerInv'
  BY <1>4, SameUsers, RestStepCounts DEF UpdateGroup
<1>5. ASSUME NEW e \in Event, Decide(e) PROVE TreasurerInv'
  BY <1>5, SameUsers, RestStepCounts DEF Decide
<1>6. CASE UNCHANGED vars
  BY <1>6, SameUsers, RestStepCounts DEF vars
<1>7. QED
  BY <1>1, <1>2, <1>3, <1>4, <1>5, <1>6 DEF Next

(***************************************************************************)
(* No group ever has two treasurers unless requests about it raced: with    *)
(* any number of users, groups and requests in flight, counting before the  *)
(* write goes wrong in no other way.                                        *)
(***************************************************************************)
THEOREM OneTreasurerUnlessRaced == Spec => []OneTreasurer
<1>1. TypeInv /\ TreasurerInv /\ [Next]_vars => (TypeInv /\ TreasurerInv)'
  BY TypeStep, TreasurerStep
<1>2. TreasurerInv => OneTreasurer
  BY SoleIsOne DEF TreasurerInv
<1>3. QED
  BY <1>1, <1>2, TypeInitially, TreasurerInitially, PTL DEF Spec

-----------------------------------------------------------------------------
(* Whom events wait for *)

\* A user with a row belongs to a group with one, and so does a pinned approver.
Housed == \A u \in User : HasUser(u) => HasGroup(user[u].group)
Pinned == \A e \in Event : event[e].status = "SUBMITTED" => HasUser(event[e].approver)

ApproverInv == Housed /\ Pinned

LEMMA ApproverIsThere == TypeInv /\ ApproverInv => ApproverExists
  BY DEF ApproverInv, Housed, Pinned, ApproverExists, HasUser

\* Nobody is deleted or moved, and no event starts to wait.
LEMMA ApproverStays ==
    ASSUME ApproverInv,
           \A g : HasGroup(g) => HasGroup(g)',
           \A u \in User : HasUser(u)' <=> HasUser(u),
           \A u \in User : user'[u].group = user[u].group,
           \A e \in Event : event'[e].status = "SUBMITTED" =>
               event[e].status = "SUBMITTED" /\ event'[e].approver = event[e].approver
    PROVE  ApproverInv'
<1>1. Housed'
  BY DEF ApproverInv, Housed
<1>2. Pinned'
  <2>1. \A u : HasUser(u) => HasUser(u)'
    BY DEF HasUser
  <2>2. QED
    BY <2>1 DEF ApproverInv, Pinned
<1>3. QED
  BY <1>1, <1>2 DEF ApproverInv

\* One user gets a row with a group that is there.
LEMMA ApproverHoused ==
    ASSUME TypeInv, ApproverInv, NEW v \in User, NEW row \in UserRow,
           user' = [user EXCEPT ![v] = row],
           row.status \in {"active", "inactive"} => HasGroup(row.group),
           HasUser(v) => row.status \in {"active", "inactive"},
           UNCHANGED <<group, event>>
    PROVE  ApproverInv'
<1>1. user'[v] = row /\ \A u \in User \ {v} : user'[u] = user[u]
  BY DEF TypeInv, CommunityTypeOK
<1>2. \A g : HasGroup(g)' <=> HasGroup(g)
  BY DEF HasGroup
<1>3. Housed'
  BY <1>1, <1>2 DEF ApproverInv, Housed, HasUser
<1>4. \A u : HasUser(u) => HasUser(u)'
  BY <1>1 DEF HasUser
<1>5. Pinned'
  BY <1>4 DEF ApproverInv, Pinned
<1>6. QED
  BY <1>3, <1>5 DEF ApproverInv

LEMMA UsersStepApprovers ==
    ASSUME TypeInv, ApproverInv, NEW s \in Slot, UsersStep(s)
    PROVE  ApproverInv'
<1>1. CASE UNCHANGED user
  <2>1. UNCHANGED <<group, event>>
    BY DEF UsersStep, UpdateUser, CreateUser, RemoveUser, InsertUser, CheckUpdate, WriteUpdate, SoftDelete
  <2>2. \A g : HasGroup(g) => HasGroup(g)'
    BY <2>1 DEF HasGroup
  <2>3. \A u \in User : HasUser(u)' <=> HasUser(u)
    BY <1>1 DEF HasUser
  <2>4. QED
    BY <1>1, <2>1, <2>2, <2>3, ApproverStays
<1>2. ASSUME NEW v \in User, InsertUser(s, v), user' # user PROVE ApproverInv'
  <2>1. PICK row : row = [status |-> "active", role |-> call[s].role, group |-> call[s].group]
    OBVIOUS
  <2>2. row \in UserRow /\ row.group = call[s].group
    BY <1>2, <2>1 DEF InsertUser, At, TypeInv, CallsKnow, Writing, UserRow
  <2>3. /\ user' = [user EXCEPT ![v] = row] /\ HasGroup(call[s].group)
        /\ row.status = "active" /\ UNCHANGED <<group, event>>
    BY <1>2, <2>1 DEF InsertUser
  <2>4. QED
    BY <2>2, <2>3, ApproverHoused
<1>3. ASSUME WriteUpdate(s), user' # user PROVE ApproverInv'
  <2>1. PICK c : c = call[s]
    OBVIOUS
  <2>2. c \in Call /\ c.group \in Group /\ c.user \in User
    BY <1>3, <2>1 DEF WriteUpdate, At, TypeInv, CommunityTypeOK, CallsKnow, Writing
  <2>3. PICK row : row = [user[c.user] EXCEPT !.role = IF c.role = Same THEN @ ELSE c.role,
                                              !.group = IF c.moves THEN c.group ELSE @]
    OBVIOUS
  <2>4. user[c.user] \in UserRow /\ c.role \in SystemRoleType \cup {Same}
    BY <2>2 DEF TypeInv, CommunityTypeOK, Call
  <2>5. /\ row \in UserRow /\ row.status = user[c.user].status
        /\ row.group = IF c.moves THEN c.group ELSE user[c.user].group
    BY <2>2, <2>3, <2>4 DEF UserRow
  <2>6. /\ user' = [user EXCEPT ![c.user] = row] /\ HasUser(c.user)
        /\ c.moves => HasGroup(c.group)
        /\ UNCHANGED <<group, event>>
    BY <1>3, <2>1, <2>3 DEF WriteUpdate
  <2>7. HasGroup(row.group)
    BY <2>2, <2>5, <2>6 DEF ApproverInv, Housed
  <2>8. QED
    BY <2>2, <2>5, <2>6, <2>7, ApproverHoused DEF HasUser
<1>4. ASSUME SoftDelete(s), user' # user PROVE ApproverInv'
  <2>1. PICK v : v = call[s].user
    OBVIOUS
  <2>2. PICK row : row = [user[v] EXCEPT !.status = "inactive"]
    OBVIOUS
  <2>3. HasUser(v) /\ user' = [user EXCEPT ![v] = row] /\ UNCHANGED <<group, event>>
    BY <1>4, <2>1, <2>2 DEF SoftDelete
  <2>4. v \in User /\ user[v] \in UserRow
    BY <2>3 DEF HasUser, TypeInv, CommunityTypeOK
  <2>5. row \in UserRow /\ row.status = "inactive" /\ row.group = user[v].group
    BY <2>2, <2>4 DEF UserRow
  <2>6. QED
    BY <2>3, <2>4, <2>5, ApproverHoused DEF ApproverInv, Housed
<1>5. QED
  BY <1>1, <1>2, <1>3, <1>4 DEF UsersStep, UpdateUser, CreateUser, RemoveUser, CheckUpdate

LEMMA InsertGroupApprovers ==
    ASSUME TypeInv, ApproverInv, NEW s \in Slot, NEW g \in Group, InsertGroup(s, g)
    PROVE  ApproverInv'
<1>1. call[s].type \in GroupType
  BY DEF TypeInv, CommunityTypeOK, Call
<1>2. \A h : HasGroup(h) => HasGroup(h)'
  BY <1>1 DEF HasGroup, InsertGroup, TypeInv, CommunityTypeOK
<1>3. UNCHANGED <<user, event>>
  BY DEF InsertGroup
<1>4. \A u \in User : HasUser(u)' <=> HasUser(u)
  BY <1>3 DEF HasUser
<1>5. QED
  BY <1>2, <1>3, <1>4, ApproverStays

LEMMA UpdateGroupApprovers ==
    ASSUME TypeInv, ApproverInv, NEW r \in User, NEW g \in Group, NEW type \in GroupType,
           UpdateGroup(r, g, type)
    PROVE  ApproverInv'
<1>1. \A h : HasGroup(h) => HasGroup(h)'
  BY DEF HasGroup, UpdateGroup, TypeInv, CommunityTypeOK, GroupRow
<1>2. UNCHANGED <<user, event>>
  BY DEF UpdateGroup
<1>3. \A u \in User : HasUser(u)' <=> HasUser(u)
  BY <1>2 DEF HasUser
<1>4. QED
  BY <1>1, <1>2, <1>3, ApproverStays

\* The database refuses to delete whom an event waits for, wherever the event is.
LEMMA RemoveGroupApprovers ==
    ASSUME TypeInv, ApproverInv, NEW r \in User, NEW g \in Group, RemoveGroup(r, g)
    PROVE  ApproverInv'
<1>1. ASSUME NEW u \in User
      PROVE  user'[u] = IF HasUser(u) /\ user[u].group = g THEN [user[u] EXCEPT !.status = "deleted"]
                        ELSE user[u]
  BY DEF RemoveGroup
<1>2. ASSUME NEW u \in User, HasUser(u)' PROVE HasUser(u) /\ user[u].group # g /\ user'[u] = user[u]
  BY <1>1, <1>2 DEF HasUser, TypeInv, CommunityTypeOK, UserRow
<1>3. ASSUME NEW h \in Group, HasGroup(h), h # g PROVE HasGroup(h)'
  BY <1>3 DEF HasGroup, RemoveGroup, TypeInv, CommunityTypeOK, GroupRow
<1>4. Housed'
  <2>1. ASSUME NEW u \in User, HasUser(u)' PROVE HasGroup(user[u].group)'
    <3>1. HasGroup(user[u].group) /\ user[u].group # g /\ user'[u].group = user[u].group
      BY <1>2, <2>1 DEF ApproverInv, Housed
    <3>2. PICK h : h = user[u].group
      OBVIOUS
    <3>3. h \in Group /\ HasGroup(h)
      BY <3>1, <3>2 DEF HasGroup
    <3>4. HasGroup(h)'
      BY <1>3, <3>1, <3>2, <3>3
    <3>5. QED
      BY <3>1, <3>2, <3>4
  <2>2. QED
    BY <2>1 DEF Housed
<1>5. Pinned'
  <2>1. ASSUME NEW e \in Event, event'[e].status = "SUBMITTED" PROVE HasUser(event[e].approver)'
    <3>1. event'[e] = event[e]
      BY <2>1 DEF RemoveGroup, Draft
    <3>2. HasUser(event[e].approver)
      BY <2>1, <3>1 DEF ApproverInv, Pinned
    <3>3. event[e].approver \in User /\ Restricts(event[e].approver, e)
      BY <3>2 DEF HasUser, Restricts
    <3>4. user[event[e].approver].group # g
      BY <3>2, <3>3 DEF RemoveGroup
    <3>5. user'[event[e].approver] = user[event[e].approver]
      BY <1>1, <3>3, <3>4
    <3>6. QED
      BY <3>1, <3>2, <3>5 DEF HasUser
  <2>2. QED
    BY <2>1 DEF Pinned
<1>6. QED
  BY <1>4, <1>5 DEF ApproverInv

\* Events change and nothing else that matters here.
LEMMA EventsApprovers ==
    ASSUME TypeInv, ApproverInv, UNCHANGED <<group, user>>,
           \A e \in Event : event'[e].status = "SUBMITTED" => HasUser(event'[e].approver)
    PROVE  ApproverInv'
<1>1. \A u : HasUser(u)' <=> HasUser(u)
  BY DEF HasUser
<1>2. \A g : HasGroup(g)' <=> HasGroup(g)
  BY DEF HasGroup
<1>3. QED
  BY <1>1, <1>2 DEF ApproverInv, Housed, Pinned

LEMMA SubmitEventApprovers ==
    ASSUME TypeInv, ApproverInv, NEW s \in Slot, NEW r \in User, NEW u \in User, NEW e \in Event,
           SubmitEvent(s, r, e, u)
    PROVE  ApproverInv'
<1>1. event[e].status = "DRAFT" /\ event[e] \in EventRow
  BY DEF SubmitEvent, TypeInv, CommunityTypeOK
<1>2. event'[e].status = "DRAFT"
  BY <1>1 DEF SubmitEvent, TypeInv, CommunityTypeOK, EventRow
<1>3. \A d \in Event \ {e} : event'[d] = event[d]
  BY DEF SubmitEvent, TypeInv, CommunityTypeOK
<1>4. UNCHANGED <<group, user>>
  BY DEF SubmitEvent
<1>5. QED
  BY <1>2, <1>3, <1>4, EventsApprovers DEF ApproverInv, Pinned

LEMMA PinApproverApprovers ==
    ASSUME TypeInv, ApproverInv, NEW s \in Slot, PinApprover(s)
    PROVE  ApproverInv'
<1>1. PICK c : c = call[s]
  OBVIOUS
<1>2. c.event \in Event
  BY <1>1 DEF TypeInv, CommunityTypeOK, Call
<1>3. UNCHANGED <<group, user>>
  BY DEF PinApprover
<1>4. CASE UNCHANGED event
  BY <1>3, <1>4, EventsApprovers DEF ApproverInv, Pinned
<1>5. CASE event' # event
  <2>1. /\ HasUser(c.user)
        /\ event' = [event EXCEPT ![c.event].status = "SUBMITTED", ![c.event].approver = c.user]
    BY <1>1, <1>5 DEF PinApprover
  <2>2. event'[c.event].approver = c.user
    BY <1>2, <2>1 DEF TypeInv, CommunityTypeOK, EventRow
  <2>3. \A d \in Event \ {c.event} : event'[d] = event[d]
    BY <1>2, <2>1 DEF TypeInv, CommunityTypeOK
  <2>4. QED
    BY <1>3, <2>1, <2>2, <2>3, EventsApprovers DEF ApproverInv, Pinned
<1>6. QED
  BY <1>4, <1>5

LEMMA ApproverInitially == Init => ApproverInv
<1> SUFFICES ASSUME Init PROVE ApproverInv
  OBVIOUS
<1>1. Housed
  BY SeedAssumption, CommunityAssumption DEF Init, Housed, HasUser, HasGroup, UserRow
<1>2. Pinned
  BY DEF Init, Pinned, Draft
<1>3. QED
  BY <1>1, <1>2 DEF ApproverInv

LEMMA ApproverStep == TypeInv /\ ApproverInv /\ [Next]_vars => ApproverInv'
<1> SUFFICES ASSUME TypeInv, ApproverInv, [Next]_vars PROVE ApproverInv'
  OBVIOUS
<1>1. ASSUME NEW s \in Slot, GroupsStep(s) PROVE ApproverInv'
  <2>1. CASE UNCHANGED <<group, user, event>>
    BY <2>1, EventsApprovers DEF ApproverInv, Pinned
  <2>2. QED
    BY <1>1, <2>1, InsertGroupApprovers DEF GroupsStep, CreateGroup, FixRead, FixWrite
<1>2. ASSUME NEW s \in Slot, EventsStep(s) PROVE ApproverInv'
  BY <1>2, SubmitEventApprovers, PinApproverApprovers DEF EventsStep
<1>3. ASSUME NEW e \in Event, Decide(e) PROVE ApproverInv'
  <2>1. UNCHANGED <<group, user>>
    BY <1>3 DEF Decide
  <2>2. event'[e].status = "DECIDED" /\ \A d \in Event \ {e} : event'[d] = event[d]
    BY <1>3 DEF Decide, TypeInv, CommunityTypeOK, EventRow
  <2>3. QED
    BY <2>1, <2>2, EventsApprovers DEF ApproverInv, Pinned
<1>4. CASE UNCHANGED vars
  BY <1>4, EventsApprovers DEF vars, ApproverInv, Pinned
<1>5. QED
  BY <1>1, <1>2, <1>3, <1>4, UsersStepApprovers, UpdateGroupApprovers, RemoveGroupApprovers DEF Next

(***************************************************************************)
(* Whom an event waits for is there, in a group that is there, whatever     *)
(* groups are removed while submissions and moves of users are in flight.   *)
(***************************************************************************)
THEOREM ApproverIsNeverDeleted == Spec => []ApproverExists
<1>1. TypeInv /\ ApproverInv /\ [Next]_vars => (TypeInv /\ ApproverInv)'
  BY TypeStep, ApproverStep
<1>2. QED
  BY <1>1, ApproverIsThere, TypeInitially, ApproverInitially, PTL DEF Spec

-----------------------------------------------------------------------------
(* Rules for every group *)

Steps(r) == {a.stepOrder : a \in r}

\* A group has both steps or no rule at all; a repair in flight knows the latter.
BothOrNone == \A g \in Group : rules[g] = {} \/ Steps(rules[g]) = {1, 2}
KnowsBare(s) == call[s].pc = "fix" =>
    \A g \in Group : HasGroup(g) /\ rules[g] = {} => \E p \in call[s].snap : p[1] = g

RulesInv == BothOrNone /\ \A s \in Slot : KnowsBare(s)

LEMMA DefaultSteps == \A type : Steps(DefaultRules(type)) = {1, 2}
  BY DEF DefaultRules, Steps

\* No rule goes and no group comes but with rules; at most slot s goes on.
LEMMA RulesKeep ==
    ASSUME TypeInv, RulesInv, BothOrNone',
           \A g \in Group : HasGroup(g)' /\ rules'[g] = {} => HasGroup(g) /\ rules[g] = {},
           \A t \in Slot : call'[t] = call[t] \/ call'[t].pc # "fix"
    PROVE  RulesInv'
<1>1. ASSUME NEW t \in Slot PROVE KnowsBare(t)'
  BY DEF KnowsBare, RulesInv
<1>2. QED
  BY <1>1 DEF RulesInv

\* The steps that leave groups and rules alone and start no repair.
LEMMA RulesUntouched ==
    ASSUME TypeInv, RulesInv, UNCHANGED <<group, rules>>,
           \A t \in Slot : call'[t] = call[t] \/ call'[t].pc # "fix"
    PROVE  RulesInv'
<1>1. BothOrNone'
  BY DEF RulesInv, BothOrNone
<1>2. \A g \in Group : HasGroup(g)' => HasGroup(g)
  BY DEF HasGroup
<1>3. QED
  BY <1>1, <1>2, RulesKeep

LEMMA UsersStepRules ==
    ASSUME TypeInv, RulesInv, NEW s \in Slot, UsersStep(s)
    PROVE  RulesInv'
<1>1. UNCHANGED <<group, rules>>
  BY DEF UsersStep, UpdateUser, CreateUser, RemoveUser, InsertUser, CheckUpdate, WriteUpdate, SoftDelete
<1>2. \A t \in Slot \ {s} : call'[t] = call[t]
  BY DEF UsersStep, UpdateUser, CreateUser, RemoveUser, InsertUser, CheckUpdate, WriteUpdate,
         SoftDelete, Start, Goto, Finish, TypeInv, CommunityTypeOK
<1>3. Idle.pc = "idle" /\ call \in [Slot -> Call]
  BY DEF Idle, TypeInv, CommunityTypeOK
<1>4. call'[s].pc # "fix"
  <2>1. CASE CheckUpdate(s)
    <3>1. PICK c : c = [call[s] EXCEPT !.pc = "write", !.was = Same]
      OBVIOUS
    <3>2. c.pc = "write"
      BY <1>3, <3>1 DEF Call
    <3>3. call' = [call EXCEPT ![s] = c] \/ call' = [call EXCEPT ![s] = Idle]
      BY <2>1, <3>1 DEF CheckUpdate, Goto, Finish
    <3>4. QED
      BY <1>3, <3>2, <3>3
  <2>2. CASE WriteUpdate(s) \/ SoftDelete(s) \/ \E u \in User : InsertUser(s, u)
    BY <1>3, <2>2 DEF InsertUser, WriteUpdate, SoftDelete, Finish
  <2>3. ASSUME NEW r \in User, NEW u \in User, NEW role \in NewRole \cup {Same},
               NEW g \in Group \cup {Same}, UpdateUser(s, r, u, role, g)
        PROVE  call'[s].pc # "fix"
    BY <1>3, <2>3 DEF UpdateUser, Start, Idle
  <2>4. ASSUME NEW r \in User, NEW role \in NewRole, NEW g \in Group, CreateUser(s, r, role, g)
        PROVE  call'[s].pc # "fix"
    BY <1>3, <2>4 DEF CreateUser, Start, Idle
  <2>5. ASSUME NEW r \in User, NEW u \in User, RemoveUser(s, r, u)
        PROVE  call'[s].pc # "fix"
    BY <1>3, <2>5 DEF RemoveUser, Start, Idle
  <2>6. QED
    BY <2>1, <2>2, <2>3, <2>4, <2>5 DEF UsersStep
<1>5. QED
  BY <1>1, <1>2, <1>4, RulesUntouched

LEMMA EventsStepRules ==
    ASSUME TypeInv, RulesInv, NEW s \in Slot, EventsStep(s)
    PROVE  RulesInv'
<1>1. UNCHANGED <<group, rules>>
  BY DEF EventsStep, SubmitEvent, PinApprover
<1>2. call \in [Slot -> Call]
  BY DEF TypeInv, CommunityTypeOK
<1>3. \A t \in Slot : call'[t] = call[t] \/ call'[t].pc # "fix"
  <2>1. CASE PinApprover(s)
    BY <1>2, <2>1 DEF PinApprover, Finish, Idle
  <2>2. ASSUME NEW r \in User, NEW u \in User, NEW e \in Event, SubmitEvent(s, r, e, u)
        PROVE  \A t \in Slot : call'[t] = call[t] \/ call'[t].pc # "fix"
    <3>1. PICK c : c = [Idle EXCEPT !.pc = "pin", !.event = e, !.user = u]
      OBVIOUS
    <3>2. c.pc = "pin"
      BY <3>1 DEF Idle
    <3>3. call' = call \/ call' = [call EXCEPT ![s] = c]
      BY <2>2, <3>1 DEF SubmitEvent, Start
    <3>4. QED
      BY <1>2, <3>2, <3>3
  <2>3. QED
    BY <2>1, <2>2 DEF EventsStep
<1>4. QED
  BY <1>1, <1>3, RulesUntouched

LEMMA CreateGroupRules ==
    ASSUME TypeInv, RulesInv, NEW s \in Slot, NEW r \in User, NEW type \in GroupType,
           NEW p \in Group \cup {NoGroup}, CreateGroup(s, r, type, p)
    PROVE  RulesInv'
<1>1. \A t \in Slot : call'[t] = call[t] \/ call'[t].pc # "fix"
  BY DEF CreateGroup, Start, Idle, TypeInv, CommunityTypeOK
<1>2. QED
  BY <1>1, RulesUntouched DEF CreateGroup

\* The call of slot s ends.
LEMMA FinishEnds ==
    ASSUME TypeInv, NEW s \in Slot, Finish(s)
    PROVE  \A t \in Slot : call'[t] = call[t] \/ call'[t].pc # "fix"
  BY DEF Finish, Idle, TypeInv, CommunityTypeOK

LEMMA InsertGroupRules ==
    ASSUME TypeInv, RulesInv, NEW s \in Slot, NEW g \in Group, InsertGroup(s, g)
    PROVE  RulesInv'
<1>1. CASE UNCHANGED <<group, rules>>
  BY <1>1, FinishEnds, RulesUntouched DEF InsertGroup
<1>2. CASE ~UNCHANGED <<group, rules>>
  <2>1. PICK new : new = DefaultRules(call[s].type)
    OBVIOUS
  <2>2. Steps(new) = {1, 2}
    BY <2>1, DefaultSteps
  <2>3. new # {}
    BY <2>2 DEF Steps
  <2>4. /\ rules' = [rules EXCEPT ![g] = new]
        /\ \A h \in Group \ {g} : group'[h] = group[h]
    BY <1>2, <2>1 DEF InsertGroup, RulesAtBirth, TypeInv, CommunityTypeOK
  <2>5. rules'[g] = new /\ \A h \in Group \ {g} : rules'[h] = rules[h]
    BY <2>4 DEF TypeInv, CommunityTypeOK
  <2>6. BothOrNone'
    BY <2>2, <2>5 DEF RulesInv, BothOrNone
  <2>7. \A h \in Group : HasGroup(h)' /\ rules'[h] = {} => HasGroup(h) /\ rules[h] = {}
    BY <2>3, <2>4, <2>5 DEF HasGroup
  <2>8. QED
    BY <2>6, <2>7, FinishEnds, RulesKeep DEF InsertGroup
<1>3. QED
  BY <1>1, <1>2

LEMMA UpdateGroupRules ==
    ASSUME TypeInv, RulesInv, NEW r \in User, NEW g \in Group, NEW type \in GroupType,
           UpdateGroup(r, g, type)
    PROVE  RulesInv'
<1>1. BothOrNone' /\ UNCHANGED <<rules, call>>
  BY DEF UpdateGroup, RulesInv, BothOrNone
<1>2. \A h \in Group : HasGroup(h)' => HasGroup(h)
  BY DEF HasGroup, UpdateGroup, TypeInv, CommunityTypeOK
<1>3. QED
  BY <1>1, <1>2, RulesKeep

LEMMA RemoveGroupRules ==
    ASSUME TypeInv, RulesInv, NEW r \in User, NEW g \in Group, RemoveGroup(r, g)
    PROVE  RulesInv'
<1>1. rules'[g] = {} /\ \A h \in Group \ {g} : rules'[h] = rules[h]
  BY DEF RemoveGroup, TypeInv, CommunityTypeOK
<1>2. BothOrNone'
  BY <1>1 DEF RulesInv, BothOrNone
<1>3. ~HasGroup(g)'
  BY DEF HasGroup, RemoveGroup, GroupType
<1>4. ASSUME NEW h \in Group \ {g}, HasGroup(h)' PROVE HasGroup(h)
  BY <1>4 DEF HasGroup, RemoveGroup, TypeInv, CommunityTypeOK, GroupRow
<1>5. \A h \in Group : HasGroup(h)' /\ rules'[h] = {} => HasGroup(h) /\ rules[h] = {}
  BY <1>1, <1>3, <1>4
<1>6. UNCHANGED call
  BY DEF RemoveGroup
<1>7. QED
  BY <1>2, <1>5, <1>6, RulesKeep

LEMMA FixReadRules ==
    ASSUME TypeInv, RulesInv, NEW s \in Slot, NEW r \in User, FixRead(s, r)
    PROVE  RulesInv'
<1>1. PICK snap : snap = {<<g, group[g].type>> : g \in {h \in Group : HasGroup(h) /\ rules[h] = {}}}
  OBVIOUS
<1>2. PICK c : c = [Idle EXCEPT !.pc = "fix", !.snap = snap]
  OBVIOUS
<1>3. call' = [call EXCEPT ![s] = c] /\ c.snap = snap /\ UNCHANGED <<group, rules>>
  BY <1>1, <1>2 DEF FixRead, Start, Idle
<1>4. call'[s] = c /\ \A t \in Slot \ {s} : call'[t] = call[t]
  BY <1>3 DEF TypeInv, CommunityTypeOK
<1>5. BothOrNone'
  BY <1>3 DEF RulesInv, BothOrNone
<1>6. \A g \in Group : HasGroup(g)' <=> HasGroup(g)
  BY <1>3 DEF HasGroup
<1>7. KnowsBare(s)'
  <2>1. ASSUME NEW g \in Group, HasGroup(g), rules[g] = {} PROVE \E p \in snap : p[1] = g
    <3>1. <<g, group[g].type>> \in snap
      BY <1>1, <2>1
    <3>2. QED
      BY <3>1
  <2>2. QED
    BY <1>3, <1>4, <1>6, <2>1 DEF KnowsBare
<1>8. ASSUME NEW t \in Slot \ {s} PROVE KnowsBare(t)'
  BY <1>3, <1>4, <1>6 DEF KnowsBare, RulesInv
<1>9. QED
  BY <1>5, <1>7, <1>8 DEF RulesInv

\* What the repair adds to g: the rules of the types it was read with.
Added(s, g) == UNION {DefaultRules(p[2]) : p \in {q \in call[s].snap : q[1] = g}}

LEMMA AddedSteps ==
    ASSUME NEW s \in Slot, NEW g \in Group
    PROVE  /\ Steps(Added(s, g)) \subseteq {1, 2}
           /\ (\E p \in call[s].snap : p[1] = g) => Steps(Added(s, g)) = {1, 2}
<1>1. \A a \in Added(s, g) : a.stepOrder \in {1, 2}
  <2>1. ASSUME NEW a \in Added(s, g) PROVE a.stepOrder \in {1, 2}
    <3>1. PICK p \in call[s].snap : a \in DefaultRules(p[2])
      BY DEF Added
    <3>2. QED
      BY <3>1, DefaultSteps DEF Steps
  <2>2. QED
    BY <2>1
<1>2. ASSUME NEW p \in call[s].snap, p[1] = g PROVE {1, 2} \subseteq Steps(Added(s, g))
  <2>1. DefaultRules(p[2]) \subseteq Added(s, g)
    BY <1>2 DEF Added
  <2>2. {1, 2} \subseteq Steps(DefaultRules(p[2]))
    BY DefaultSteps
  <2>3. QED
    BY <2>1, <2>2 DEF Steps
<1>3. QED
  BY <1>1, <1>2 DEF Steps

\* After a repair that was not undone every group has both steps.
LEMMA FixWriteRepairs ==
    ASSUME TypeInv, RulesInv, NEW s \in Slot, FixWrite(s), rules' # rules
    PROVE  /\ BothOrNone'
           /\ \A g \in Group : rules[g] # {} => rules'[g] # {}
           /\ \A g \in Group : HasGroup(g) => Steps(rules'[g]) = {1, 2}
<1>1. \A g \in Group : rules'[g] = rules[g] \cup Added(s, g)
  BY DEF FixWrite, Added
<1>2. ASSUME NEW g \in Group
      PROVE  Steps(rules'[g]) = Steps(rules[g]) \cup Steps(Added(s, g))
  BY <1>1 DEF Steps
<1>3. \A g \in Group : rules[g] # {} => Steps(rules'[g]) = {1, 2}
  BY <1>2, AddedSteps DEF RulesInv, BothOrNone
<1>4. \A g \in Group : (\E p \in call[s].snap : p[1] = g) => Steps(rules'[g]) = {1, 2}
  BY <1>2, <1>3, AddedSteps DEF Steps
<1>5. \A g \in Group : rules[g] = {} /\ ~(\E p \in call[s].snap : p[1] = g) => rules'[g] = {}
  BY <1>1 DEF Added
<1>6. BothOrNone'
  BY <1>3, <1>4, <1>5 DEF BothOrNone
<1>7. \A g \in Group : HasGroup(g) => Steps(rules'[g]) = {1, 2}
  BY <1>3, <1>4 DEF RulesInv, KnowsBare, FixWrite, At
<1>8. QED
  BY <1>1, <1>6, <1>7

LEMMA FixWriteRules ==
    ASSUME TypeInv, RulesInv, NEW s \in Slot, FixWrite(s)
    PROVE  RulesInv'
<1>1. CASE UNCHANGED rules
  BY <1>1, FinishEnds, RulesUntouched DEF FixWrite
<1>2. CASE rules' # rules
  <2>1. UNCHANGED group
    BY DEF FixWrite
  <2>2. \A g \in Group : HasGroup(g)' => HasGroup(g)
    BY <2>1 DEF HasGroup
  <2>3. QED
    BY <1>2, <2>2, FixWriteRepairs, FinishEnds, RulesKeep DEF FixWrite
<1>3. QED
  BY <1>1, <1>2

LEMMA RulesInitially == Init => RulesInv
  BY DEF Init, RulesInv, BothOrNone, KnowsBare, Idle

LEMMA RulesStep == TypeInv /\ RulesInv /\ [Next]_vars => RulesInv'
<1> SUFFICES ASSUME TypeInv, RulesInv, [Next]_vars PROVE RulesInv'
  OBVIOUS
<1>1. ASSUME NEW s \in Slot, GroupsStep(s) PROVE RulesInv'
  BY <1>1, CreateGroupRules, InsertGroupRules, FixReadRules, FixWriteRules DEF GroupsStep
<1>2. ASSUME NEW e \in Event, Decide(e) PROVE RulesInv'
  BY <1>2, RulesUntouched DEF Decide
<1>3. CASE UNCHANGED vars
  BY <1>3, RulesUntouched DEF vars
<1>4. QED
  BY <1>1, <1>2, <1>3, UsersStepRules, EventsStepRules, UpdateGroupRules, RemoveGroupRules DEF Next

(***************************************************************************)
(* A repair of the rules leaves no group without both steps, whatever       *)
(* groups came, went or changed their type since it read them.              *)
(***************************************************************************)
THEOREM RepairIsComplete == Spec => FixRepairsAll
<1>1. TypeInv /\ RulesInv /\ [Next]_vars => (TypeInv /\ RulesInv)'
  BY TypeStep, RulesStep
<1>2. TypeInv /\ RulesInv /\ [Next]_vars =>
        [\A s \in Slot : FixWrite(s) /\ rules' # rules =>
           \A g \in Group : HasGroup(g) => {a.stepOrder : a \in rules'[g]} = {1, 2}]_vars
  BY FixWriteRepairs DEF Steps
<1>3. QED
  BY <1>1, <1>2, TypeInitially, RulesInitially, PTL DEF Spec, FixRepairsAll
=============================================================================
