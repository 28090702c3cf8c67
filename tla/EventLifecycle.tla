---------------------------- MODULE EventLifecycle ----------------------------
(***************************************************************************)
(* The events module of the backend: the handlers of EventsService and      *)
(* EventApprovalService over the event, approval, expense and history rows, *)
(* and the wallets they pay from and refund to.                             *)
(*                                                                          *)
(* A handler runs in a slot.  It reads and checks first and writes later,   *)
(* and other handlers run at every await, so each read and each database    *)
(* transaction is an action of its own: Begin... is the read with its       *)
(* checks, the actions after it follow req[s].pc.  FinanceService opens its *)
(* own transaction even when the caller is inside one, so a payment commits *)
(* before, and independently of, the transaction around it.                 *)
(***************************************************************************)
EXTENDS Ledger

CONSTANTS
    Slot,           \* handlers that can be in flight at once
    NoUser, NoEvent,
    Op,             \* the operations clients use in this instance
    Budget,         \* values of budgetEstimated
    Spending,       \* values of an expense item and of a report's total
    Remaining,      \* values of remainingAmount
    Threshold,      \* LEADER_APPROVAL_THRESHOLD
    Tolerance,      \* rounding accepted by the expense report
    OnePerUser,     \* TRUE: a user waits for an answer before the next call
    MaxAborts,      \* bound: handlers that die half-way
    MaxBalance,     \* bound: no refund is started into a wallet above it
    MaxExpenses     \* bound: no report is started for an event above it

AllOps == {"create", "update", "delete", "submit", "approve", "cancel",
           "expense", "extend", "settle", "view"}

ASSUME LifecycleAssumption ==
    /\ NoUser \notin User
    /\ NoEvent \notin Event
    /\ Op \subseteq AllOps
    /\ Budget \subseteq Nat /\ Spending \subseteq Nat \ {0} /\ Remaining \subseteq Int
    /\ Threshold \in Nat /\ Tolerance \in Nat /\ MaxAborts \in Nat
    /\ MaxBalance \in Int /\ MaxExpenses \in Nat
    /\ OnePerUser \in BOOLEAN

VARIABLES
    event,      \* [Event -> EventRow], the Event table
    approvals,  \* [Event -> SUBSET ApprovalRow], the EventApproval table
    expenses,   \* [Event -> Nat], sum of the verified EventExpense rows
    trail,      \* [Event -> StatusChange], the newest EventStatusHistory row
    req,        \* [Slot -> Request], the handlers in flight
    aborts      \* handlers that died half-way

eventVars == <<event, approvals, expenses, trail>>
vars == <<event, approvals, expenses, trail, req, aborts, ledgerVars>>

-----------------------------------------------------------------------------
\* EventStatus, and the two states of an id without a row.
EventStatus == {"DRAFT", "SUBMITTED", "UNDER_REVIEW", "REJECTED", "APPROVED",
                "FUNDED", "ONGOING", "COMPLETED", "SETTLED", "CANCELLED"}
RowStatus == EventStatus \cup {"ABSENT", "DELETED"}
ApprovalStatus == {"PENDING", "APPROVED", "REJECTED"}

\* ended: endDate is set and has passed.  actual: budgetActual, 0 when null.
EventRow == [status : RowStatus, creator : User \cup {NoUser},
             budget : Nat, actual : Nat, ended : BOOLEAN]

ApprovalRow == [step : {1, 2}, approver : User, status : ApprovalStatus]

StatusChange == [prev : RowStatus, new : RowStatus]

Pc == {"idle", "write", "cascade", "rows", "clear", "insert", "decide", "fund", "pay", "commit",
       "expense", "actual", "refund", "reread", "mark", "set"}

(***************************************************************************)
(* A handler's local variables: what it read (status, budget, rows), what   *)
(* it was asked for (verdict, spent, amount, target) and where it is.       *)
(* gone: the approval row it holds the id of has been deleted since.        *)
(***************************************************************************)
RequestOf(ops, pcs) ==
    [op : ops \cup {"none"}, pc : pcs, user : User \cup {NoUser}, event : Event \cup {NoEvent},
     budget : Nat, target : EventStatus, prior : RowStatus, amount : Int, spent : Nat,
     left : Nat, rows : SUBSET ApprovalRow, verdict : ApprovalStatus, gone : BOOLEAN]

Idle == [op |-> "none", pc |-> "idle", user |-> NoUser, event |-> NoEvent,
         budget |-> 0, target |-> "DRAFT", prior |-> "DRAFT", amount |-> 0, spent |-> 0,
         left |-> 0, rows |-> {}, verdict |-> "PENDING", gone |-> FALSE]

LifecycleTypeOK ==
    /\ LedgerTypeOK
    /\ event \in [Event -> EventRow]
    /\ approvals \in [Event -> SUBSET ApprovalRow]
    /\ expenses \in [Event -> Nat]
    /\ trail \in [Event -> StatusChange]
    /\ aborts \in 0..MaxAborts

\* Every row and every handler's local variables keep their declared types.
TypeOK == LifecycleTypeOK /\ req \in [Slot -> RequestOf(AllOps, Pc)]

Init ==
    /\ LedgerInit
    /\ event = [e \in Event |-> [status |-> "ABSENT", creator |-> NoUser,
                                 budget |-> 0, actual |-> 0, ended |-> FALSE]]
    /\ approvals = [e \in Event |-> {}]
    /\ expenses = [e \in Event |-> 0]
    /\ trail = [e \in Event |-> [prev |-> "DRAFT", new |-> "DRAFT"]]
    /\ req = [s \in Slot |-> Idle]
    /\ aborts = 0

-----------------------------------------------------------------------------
Status(e) == event[e].status
Exists(e) == Status(e) \in EventStatus
Deleted(e) == e \in Event /\ Status(e) = "DELETED"
GroupOfEvent(e) == GroupOf[event[e].creator]
At(s, op, pc) == req[s].op = op /\ req[s].pc = pc
Ev(s) == req[s].event

\* A client calls an endpoint.  May... is what the handler checks on what it has
\* read of e, Begin... that it does so and goes on.
MayCall(s, op, u, e) ==
    /\ op \in Op
    /\ req[s] = Idle
    /\ OnePerUser => \A t \in Slot : req[t].user # u
    /\ Exists(e)

\* The handler holds what it has just read of e.
Call(op, u, e, pc, target) ==
    [Idle EXCEPT !.op = op, !.user = u, !.event = e, !.pc = pc, !.target = target,
                 !.budget = event[e].budget]

Start(s, r) == req' = [req EXCEPT ![s] = r]
Goto(s, pc) == req' = [req EXCEPT ![s].pc = pc]
Finish(s) == req' = [req EXCEPT ![s] = Idle]

\* Mutant: a write re-creates the missing row.
RunningUpsert(s) == req[s] # Idle
\* The row of e still exists when s writes it; otherwise s throws (FailOnDeleted).
Running(s) == req[s] # Idle /\ ~Deleted(Ev(s))

\* Mutant: the history row is built after the update.
SetStatusTooLate(e, prev, new) ==
    /\ event' = [event EXCEPT ![e].status = new]
    /\ trail' = [trail EXCEPT ![e] = [prev |-> new, new |-> new]]
SetStatus(e, prev, new) ==
    /\ event' = [event EXCEPT ![e].status = new]
    /\ trail' = [trail EXCEPT ![e] = [prev |-> prev, new |-> new]]

\* s is inside the transaction of the last approval and has updated its row.
InApprovalTx(s) == req[s].op = "approve" /\ req[s].pc \in {"fund", "pay", "commit"}
ApprovalRowsFree(e) == \A t \in Slot : Ev(t) = e => ~InApprovalTx(t)

\* No deletion holds the row of e; one that does keeps its writers waiting, and
\* everyone who inserts a row that refers to e.
NoDeletion(e) == \A t \in Slot : Ev(t) = e => req[t].pc # "cascade"

\* The ids of e's approval rows, held by handlers that read them, are dead.
ForgetRows(s, e, r) ==
    req' = [t \in Slot |->
              IF t = s THEN r
              ELSE IF req[t].op = "approve" /\ Ev(t) = e THEN [req[t] EXCEPT !.gone = TRUE]
              ELSE req[t]]

-----------------------------------------------------------------------------
(* Creating, editing and deleting a draft *)

\* createEvent: one insert; an endDate in the past is accepted.
Create(u, e, b, late) ==
    /\ "create" \in Op
    /\ u \in Organizers
    /\ Status(e) = "ABSENT"
    /\ event' = [event EXCEPT ![e] = [status |-> "DRAFT", creator |-> u, budget |-> b,
                                      actual |-> 0, ended |-> late]]
    /\ trail' = [trail EXCEPT ![e] = [prev |-> "DRAFT", new |-> "DRAFT"]]
    /\ UNCHANGED <<approvals, expenses, req, aborts, ledgerVars>>

editableStatuses == {"DRAFT", "REJECTED"}

MayUpdate(s, u, e) ==
    /\ MayCall(s, "update", u, e)
    /\ u \in Organizers /\ HasGroupAccess(u, GroupOfEvent(e))
    /\ event[e].creator = u
    /\ Status(e) \in editableStatuses

BeginUpdate(s, u, e, b) ==
    /\ MayUpdate(s, u, e)
    /\ Start(s, [Call("update", u, e, "write", "DRAFT") EXCEPT !.budget = b])
    /\ UNCHANGED <<eventVars, aborts, ledgerVars>>

\* The write names the row by id only: the status it was allowed in may be gone.
WriteUpdate(s, late) ==
    /\ Running(s) /\ At(s, "update", "write")
    /\ NoDeletion(Ev(s))
    /\ event' = [event EXCEPT ![Ev(s)].budget = req[s].budget, ![Ev(s)].ended = late]
    /\ Finish(s)
    /\ UNCHANGED <<approvals, expenses, trail, aborts, ledgerVars>>

MayDelete(s, u, e) ==
    /\ MayCall(s, "delete", u, e)
    /\ u \in Organizers /\ HasGroupAccess(u, GroupOfEvent(e))
    /\ event[e].creator = u
    /\ Status(e) = "DRAFT"

BeginDelete(s, u, e) ==
    /\ MayDelete(s, u, e)
    /\ Start(s, Call("delete", u, e, "write", "DRAFT"))
    /\ UNCHANGED <<eventVars, aborts, ledgerVars>>

\* DELETE locks the event's row first ...
LockEvent(s) ==
    /\ Running(s) /\ At(s, "delete", "write")
    /\ NoDeletion(Ev(s))
    /\ Goto(s, "cascade")
    /\ UNCHANGED <<eventVars, aborts, ledgerVars>>

\* ... then waits for the event's approvals, which go with it (onDelete: Cascade).
WriteDelete(s) ==
    /\ Running(s) /\ At(s, "delete", "cascade")
    /\ ApprovalRowsFree(Ev(s))
    /\ event' = [event EXCEPT ![Ev(s)].status = "DELETED"]
    /\ approvals' = [approvals EXCEPT ![Ev(s)] = {}]
    /\ ForgetRows(s, Ev(s), Idle)
    /\ UNCHANGED <<expenses, trail, aborts, ledgerVars>>

-----------------------------------------------------------------------------
(* Submitting: the approval rows are rebuilt, then the status is set *)

\* Mutant: a submitted event may be submitted again.
submittableAlsoSubmitted == {"DRAFT", "REJECTED", "SUBMITTED"}
submittableStatuses == {"DRAFT", "REJECTED"}

MaySubmit(s, u, e) ==
    /\ MayCall(s, "submit", u, e)
    /\ u \in Organizers /\ HasGroupAccess(u, GroupOfEvent(e))
    /\ Status(e) \in submittableStatuses

BeginSubmit(s, u, e) ==
    /\ MaySubmit(s, u, e)
    /\ Start(s, Call("submit", u, e, "rows", "SUBMITTED"))
    /\ UNCHANGED <<eventVars, aborts, ledgerVars>>

\* Mutant: the role is left out of the search.
AnyMember(g) == {u \in User : GroupOf[u] = g}
\* The treasurer of the event's group, or of its parent when it has none.
Treasurers(g) ==
    IF HoldersOf("TREASURER", g) # {} \/ ParentOf[g] = NoGroup
    THEN HoldersOf("TREASURER", g) ELSE HoldersOf("TREASURER", ParentOf[g])

\* The leader of the parent group.
Leaders(g) == IF ParentOf[g] = NoGroup THEN {} ELSE HoldersOf("LEADER", ParentOf[g])

\* isAdminEvent and isHighBudget.
NeedsLeader(e) == RoleOf[event[e].creator] = "ADMIN" /\ event[e].budget > Threshold

\* Mutant: steps counted from the wrong end.
PendingShifted(step, u) == [step |-> step + 1, approver |-> u, status |-> "PENDING"]
Pending(step, u) == [step |-> step, approver |-> u, status |-> "PENDING"]

Workflows(e) ==
    {{Pending(1, t)} : t \in {v \in Treasurers(GroupOfEvent(e)) : ~NeedsLeader(e)}}
    \cup {{Pending(1, p[1]), Pending(2, p[2])} :
            p \in {q \in Treasurers(GroupOfEvent(e)) \X Leaders(GroupOfEvent(e)) :
                     NeedsLeader(e)}}

\* generateApprovalWorkflow's own read of the event; it throws without an approver.
ReadWorkflow(s) ==
    /\ Running(s) /\ At(s, "submit", "rows")
    /\ \/ \E w \in Workflows(Ev(s)) :
            req' = [req EXCEPT ![s].rows = w, ![s].pc = "clear"]
       \/ Workflows(Ev(s)) = {} /\ Finish(s)
    /\ UNCHANGED <<eventVars, aborts, ledgerVars>>

ClearApprovals(s) ==
    /\ Running(s) /\ At(s, "submit", "clear")
    /\ ApprovalRowsFree(Ev(s))
    /\ approvals' = [approvals EXCEPT ![Ev(s)] = {}]
    /\ ForgetRows(s, Ev(s), [req[s] EXCEPT !.pc = "insert"])
    /\ UNCHANGED <<event, expenses, trail, aborts, ledgerVars>>

\* One insert per step, in order; (event, approver, step) is unique.
InsertApproval(s) ==
    /\ Running(s) /\ At(s, "submit", "insert")
    /\ \E r \in req[s].rows :
        /\ \A other \in req[s].rows : r.step <= other.step
        /\ LET clash == \E x \in approvals[Ev(s)] : x.step = r.step /\ x.approver = r.approver
               rest == req[s].rows \ {r}
           IN  \/ clash /\ Finish(s) /\ UNCHANGED approvals
               \/ /\ ~clash /\ NoDeletion(Ev(s))
                  /\ approvals' = [approvals EXCEPT ![Ev(s)] = @ \cup {r}]
                  /\ req' = [req EXCEPT ![s].rows = rest,
                                        ![s].pc = IF rest = {} THEN "mark" ELSE "insert"]
    /\ UNCHANGED <<event, expenses, trail, aborts, ledgerVars>>

-----------------------------------------------------------------------------
(* updateEventStatus: read the current status, then write status and history *)

ReadForHistory(s) ==
    /\ Running(s) /\ req[s].pc = "mark"
    /\ req' = [req EXCEPT ![s].prior = Status(Ev(s)), ![s].pc = "set"]
    /\ UNCHANGED <<eventVars, aborts, ledgerVars>>

\* Mutant: the rest of the money is never given back.
AfterStatusNoRefund(r) ==
    IF r.op = "cancel" /\ r.target = "COMPLETED" THEN [r EXCEPT !.pc = "reread"] ELSE Idle
\* What follows it: the report's refund; the cancellation after an auto-complete.
AfterStatus(r) ==
    IF r.op = "expense" /\ r.amount > 0 THEN [r EXCEPT !.pc = "refund"]
    ELSE IF r.op = "cancel" /\ r.target = "COMPLETED" THEN [r EXCEPT !.pc = "reread"]
    ELSE Idle

WriteStatus(s) ==
    /\ Running(s) /\ req[s].pc = "set"
    /\ NoDeletion(Ev(s))
    /\ SetStatus(Ev(s), req[s].prior, req[s].target)
    /\ req' = [req EXCEPT ![s] = AfterStatus(@)]
    /\ UNCHANGED <<approvals, expenses, aborts, ledgerVars>>

-----------------------------------------------------------------------------
(* Deciding an approval step; the last one pays the event out *)

\* The first of e's open steps, when it is u's to decide.
NextStepOf(u, e) ==
    {r \in approvals[e] : r.status = "PENDING" /\ r.approver = u /\
        \A other \in approvals[e] : other.status = "PENDING" => r.step <= other.step}

MayApprove(s, u, e) ==
    /\ MayCall(s, "approve", u, e)
    /\ u \in Reviewers
    /\ Status(e) = "SUBMITTED"
    /\ NextStepOf(u, e) # {}

\* The decision is made on the snapshot read here, inside and outside the transaction.
BeginApprove(s, u, e, v) ==
    /\ MayApprove(s, u, e)
    /\ LET pending == {r \in approvals[e] : r.status = "PENDING"} IN
        \E r \in NextStepOf(u, e) :
            Start(s, [Call("approve", u, e, "decide",
                           IF v = "REJECTED" THEN "REJECTED"
                           ELSE IF v = "APPROVED" /\ pending = {r} THEN "FUNDED"
                           ELSE "SUBMITTED")
                      EXCEPT !.rows = {r}, !.verdict = v])
    /\ UNCHANGED <<eventVars, aborts, ledgerVars>>

\* Mutant: the decision is not recorded.
DecidedNowhere(s) == approvals
\* approvals with the row held by s given its verdict.
Decided(s) ==
    [approvals EXCEPT ![Ev(s)] =
        {IF \E mine \in req[s].rows : mine.step = r.step /\ mine.approver = r.approver
         THEN [r EXCEPT !.status = req[s].verdict] ELSE r : r \in @}]

\* Another transaction holds the lock on the row s wants to update.
RowLocked(s) == \E t \in Slot : Ev(t) = Ev(s) /\ InApprovalTx(t) /\ req[t].rows = req[s].rows

\* s has locked its approval row and needs the event's: to set the status, or for
\* a history row.
NeedsEvent(s) ==
    \/ At(s, "approve", "commit")
    \/ /\ At(s, "approve", "decide") /\ ~RowLocked(s) /\ ~req[s].gone
       /\ req[s].target = "REJECTED" \/ (req[s].target = "SUBMITTED" /\ req[s].verdict = "APPROVED")

Decide(s) ==
    /\ Running(s) /\ At(s, "approve", "decide")
    /\ ~RowLocked(s)
    /\ NeedsEvent(s) => NoDeletion(Ev(s))
    /\ \/ /\ req[s].gone
          /\ Finish(s)
          /\ UNCHANGED eventVars
       \/ /\ ~req[s].gone /\ req[s].target = "REJECTED"
          /\ approvals' = Decided(s)
          /\ SetStatus(Ev(s), "SUBMITTED", "REJECTED")
          /\ Finish(s)
          /\ UNCHANGED expenses
       \/ /\ ~req[s].gone /\ req[s].target = "SUBMITTED"
          /\ approvals' = Decided(s)
          /\ trail' = IF req[s].verdict = "APPROVED"
                      THEN [trail EXCEPT ![Ev(s)] = [prev |-> "SUBMITTED", new |-> "SUBMITTED"]]
                      ELSE trail
          /\ Finish(s)
          /\ UNCHANGED <<event, expenses>>
       \/ /\ ~req[s].gone /\ req[s].target = "FUNDED"
          /\ Goto(s, "fund")
          /\ UNCHANGED eventVars
    /\ UNCHANGED <<aborts, ledgerVars>>

\* disburseEventFund reads the wallet and checks; a throw rolls the decision back.
CheckFunds(s) ==
    /\ Running(s) /\ At(s, "approve", "fund")
    /\ IF balance[GroupOfEvent(Ev(s))] < req[s].budget THEN Finish(s) ELSE Goto(s, "pay")
    /\ UNCHANGED <<eventVars, aborts, ledgerVars>>

\* disburseEventFund's own transaction.
Disburse(s) ==
    /\ Running(s) /\ At(s, "approve", "pay")
    /\ NoDeletion(Ev(s))
    /\ DebitForEvent(GroupOfEvent(Ev(s)), req[s].budget, Ev(s))
    /\ Goto(s, "commit")
    /\ UNCHANGED <<eventVars, aborts>>

CommitFunded(s) ==
    /\ Running(s) /\ At(s, "approve", "commit")
    /\ NoDeletion(Ev(s))
    /\ approvals' = Decided(s)
    /\ SetStatus(Ev(s), "SUBMITTED", "FUNDED")
    /\ Finish(s)
    /\ UNCHANGED <<expenses, aborts, ledgerVars>>

-----------------------------------------------------------------------------
(* Cancelling, and refunds *)

Cancelable == EventStatus \ {"COMPLETED", "SETTLED", "CANCELLED"}

\* Mutant: a funded event is cancelled without a refund.
CancelRequestNoRefund(u, e) == Call("cancel", u, e, "mark", "CANCELLED")
\* The cancellation after getEventDetails has answered: refund first, status after.
CancelRequest(u, e) ==
    IF Status(e) \in {"FUNDED", "ONGOING"}
    THEN [Call("cancel", u, e, "refund", "CANCELLED") EXCEPT !.amount = event[e].budget]
    ELSE Call("cancel", u, e, "mark", "CANCELLED")

\* getEventDetails completes an ended event before the cancellation looks at it.
MayCancel(s, u, e) ==
    /\ MayCall(s, "cancel", u, e)
    /\ balance[GroupOfEvent(e)] <= MaxBalance
    /\ u \in Organizers /\ HasGroupAccess(u, GroupOfEvent(e))
    /\ Status(e) \in Cancelable

BeginCancel(s, u, e) ==
    /\ MayCancel(s, u, e)
    /\ \/ /\ Status(e) = "ONGOING" /\ event[e].ended
          /\ Start(s, Call("cancel", u, e, "mark", "COMPLETED"))
       \/ /\ ~(Status(e) = "ONGOING" /\ event[e].ended)
          /\ Start(s, CancelRequest(u, e))
    /\ UNCHANGED <<eventVars, aborts, ledgerVars>>

Reread(s) ==
    /\ Running(s) /\ At(s, "cancel", "reread")
    /\ req' = [req EXCEPT ![s] = IF Status(Ev(s)) \in Cancelable
                                 THEN CancelRequest(req[s].user, Ev(s)) ELSE Idle]
    /\ UNCHANGED <<eventVars, aborts, ledgerVars>>

\* refundEventFund, called by the cancellation and by the expense report.
Refund(s) ==
    /\ Running(s) /\ req[s].pc = "refund"
    /\ NoDeletion(Ev(s))
    /\ CreditForEvent(GroupOfEvent(Ev(s)), req[s].amount, Ev(s))
    /\ IF req[s].op = "cancel" THEN Goto(s, "mark") ELSE Finish(s)
    /\ UNCHANGED <<eventVars, aborts>>

-----------------------------------------------------------------------------
(* Reporting, extending, completing and settling *)

\* Mutant: only what is missing is noticed.
BalancedMissing(total, rest, budget) == total + rest - budget >= -Tolerance
Balanced(total, rest, budget) ==
    total + rest - budget \in -Tolerance..Tolerance

MayReport(s, u, e, total, rest) ==
    /\ MayCall(s, "expense", u, e)
    /\ balance[GroupOfEvent(e)] <= MaxBalance /\ expenses[e] <= MaxExpenses
    /\ RoleOf[u] = "TREASURER" /\ HasGroupAccess(u, GroupOfEvent(e))
    /\ Status(e) = "FUNDED"
    /\ Balanced(total, rest, event[e].budget)

BeginExpense(s, u, e, total, rest) ==
    /\ MayReport(s, u, e, total, rest)
    /\ Start(s, [Call("expense", u, e, "expense", "ONGOING") EXCEPT
                   !.spent = total, !.left = total, !.amount = rest])
    /\ UNCHANGED <<eventVars, aborts, ledgerVars>>

\* One item of the list: its row is inserted and verified before the next one.
InsertExpense(s) ==
    /\ Running(s) /\ At(s, "expense", "expense")
    /\ NoDeletion(Ev(s))
    /\ \E a \in {x \in Spending : x < req[s].left} \cup {req[s].left} :
        /\ expenses' = [expenses EXCEPT ![Ev(s)] = @ + a]
        /\ req' = [req EXCEPT ![s].left = @ - a,
                              ![s].pc = IF a = req[s].left THEN "actual" ELSE "expense"]
    /\ UNCHANGED <<event, approvals, trail, aborts, ledgerVars>>

WriteActual(s) ==
    /\ Running(s) /\ At(s, "expense", "actual")
    /\ NoDeletion(Ev(s))
    /\ event' = [event EXCEPT ![Ev(s)].actual = req[s].spent]
    /\ Goto(s, "mark")
    /\ UNCHANGED <<approvals, expenses, trail, aborts, ledgerVars>>

MayExtend(s, u, e) ==
    /\ MayCall(s, "extend", u, e)
    /\ u \in Organizers /\ HasGroupAccess(u, GroupOfEvent(e))
    /\ Status(e) = "ONGOING"

BeginExtend(s, u, e) ==
    /\ MayExtend(s, u, e)
    /\ Start(s, Call("extend", u, e, "write", "ONGOING"))
    /\ UNCHANGED <<eventVars, aborts, ledgerVars>>

\* The new endDate is later than the old one, not necessarily than now.
WriteExtend(s, late) ==
    /\ Running(s) /\ At(s, "extend", "write")
    /\ NoDeletion(Ev(s))
    /\ event' = [event EXCEPT ![Ev(s)].ended = late]
    /\ Goto(s, "mark")
    /\ UNCHANGED <<approvals, expenses, trail, aborts, ledgerVars>>

MaySettle(s, u, e) ==
    /\ MayCall(s, "settle", u, e)
    /\ u \in Organizers /\ HasGroupAccess(u, GroupOfEvent(e))
    /\ event[e].creator = u
    /\ Status(e) = "COMPLETED"

BeginSettle(s, u, e) ==
    /\ MaySettle(s, u, e)
    /\ Start(s, Call("settle", u, e, "mark", "SETTLED"))
    /\ UNCHANGED <<eventVars, aborts, ledgerVars>>

\* getEventDetails and findAllEvents: a reader completes an ended event.
BeginView(s, u, e) ==
    /\ MayCall(s, "view", u, e)
    /\ HasGroupAccess(u, GroupOfEvent(e))
    /\ Status(e) = "ONGOING" /\ event[e].ended
    /\ Start(s, Call("view", u, e, "mark", "COMPLETED"))
    /\ UNCHANGED <<eventVars, aborts, ledgerVars>>

-----------------------------------------------------------------------------
(* The environment *)

\* endDate passes.
EndDatePasses(e) ==
    /\ Exists(e) /\ ~event[e].ended
    /\ event' = [event EXCEPT ![e].ended = TRUE]
    /\ UNCHANGED <<approvals, expenses, trail, req, aborts, ledgerVars>>

\* A write names a row that has been deleted since: the handler throws.
FailOnDeleted(s) ==
    /\ req[s] # Idle /\ Deleted(Ev(s))
    /\ Finish(s)
    /\ UNCHANGED <<eventVars, aborts, ledgerVars>>

\* The decision has its approval row and waits for the event, the deletion has
\* the event and waits for that row: PostgreSQL fails one of the two.
Deadlocked(s, d) ==
    Running(s) /\ NeedsEvent(s) /\ At(d, "delete", "cascade") /\ Ev(d) = Ev(s)

Deadlock(s) ==
    /\ \E t \in Slot : Deadlocked(s, t) \/ Deadlocked(t, s)
    /\ Finish(s)
    /\ UNCHANGED <<eventVars, aborts, ledgerVars>>

\* Mutant: the transaction around the payment has no timeout.
TimesOutNever(s) == FALSE /\ UNCHANGED vars
\* The payment's own connection waits for the event, the deletion for the approval
\* row of the transaction around the payment, which PostgreSQL sees idle: Prisma
\* ends it after five seconds.
TimesOut(s) ==
    /\ Running(s) /\ At(s, "approve", "pay")
    /\ ~NoDeletion(Ev(s))
    /\ Finish(s)
    /\ UNCHANGED <<eventVars, aborts, ledgerVars>>

\* The process, the connection or an open transaction dies; nothing is resumed.
Abort(s) ==
    /\ aborts < MaxAborts
    /\ req[s] # Idle
    /\ Finish(s)
    /\ aborts' = aborts + 1
    /\ UNCHANGED <<eventVars, ledgerVars>>

-----------------------------------------------------------------------------
Begin(s) ==
    \E u \in User, e \in Event :
        \/ \E b \in Budget : BeginUpdate(s, u, e, b)
        \/ BeginDelete(s, u, e)
        \/ BeginSubmit(s, u, e)
        \/ \E v \in ApprovalStatus : BeginApprove(s, u, e, v)
        \/ BeginCancel(s, u, e)
        \/ \E total \in Spending, rest \in Remaining : BeginExpense(s, u, e, total, rest)
        \/ BeginExtend(s, u, e)
        \/ BeginSettle(s, u, e)
        \/ BeginView(s, u, e)

\* The next step of the handler in slot s.
Continue(s) ==
    \/ \E late \in BOOLEAN : WriteUpdate(s, late) \/ WriteExtend(s, late)
    \/ LockEvent(s) \/ WriteDelete(s)
    \/ ReadWorkflow(s) \/ ClearApprovals(s) \/ InsertApproval(s)
    \/ ReadForHistory(s) \/ WriteStatus(s)
    \/ Decide(s) \/ CheckFunds(s) \/ Disburse(s) \/ CommitFunded(s)
    \/ Reread(s) \/ Refund(s)
    \/ InsertExpense(s) \/ WriteActual(s)
    \/ FailOnDeleted(s) \/ Deadlock(s) \/ TimesOut(s)

Environment ==
    \/ \E u \in User, e \in Event, b \in Budget, late \in BOOLEAN : Create(u, e, b, late)
    \/ \E e \in Event : EndDatePasses(e)

Next ==
    \/ Environment
    \/ \E s \in Slot : Begin(s) \/ Continue(s) \/ Abort(s)

Spec == Init /\ [][Next]_vars

\* Node's event loop takes every started handler to its end.  Strong fairness:
\* PostgreSQL queues the transactions that wait for a row lock, so one that can
\* have the lock again and again gets it.
FairSpec == Spec /\ \A s \in Slot : SF_vars(Continue(s))

-----------------------------------------------------------------------------
(* Properties.  Those that speak of Quiet events hold between handlers;     *)
(* those of the money and the approvals need the handlers to run one at a   *)
(* time, or a restriction of Op and OnePerUser that keeps them apart.       *)

Quiet(e) == \A s \in Slot : Ev(s) # e

PaidFor == {"FUNDED", "ONGOING", "COMPLETED", "SETTLED"}

(***************************************************************************)
(* An event is paid out only after its treasurer step is approved and, for  *)
(* an administrator's event above the threshold, the leader's step too --   *)
(* whatever its budget was when the steps were laid out.                    *)
(***************************************************************************)
FundedIsApproved ==
    \A e \in Event : Status(e) \in PaidFor =>
        /\ \E r \in approvals[e] : r.step = 1 /\ r.status = "APPROVED"
                                   /\ RoleOf[r.approver] = "TREASURER"
        /\ NeedsLeader(e) =>
             \E r \in approvals[e] : r.step = 2 /\ r.status = "APPROVED"
                                     /\ RoleOf[r.approver] = "LEADER"

(***************************************************************************)
(* No wallet is overdrawn: the balance checked before a payment still       *)
(* covers it when the payment commits.                                      *)
(***************************************************************************)
NoOverdraft == \A g \in Group : balance[g] >= 0

(***************************************************************************)
(* Between handlers, an event that is not funded yet has taken no money, a  *)
(* funded one exactly its budget, and a cancelled one leaves none outside.  *)
(***************************************************************************)
MoneyFollowsStatus ==
    \A e \in Event : Quiet(e) =>
        CASE Status(e) = "FUNDED" -> paidOut[e] = event[e].budget
          [] Status(e) = "CANCELLED" -> paidOut[e] <= 0
          [] Status(e) \in {"DRAFT", "SUBMITTED", "REJECTED", "DELETED"} -> paidOut[e] = 0
          [] OTHER -> TRUE

(***************************************************************************)
(* Refunds stay within what was paid out for the event (when no ONGOING     *)
(* event is cancelled: that returns its whole budget a second time).        *)
(***************************************************************************)
RefundsWithinPayments == \A e \in Event : paidOut[e] >= 0

(***************************************************************************)
(* Once the expense report is in, the money still out is covered by its     *)
(* verified items, and budgetActual is what they add up to.                 *)
(***************************************************************************)
ReportSettlesMoney ==
    \A e \in Event : Quiet(e) /\ Status(e) \in {"ONGOING", "COMPLETED", "SETTLED"} =>
        /\ paidOut[e] - expenses[e] <= Tolerance
        /\ event[e].actual = expenses[e]

(***************************************************************************)
(* A submitted event always waits for someone: it has a pending step whose  *)
(* approver may decide it.  Otherwise it could never leave SUBMITTED.       *)
(***************************************************************************)
SubmittedHasReviewer ==
    \A e \in Event : Status(e) = "SUBMITTED" =>
        \E r \in approvals[e] : r.status = "PENDING" /\ r.approver \in Reviewers

(***************************************************************************)
(* The history is the event's: no status changes without a row, and a row   *)
(* names the status it really replaced and the one the event then has.      *)
(***************************************************************************)
HistoryIsContinuous ==
    [][\A e \in Event : Exists(e) /\ Exists(e)' =>
            /\ Status(e)' # Status(e) => trail'[e].new = Status(e)'
            /\ trail'[e] # trail[e] => trail'[e] = [prev |-> Status(e), new |-> Status(e)']]_vars

(***************************************************************************)
(* A decision once recorded is never lost or changed, except by laying out  *)
(* the steps anew for a rejected event.                                     *)
(***************************************************************************)
DecisionsAreKept ==
    [][\A e \in Event : \A r \in approvals[e] :
            r.status # "PENDING" /\ r \notin approvals'[e] => Status(e) = "REJECTED"]_vars

(***************************************************************************)
(* A deleted event stays deleted: no handler that read it brings it back or *)
(* moves money for it.                                                      *)
(***************************************************************************)
DeletedIsFinal ==
    [][\A e \in Event : Status(e) = "DELETED" =>
            event'[e] = event[e] /\ approvals'[e] = {} /\ paidOut'[e] = paidOut[e]]_vars

(***************************************************************************)
(* Every call ends: no handler waits for ever on a row lock, alone or in a  *)
(* circle with a deletion, and none loops.                                  *)
(***************************************************************************)
CallsEnd == \A s \in Slot : req[s] # Idle ~> req[s] = Idle
=============================================================================
