------------------------- MODULE EventLifecycleProofs -------------------------
(***************************************************************************)
(* What holds of the handlers of EventLifecycle for every organization,     *)
(* every number of events and of handlers in flight, and any of them dying. *)
(*                                                                          *)
(* TypeOK is not inductive by itself: the row a handler works on must be a  *)
(* row of the table (InFlight) that has an owner (Owned), or the wallet it  *)
(* pays from could be anything.  A deletion takes the approvals with it     *)
(* (DeletedIsBare).                                                         *)
(***************************************************************************)
EXTENDS EventLifecycle, TLAPS

Request == RequestOf(AllOps, Pc)

\* A handler in flight works on a row that was there when it began.
InFlight == \A s \in Slot : req[s] # Idle => Ev(s) \in Event /\ Status(Ev(s)) # "ABSENT"

\* A row has an owner from the day it is created.
Owned == \A e \in Event : Status(e) # "ABSENT" => event[e].creator \in User

\* The inductive invariant, by the state it speaks of.
HandlersInv == req \in [Slot -> Request] /\ InFlight

\* The approvals of a deleted event went with it.
DeletedIsBare == \A e \in Event : Status(e) = "DELETED" => approvals[e] = {}

RowsTyped ==
    /\ event \in [Event -> EventRow]
    /\ approvals \in [Event -> SUBSET ApprovalRow]
    /\ expenses \in [Event -> Nat]
    /\ trail \in [Event -> StatusChange]
    /\ aborts \in 0..MaxAborts

RowsInv == RowsTyped /\ Owned /\ DeletedIsBare

IInv == HandlersInv /\ LedgerTypeOK /\ RowsInv

-----------------------------------------------------------------------------
(* The three ledger actions *)

LEMMA CreditForEventKeeps ==
    ASSUME LedgerTypeOK, NEW g \in Group, NEW a \in Int, NEW e \in Event,
           CreditForEvent(g, a, e)
    PROVE  LedgerTypeOK'
  BY DEF LedgerTypeOK, CreditForEvent

LEMMA DebitForEventKeeps ==
    ASSUME LedgerTypeOK, NEW g \in Group, NEW a \in Int, NEW e \in Event,
           DebitForEvent(g, a, e)
    PROVE  LedgerTypeOK'
  BY DEF LedgerTypeOK, DebitForEvent

LEMMA TransferBetweenKeeps ==
    ASSUME LedgerTypeOK, NEW src \in Group, NEW dst \in Group, NEW a \in Int,
           TransferBetween(src, dst, a)
    PROVE  LedgerTypeOK'
  BY DEF LedgerTypeOK, TransferBetween

LEMMA LedgerStutterKeeps == LedgerTypeOK /\ UNCHANGED ledgerVars => LedgerTypeOK'
  BY DEF LedgerTypeOK, ledgerVars

LEMMA LedgerInitially == LedgerInit => LedgerTypeOK
  BY LedgerAssumption DEF LedgerInit, LedgerTypeOK

-----------------------------------------------------------------------------
(* Handlers' local variables *)

LEMMA IdleTyped == Idle \in Request
  BY DEF Idle, Request, RequestOf, Pc, EventStatus, RowStatus, ApprovalStatus

LEMMA CallTyped ==
    ASSUME RowsInv, NEW op \in AllOps, NEW u \in User \cup {NoUser}, NEW e \in Event, NEW pc \in Pc,
           NEW target \in EventStatus
    PROVE  Call(op, u, e, pc, target) \in Request
  BY IdleTyped DEF Call, Idle, Request, RequestOf, RowsInv, RowsTyped, EventRow

\* Slot s goes on with r, and no row of the table disappears.
LEMMA HandlerTyped ==
    ASSUME HandlersInv, NEW s \in Slot, NEW r \in Request,
           r # Idle => r.event \in Event /\ Status(r.event) # "ABSENT",
           req' = [req EXCEPT ![s] = r],
           \A e \in Event : Status(e) # "ABSENT" => Status(e)' # "ABSENT"
    PROVE  HandlersInv'
<1>1. req \in [Slot -> Request]
  BY DEF HandlersInv
<1>2. req' \in [Slot -> Request]
  BY <1>1
<1>3. ASSUME NEW t \in Slot, req'[t] # Idle
      PROVE  Ev(t)' \in Event /\ Status(Ev(t))' # "ABSENT"
  <2>1. CASE t = s
    BY <1>1, <1>3, <2>1 DEF Ev, Status
  <2>2. CASE t # s
    BY <1>1, <1>3, <2>2 DEF HandlersInv, InFlight, Ev, Status
  <2>3. QED
    BY <2>1, <2>2
<1>4. QED
  BY <1>2, <1>3 DEF HandlersInv, InFlight, Request, RequestOf

\* The same for a handler that ends, and for one whose own row stays the same.
LEMMA FinishTyped ==
    ASSUME HandlersInv, NEW s \in Slot, Finish(s),
           \A e \in Event : Status(e) # "ABSENT" => Status(e)' # "ABSENT"
    PROVE  HandlersInv'
  BY HandlerTyped, IdleTyped DEF Finish

LEMMA RunningRow ==
    ASSUME HandlersInv, RowsInv, NEW s \in Slot, Running(s)
    PROVE  /\ Ev(s) \in Event
           /\ Status(Ev(s)) \in EventStatus
           /\ GroupOfEvent(Ev(s)) \in Group
           /\ req[s] \in Request /\ req[s] # Idle
<1>1. Ev(s) \in Event /\ Status(Ev(s)) # "ABSENT" /\ Status(Ev(s)) # "DELETED" /\ req[s] # Idle
  BY DEF HandlersInv, InFlight, Running, Deleted
<1>2. req[s] \in Request /\ event[Ev(s)] \in EventRow
  BY <1>1 DEF HandlersInv, RowsInv, RowsTyped
<1>3. Status(Ev(s)) \in EventStatus
  BY <1>1, <1>2 DEF EventRow, RowStatus, Status
<1>4. GroupOfEvent(Ev(s)) \in Group
  BY <1>1, OrganizationAssumption DEF RowsInv, Owned, GroupOfEvent
<1>5. QED
  BY <1>1, <1>2, <1>3, <1>4

\* A handler that fails on another's deletion stops, and writes nothing.
LEMMA StopsInFlight ==
    ASSUME NEW s \in Slot, FailOnDeleted(s) \/ Deadlock(s) \/ TimesOut(s)
    PROVE  req[s] # Idle /\ Finish(s) /\ UNCHANGED <<eventVars, aborts, ledgerVars>>
<1>1. Idle.op = "none"
  BY DEF Idle
<1>2. Deadlock(s) => req[s] # Idle
  BY <1>1 DEF Deadlock, Deadlocked, Running, At
<1>3. QED
  BY <1>2 DEF FailOnDeleted, Deadlock, TimesOut, Running

-----------------------------------------------------------------------------
(* The wallets: two steps of a handler move money *)

\* Answering a call begins with reads only.
LEMMA BeginReads ==
    ASSUME NEW s \in Slot, Begin(s)
    PROVE  UNCHANGED <<eventVars, aborts, ledgerVars>>
<1>1. PICK u \in User, e \in Event :
        \/ \E b \in Budget : BeginUpdate(s, u, e, b)
        \/ BeginDelete(s, u, e)
        \/ BeginSubmit(s, u, e)
        \/ \E v \in ApprovalStatus : BeginApprove(s, u, e, v)
        \/ BeginCancel(s, u, e)
        \/ \E total \in Spending, rest \in Remaining : BeginExpense(s, u, e, total, rest)
        \/ BeginExtend(s, u, e)
        \/ BeginSettle(s, u, e)
        \/ BeginView(s, u, e)
  BY DEF Begin
<1>2. ASSUME NEW v \in ApprovalStatus, BeginApprove(s, u, e, v)
      PROVE  UNCHANGED <<eventVars, aborts, ledgerVars>>
  BY <1>2, Zenon DEF BeginApprove, MayApprove, NextStepOf
<1>3. QED
  BY <1>1, <1>2
     DEF BeginUpdate, MayUpdate, BeginDelete, MayDelete, BeginSubmit, MaySubmit, BeginCancel,
         MayCancel, BeginExpense, MayReport, BeginExtend, MayExtend,
         BeginSettle, MaySettle, BeginView

LEMMA LedgerStep ==
    ASSUME IInv, [Next]_vars
    PROVE  LedgerTypeOK'
<1> USE DEF IInv
<1>1. CASE UNCHANGED vars
  BY <1>1, LedgerStutterKeeps DEF vars
<1>2. CASE Environment
  BY <1>2, LedgerStutterKeeps DEF Environment, Create, EndDatePasses
<1>3. ASSUME NEW s \in Slot, Begin(s) \/ Abort(s)
      PROVE  LedgerTypeOK'
  BY <1>3, BeginReads, LedgerStutterKeeps DEF Abort
<1>4. ASSUME NEW s \in Slot, Disburse(s)
      PROVE  LedgerTypeOK'
  <2>1. Ev(s) \in Event /\ GroupOfEvent(Ev(s)) \in Group /\ req[s].budget \in Int
    BY <1>4, RunningRow DEF Disburse, Request, RequestOf
  <2>2. QED
    BY <1>4, <2>1, DebitForEventKeeps DEF Disburse
<1>5. ASSUME NEW s \in Slot, Refund(s)
      PROVE  LedgerTypeOK'
  <2>1. Ev(s) \in Event /\ GroupOfEvent(Ev(s)) \in Group /\ req[s].amount \in Int
    BY <1>5, RunningRow DEF Refund, Request, RequestOf
  <2>2. QED
    BY <1>5, <2>1, CreditForEventKeeps DEF Refund
<1>6. ASSUME NEW s \in Slot, Continue(s), ~Disburse(s), ~Refund(s)
      PROVE  LedgerTypeOK'
  BY <1>6, LedgerStutterKeeps
     DEF Continue, WriteUpdate, WriteExtend, LockEvent, WriteDelete, ReadWorkflow, ClearApprovals,
         InsertApproval, ReadForHistory, WriteStatus, Decide, CheckFunds, CommitFunded,
         Reread, InsertExpense, WriteActual, FailOnDeleted, Deadlock, TimesOut
<1>7. QED
  BY <1>1, <1>2, <1>3, <1>4, <1>5, <1>6 DEF Next

-----------------------------------------------------------------------------
(* The tables *)

\* The tables keep their types, and an id once used stays used.
RowsKept == RowsInv' /\ \A e \in Event : Status(e) # "ABSENT" => Status(e)' # "ABSENT"

LEMMA RowsStutterKeeps ==
    ASSUME RowsInv, UNCHANGED <<event, approvals>>, expenses' \in [Event -> Nat],
           trail' \in [Event -> StatusChange], aborts' \in 0..MaxAborts
    PROVE  RowsKept
  BY DEF RowsInv, RowsTyped, Owned, DeletedIsBare, RowsKept, Status

\* A row that exists is written by its id, and stays the row of an event in use.
LEMMA RowWritten ==
    ASSUME RowsInv, NEW e \in Event, NEW row \in EventRow,
           event' = [event EXCEPT ![e] = row],
           row.creator \in User, row.status # "ABSENT",
           row.status = "DELETED" => approvals'[e] = {},
           approvals' \in [Event -> SUBSET ApprovalRow],
           \A other \in Event : other # e => approvals'[other] = approvals[other],
           expenses' \in [Event -> Nat], trail' \in [Event -> StatusChange],
           aborts' \in 0..MaxAborts
    PROVE  RowsKept
<1>1. \A other \in Event : event'[other] = IF other = e THEN row ELSE event[other]
  BY DEF RowsInv, RowsTyped
<1>2. RowsTyped'
  BY DEF RowsInv, RowsTyped
<1>3. Owned' /\ DeletedIsBare'
  BY <1>1 DEF RowsInv, Owned, DeletedIsBare, Status
<1>4. \A other \in Event : Status(other) # "ABSENT" => Status(other)' # "ABSENT"
  BY <1>1 DEF Status
<1>5. QED
  BY <1>2, <1>3, <1>4 DEF RowsKept, RowsInv

LEMMA SetStatusKeeps ==
    ASSUME RowsInv, NEW e \in Event, Status(e) \in EventStatus,
           NEW prev \in RowStatus, NEW new \in EventStatus, SetStatus(e, prev, new),
           approvals' \in [Event -> SUBSET ApprovalRow],
           \A other \in Event : other # e => approvals'[other] = approvals[other],
           UNCHANGED <<expenses, aborts>>
    PROVE  RowsKept
<1>1. event[e] \in EventRow /\ event[e].creator \in User
  BY DEF RowsInv, RowsTyped, Owned, EventStatus
<1>2. [event[e] EXCEPT !.status = new] \in EventRow
  BY <1>1 DEF EventRow, RowStatus
<1>3. event' = [event EXCEPT ![e] = [event[e] EXCEPT !.status = new]]
  BY DEF SetStatus
<1>4. trail' \in [Event -> StatusChange]
  BY DEF SetStatus, RowsInv, RowsTyped, StatusChange, RowStatus
<1>5. [event[e] EXCEPT !.status = new].status \notin {"ABSENT", "DELETED"}
  BY <1>1 DEF EventStatus, EventRow
<1>6. QED
  BY <1>1, <1>2, <1>3, <1>4, <1>5, RowWritten DEF RowsInv, RowsTyped, EventRow

\* Giving a verdict keeps the rows and their types, and touches one event only.
LEMMA DecidedTyped ==
    ASSUME HandlersInv, RowsInv, NEW s \in Slot, Running(s)
    PROVE  /\ Decided(s) \in [Event -> SUBSET ApprovalRow]
           /\ \A other \in Event : other # Ev(s) => Decided(s)[other] = approvals[other]
<1>1. Ev(s) \in Event /\ req[s].verdict \in ApprovalStatus
  BY RunningRow DEF Request, RequestOf
<1>2. approvals \in [Event -> SUBSET ApprovalRow]
  BY DEF RowsInv, RowsTyped
<1>3. \A r \in ApprovalRow : [r EXCEPT !.status = req[s].verdict] \in ApprovalRow
  BY <1>1 DEF ApprovalRow
<1>4. {IF \E mine \in req[s].rows : mine.step = r.step /\ mine.approver = r.approver
       THEN [r EXCEPT !.status = req[s].verdict] ELSE r : r \in approvals[Ev(s)]}
        \in SUBSET ApprovalRow
  BY <1>1, <1>2, <1>3
<1>5. QED
  BY <1>1, <1>2, <1>4 DEF Decided

LEMMA RowsStep ==
    ASSUME IInv, [Next]_vars
    PROVE  RowsKept
<1> USE DEF IInv
<1>0. /\ event \in [Event -> EventRow]
      /\ approvals \in [Event -> SUBSET ApprovalRow]
      /\ expenses \in [Event -> Nat]
      /\ trail \in [Event -> StatusChange]
      /\ aborts \in 0..MaxAborts
  BY DEF RowsInv, RowsTyped
<1>1. CASE UNCHANGED vars
  BY <1>0, <1>1, RowsStutterKeeps DEF vars
<1>2. ASSUME NEW u \in User, NEW e \in Event, NEW b \in Budget, NEW late \in BOOLEAN,
             Create(u, e, b, late)
      PROVE  RowsKept
  <2> DEFINE row == [status |-> "DRAFT", creator |-> u, budget |-> b,
                     actual |-> 0, ended |-> late]
  <2>1. row \in EventRow
    BY LifecycleAssumption DEF EventRow, RowStatus, EventStatus
  <2>2. trail' \in [Event -> StatusChange]
    BY <1>0, <1>2 DEF Create, StatusChange, RowStatus, EventStatus
  <2>3. QED
    BY <1>0, <1>2, <2>1, <2>2, RowWritten DEF Create
<1>3. ASSUME NEW e \in Event, EndDatePasses(e)
      PROVE  RowsKept
  <2> DEFINE row == [event[e] EXCEPT !.ended = TRUE]
  <2>1. /\ row \in EventRow /\ row.creator \in User
        /\ row.status # "ABSENT" /\ row.status # "DELETED"
    BY <1>0, <1>3
       DEF EndDatePasses, EventRow, Exists, Status, EventStatus, RowsInv, Owned
  <2>2. event' = [event EXCEPT ![e] = row]
    BY <1>3 DEF EndDatePasses
  <2>3. QED
    BY <1>0, <1>3, <2>1, <2>2, RowWritten DEF EndDatePasses
<1>4. ASSUME NEW s \in Slot, Begin(s)
      PROVE  RowsKept
  BY <1>0, <1>4, BeginReads, RowsStutterKeeps DEF eventVars
<1>5. ASSUME NEW s \in Slot, Abort(s)
      PROVE  RowsKept
  <2>1. aborts' \in 0..MaxAborts
    BY <1>0, <1>5, LifecycleAssumption DEF Abort
  <2>2. QED
    BY <1>0, <1>5, <2>1, RowsStutterKeeps DEF Abort, eventVars
<1>6. ASSUME NEW s \in Slot, Continue(s)
      PROVE  RowsKept
  <2>1. CASE FailOnDeleted(s) \/ Deadlock(s) \/ TimesOut(s) \/ LockEvent(s) \/ ReadWorkflow(s) \/ ReadForHistory(s) \/ CheckFunds(s)
             \/ Disburse(s) \/ Reread(s) \/ Refund(s)
    BY <1>0, <2>1, RowsStutterKeeps
       DEF FailOnDeleted, Deadlock, TimesOut, LockEvent, ReadWorkflow, ReadForHistory, CheckFunds, Disburse, Reread,
           Refund, eventVars
  <2>2. CASE ~FailOnDeleted(s) /\ ~Deadlock(s)
    <3>1. Running(s)
      BY <1>6, <2>2, Zenon
         DEF Continue, WriteUpdate, WriteExtend, LockEvent, WriteDelete, ReadWorkflow, ClearApprovals,
             InsertApproval, ReadForHistory, WriteStatus, Decide, CheckFunds, Disburse,
             CommitFunded, Reread, Refund, InsertExpense, WriteActual, TimesOut
    <3>2. /\ Ev(s) \in Event /\ Status(Ev(s)) \in EventStatus
          /\ req[s] \in Request
          /\ event[Ev(s)] \in EventRow /\ event[Ev(s)].creator \in User
          /\ event[Ev(s)].status \notin {"ABSENT", "DELETED"}
      BY <1>0, <3>1, RunningRow DEF RowsInv, Owned, EventStatus, Status
    <3>3. \A late \in BOOLEAN : WriteUpdate(s, late) => RowsKept
      <4> SUFFICES ASSUME NEW late \in BOOLEAN, WriteUpdate(s, late)
                   PROVE  RowsKept
        OBVIOUS
      <4> DEFINE row == [event[Ev(s)] EXCEPT !.budget = req[s].budget, !.ended = late]
      <4>1. row \in EventRow /\ row.creator \in User /\ row.status \notin {"ABSENT", "DELETED"}
        BY <3>2 DEF EventRow, Request, RequestOf
      <4>2. event' = [event EXCEPT ![Ev(s)] = row]
        BY <1>0, <3>2 DEF WriteUpdate
      <4>3. QED
        BY <1>0, <3>2, <4>1, <4>2, RowWritten DEF WriteUpdate
    <3>4. \A late \in BOOLEAN : WriteExtend(s, late) => RowsKept
      <4> SUFFICES ASSUME NEW late \in BOOLEAN, WriteExtend(s, late)
                   PROVE  RowsKept
        OBVIOUS
      <4> DEFINE row == [event[Ev(s)] EXCEPT !.ended = late]
      <4>1. row \in EventRow /\ row.creator \in User /\ row.status \notin {"ABSENT", "DELETED"}
        BY <3>2 DEF EventRow
      <4>2. event' = [event EXCEPT ![Ev(s)] = row]
        BY <1>0, <3>2 DEF WriteExtend
      <4>3. QED
        BY <1>0, <3>2, <4>1, <4>2, RowWritten DEF WriteExtend
    <3>5. CASE WriteActual(s)
      <4> DEFINE row == [event[Ev(s)] EXCEPT !.actual = req[s].spent]
      <4>1. row \in EventRow /\ row.creator \in User /\ row.status \notin {"ABSENT", "DELETED"}
        BY <3>2 DEF EventRow, Request, RequestOf
      <4>2. event' = [event EXCEPT ![Ev(s)] = row]
        BY <3>5 DEF WriteActual
      <4>3. QED
        BY <1>0, <3>2, <3>5, <4>1, <4>2, RowWritten DEF WriteActual
    <3>6. CASE WriteDelete(s)
      <4> DEFINE row == [event[Ev(s)] EXCEPT !.status = "DELETED"]
      <4>1. row \in EventRow /\ row.creator \in User /\ row.status # "ABSENT"
        BY <3>2 DEF EventRow, RowStatus
      <4>2. event' = [event EXCEPT ![Ev(s)] = row]
        BY <3>6 DEF WriteDelete
      <4>3. /\ approvals' \in [Event -> SUBSET ApprovalRow] /\ approvals'[Ev(s)] = {}
            /\ \A other \in Event : other # Ev(s) => approvals'[other] = approvals[other]
        BY <1>0, <3>2, <3>6 DEF WriteDelete
      <4>4. QED
        BY <1>0, <3>2, <3>6, <4>1, <4>2, <4>3, RowWritten DEF WriteDelete
    <3>7. CASE ClearApprovals(s)
      <4>1. approvals' \in [Event -> SUBSET ApprovalRow]
            /\ (\A e \in Event : approvals[e] = {} => approvals'[e] = {})
        BY <1>0, <3>2, <3>7 DEF ClearApprovals
      <4>2. QED
        BY <1>0, <3>7, <4>1
           DEF ClearApprovals, RowsKept, RowsInv, RowsTyped, Owned, DeletedIsBare, Status
    <3>8. CASE InsertApproval(s)
      <4>1. PICK r \in req[s].rows :
              \/ UNCHANGED approvals
              \/ approvals' = [approvals EXCEPT ![Ev(s)] = @ \cup {r}]
        BY <3>8 DEF InsertApproval
      <4>2. approvals' \in [Event -> SUBSET ApprovalRow]
        BY <1>0, <3>2, <4>1 DEF Request, RequestOf
      <4>3. \A e \in Event : e # Ev(s) => approvals'[e] = approvals[e]
        BY <1>0, <4>1
      <4>4. QED
        BY <1>0, <3>2, <3>8, <4>2, <4>3
           DEF InsertApproval, RowsKept, RowsInv, RowsTyped, Owned, DeletedIsBare, Status
    <3>9. CASE WriteStatus(s)
      <4>1. req[s].prior \in RowStatus /\ req[s].target \in EventStatus
        BY <3>2 DEF Request, RequestOf
      <4>2. QED
        BY <1>0, <3>2, <3>9, <4>1, SetStatusKeeps DEF WriteStatus
    <3>10. CASE Decide(s)
      <4>1. CASE UNCHANGED eventVars
        BY <1>0, <3>10, <4>1, RowsStutterKeeps DEF Decide, eventVars
      <4>2. CASE approvals' = Decided(s) /\ SetStatus(Ev(s), "SUBMITTED", "REJECTED")
                 /\ UNCHANGED <<expenses, aborts>>
        BY <3>1, <3>2, <4>2, DecidedTyped, SetStatusKeeps DEF RowStatus, EventStatus
      <4>3. CASE /\ approvals' = Decided(s) /\ UNCHANGED <<event, expenses, aborts>>
                 /\ trail' = IF req[s].verdict = "APPROVED"
                             THEN [trail EXCEPT ![Ev(s)] = [prev |-> "SUBMITTED", new |-> "SUBMITTED"]]
                             ELSE trail
        <5>1. trail' \in [Event -> StatusChange]
          BY <1>0, <4>3 DEF StatusChange, RowStatus, EventStatus
        <5>2. approvals' \in [Event -> SUBSET ApprovalRow]
              /\ (\A e \in Event : e # Ev(s) => approvals'[e] = approvals[e])
          BY <3>1, <4>3, DecidedTyped
        <5>3. QED
          BY <1>0, <3>2, <4>3, <5>1, <5>2
             DEF RowsKept, RowsInv, RowsTyped, Owned, DeletedIsBare, Status
      <4>4. QED
        BY <3>10, <4>1, <4>2, <4>3 DEF Decide
    <3>11. CASE CommitFunded(s)
      BY <3>1, <3>2, <3>11, DecidedTyped, SetStatusKeeps DEF CommitFunded, RowStatus, EventStatus
    <3>12. CASE InsertExpense(s)
      <4>1. PICK a \in {x \in Spending : x < req[s].left} \cup {req[s].left} :
              expenses' = [expenses EXCEPT ![Ev(s)] = @ + a]
        BY <3>12 DEF InsertExpense
      <4>2. a \in Nat
        BY <3>2, <4>1, LifecycleAssumption DEF Request, RequestOf
      <4>3. expenses' \in [Event -> Nat]
        BY <1>0, <3>2, <4>1, <4>2
      <4>4. QED
        BY <1>0, <3>12, <4>3, RowsStutterKeeps DEF InsertExpense
    <3>13. QED
      BY <1>6, <2>1, <2>2, <3>3, <3>4, <3>5, <3>6, <3>7, <3>8, <3>9, <3>10, <3>11, <3>12
         DEF Continue
  <2>3. QED
    BY <2>1, <2>2
<1>7. QED
  BY <1>1, <1>2, <1>3, <1>4, <1>5, <1>6 DEF Next, Environment

-----------------------------------------------------------------------------
(* The handlers *)

\* What the cancellation does once it has seen the event.
LEMMA CancelRequestTyped ==
    ASSUME RowsInv, NEW u \in User \cup {NoUser}, NEW e \in Event
    PROVE  CancelRequest(u, e) \in Request /\ CancelRequest(u, e).event = e
<1> DEFINE call(pc) == Call("cancel", u, e, pc, "CANCELLED")
<1>1. ASSUME NEW pc \in Pc
      PROVE  call(pc) \in Request /\ call(pc).event = e
  <2>1. "cancel" \in AllOps /\ "CANCELLED" \in EventStatus
    BY DEF AllOps, EventStatus
  <2>2. call(pc) \in Request
    BY <2>1, CallTyped
  <2>3. call(pc).event = e
    BY DEF Call, Idle
  <2>4. QED
    BY <2>2, <2>3
<1>2. call("mark") \in Request /\ call("refund") \in Request
      /\ call("mark").event = e /\ call("refund").event = e
  BY <1>1 DEF Pc
<1>3. event[e].budget \in Int
  BY DEF RowsInv, RowsTyped, EventRow
<1> HIDE DEF call
<1>4. [call("refund") EXCEPT !.amount = event[e].budget] \in Request
      /\ [call("refund") EXCEPT !.amount = event[e].budget].event = e
  BY <1>2, <1>3 DEF Request, RequestOf
<1>5. QED
  BY <1>2, <1>4 DEF CancelRequest, call

LEMMA BeginStep ==
    ASSUME HandlersInv, RowsInv, RowsKept, NEW s \in Slot, Begin(s)
    PROVE  HandlersInv'
<1>1. PICK u \in User, e \in Event :
        \/ \E b \in Budget : BeginUpdate(s, u, e, b)
        \/ BeginDelete(s, u, e)
        \/ BeginSubmit(s, u, e)
        \/ \E v \in ApprovalStatus : BeginApprove(s, u, e, v)
        \/ BeginCancel(s, u, e)
        \/ \E total \in Spending, rest \in Remaining : BeginExpense(s, u, e, total, rest)
        \/ BeginExtend(s, u, e)
        \/ BeginSettle(s, u, e)
        \/ BeginView(s, u, e)
  BY DEF Begin
<1>2. ASSUME NEW r \in Request, r.event = e, Exists(e), Start(s, r)
      PROVE  HandlersInv'
  <2>1. Status(e) # "ABSENT"
    BY <1>2 DEF Exists, EventStatus
  <2>2. QED
    BY <1>2, <2>1, HandlerTyped DEF Start, RowsKept
<1>3. ASSUME NEW op \in AllOps, NEW pc \in Pc, NEW target \in EventStatus
      PROVE  Call(op, u, e, pc, target) \in Request /\ Call(op, u, e, pc, target).event = e
  BY CallTyped DEF Call, Idle
<1>4. ASSUME NEW b \in Budget, BeginUpdate(s, u, e, b)
      PROVE  HandlersInv'
  <2> DEFINE r == [Call("update", u, e, "write", "DRAFT") EXCEPT !.budget = b]
  <2>1. r \in Request /\ r.event = e
    <3>1. Call("update", u, e, "write", "DRAFT") \in Request /\ Call("update", u, e, "write", "DRAFT").event = e
      BY <1>3 DEF AllOps, Pc, EventStatus
    <3>2. QED
      BY <3>1, LifecycleAssumption DEF Request, RequestOf
  <2>2. QED
    BY <1>2, <1>4, <2>1 DEF BeginUpdate, MayUpdate, MayCall
<1>5. CASE BeginDelete(s, u, e) \/ BeginSubmit(s, u, e) \/ BeginExtend(s, u, e)
           \/ BeginSettle(s, u, e) \/ BeginView(s, u, e)
  <2>1. PICK op \in AllOps, pc \in Pc, target \in EventStatus :
          Start(s, Call(op, u, e, pc, target))
    BY <1>5 DEF BeginDelete, MayDelete, BeginSubmit, MaySubmit, BeginExtend, MayExtend,
       BeginSettle, MaySettle, BeginView,
                AllOps, Pc, EventStatus
  <2>2. Exists(e)
    BY <1>5 DEF BeginDelete, MayDelete, BeginSubmit, MaySubmit, BeginExtend, MayExtend,
       BeginSettle, MaySettle, BeginView, MayCall
  <2>3. QED
    BY <1>2, <1>3, <2>1, <2>2
<1>6. ASSUME NEW v \in ApprovalStatus, BeginApprove(s, u, e, v)
      PROVE  HandlersInv'
  <2>1. PICK x \in approvals[e], target \in EventStatus :
          Start(s, [Call("approve", u, e, "decide", target) EXCEPT !.rows = {x}, !.verdict = v])
    BY <1>6 DEF BeginApprove, MayApprove, NextStepOf, EventStatus
  <2> DEFINE r == [Call("approve", u, e, "decide", target) EXCEPT !.rows = {x}, !.verdict = v]
  <2>2. {x} \in SUBSET ApprovalRow
    BY <2>1 DEF RowsInv, RowsTyped
  <2>3. r \in Request /\ r.event = e
    <3>1. Call("approve", u, e, "decide", target) \in Request /\ Call("approve", u, e, "decide", target).event = e
      BY <1>3 DEF AllOps, Pc, EventStatus
    <3>2. QED
      BY <3>1, <2>2 DEF Request, RequestOf
  <2>4. QED
    BY <1>2, <1>6, <2>1, <2>3 DEF BeginApprove, MayApprove, NextStepOf, MayCall
<1>7. CASE BeginCancel(s, u, e)
  <2>1. CASE Start(s, Call("cancel", u, e, "mark", "COMPLETED"))
    BY <1>2, <1>3, <1>7, <2>1 DEF BeginCancel, MayCancel, MayCall, AllOps, Pc, EventStatus
  <2>2. CASE Start(s, CancelRequest(u, e))
    BY <1>2, <1>7, <2>2, CancelRequestTyped DEF BeginCancel, MayCancel, MayCall
  <2>3. QED
    BY <1>7, <2>1, <2>2 DEF BeginCancel, MayCancel
<1>8. ASSUME NEW total \in Spending, NEW rest \in Remaining, BeginExpense(s, u, e, total, rest)
      PROVE  HandlersInv'
  <2> DEFINE r == [Call("expense", u, e, "expense", "ONGOING") EXCEPT
                     !.spent = total, !.left = total, !.amount = rest]
  <2>1. total \in Nat /\ rest \in Int
    BY LifecycleAssumption
  <2>2. r \in Request /\ r.event = e
    <3>1. Call("expense", u, e, "expense", "ONGOING") \in Request /\ Call("expense", u, e, "expense", "ONGOING").event = e
      BY <1>3 DEF AllOps, Pc, EventStatus
    <3>2. QED
      BY <3>1, <2>1 DEF Request, RequestOf
  <2>3. QED
    BY <1>2, <1>8, <2>2 DEF BeginExpense, MayReport, MayCall
<1>9. QED
  BY <1>1, <1>4, <1>5, <1>6, <1>7, <1>8

LEMMA ContinueStep ==
    ASSUME HandlersInv, RowsInv, RowsKept, NEW s \in Slot, Continue(s)
    PROVE  HandlersInv'
<1>0. /\ req \in [Slot -> Request]
      /\ \A e \in Event : Status(e) # "ABSENT" => Status(e)' # "ABSENT"
  BY DEF HandlersInv, RowsKept
<1>1. CASE Finish(s)
  BY <1>0, <1>1, FinishTyped
<1>2. CASE ~Finish(s)
  <2>1. Running(s)
    BY <1>2, Zenon
       DEF Continue, WriteUpdate, WriteExtend, LockEvent, WriteDelete, ReadWorkflow, ClearApprovals,
           InsertApproval, ReadForHistory, WriteStatus, Decide, CheckFunds, Disburse,
           CommitFunded, Reread, Refund, InsertExpense, WriteActual, FailOnDeleted, Deadlock, TimesOut
  <2>2. /\ Ev(s) \in Event /\ Status(Ev(s)) \in EventStatus /\ Status(Ev(s)) # "ABSENT"
        /\ req[s] \in Request /\ req[s].event = Ev(s)
    BY <2>1, RunningRow DEF EventStatus, Ev
  <2>3. ASSUME NEW r \in Request, r.event = Ev(s), req' = [req EXCEPT ![s] = r]
        PROVE  HandlersInv'
    BY <1>0, <2>2, <2>3, HandlerTyped
  <2>4. ASSUME NEW pc \in Pc, Goto(s, pc)
        PROVE  HandlersInv'
    <3>1. [req[s] EXCEPT !.pc = pc] \in Request /\ [req[s] EXCEPT !.pc = pc].event = Ev(s)
      BY <2>2 DEF Request, RequestOf
    <3>2. QED
      BY <2>3, <2>4, <3>1 DEF Goto
  <2>5. ASSUME NEW r \in Request, r # Idle => r.event = Ev(s), ForgetRows(s, Ev(s), r)
        PROVE  HandlersInv'
    <3>1. \A x \in Request : [x EXCEPT !.gone = TRUE] \in Request
                              /\ [x EXCEPT !.gone = TRUE].event = x.event
      BY DEF Request, RequestOf
    <3>2. req' \in [Slot -> Request]
      BY <1>0, <2>5, <3>1 DEF ForgetRows
    <3>3. ASSUME NEW t \in Slot, req'[t] # Idle
          PROVE  Ev(t)' \in Event /\ Status(Ev(t))' # "ABSENT"
      <4>1. CASE t = s
        BY <1>0, <2>2, <2>5, <3>3, <4>1 DEF ForgetRows, Ev, Status
      <4>2. CASE t # s
        <5>1. Ev(t)' = Ev(t)
          BY <1>0, <2>5, <3>1, <4>2 DEF ForgetRows, Ev
        <5>2. req[t] # Idle
          BY <2>5, <3>3, <4>2 DEF ForgetRows, Idle
        <5>3. QED
          BY <1>0, <5>1, <5>2 DEF HandlersInv, InFlight, Status
      <4>3. QED
        BY <4>1, <4>2
    <3>4. QED
      BY <3>2, <3>3 DEF HandlersInv, InFlight
  <2>6. CASE WriteDelete(s)
    BY <2>5, <2>6, IdleTyped DEF WriteDelete
  <2>7. CASE ReadWorkflow(s)
    <3>1. PICK w \in Workflows(Ev(s)) : req' = [req EXCEPT ![s].rows = w, ![s].pc = "clear"]
      BY <1>2, <2>7 DEF ReadWorkflow
    <3>2. w \in SUBSET ApprovalRow
      BY DEF Workflows, Pending, Treasurers, Leaders, HoldersOf, ApprovalRow, ApprovalStatus
    <3> DEFINE r == [req[s] EXCEPT !.rows = w, !.pc = "clear"]
    <3>3. r \in Request /\ r.event = Ev(s)
      BY <2>2, <3>2 DEF Request, RequestOf, Pc
    <3>4. req' = [req EXCEPT ![s] = r]
      BY <1>0, <3>1
    <3>5. QED
      BY <2>3, <3>3, <3>4
  <2>8. CASE ClearApprovals(s)
    <3>1. [req[s] EXCEPT !.pc = "insert"] \in Request
          /\ [req[s] EXCEPT !.pc = "insert"].event = Ev(s)
      BY <2>2 DEF Request, RequestOf, Pc
    <3>2. QED
      BY <2>5, <2>8, <3>1 DEF ClearApprovals
  <2>9. CASE InsertApproval(s)
    <3>1. PICK rest \in SUBSET req[s].rows, pc \in {"mark", "insert"} :
            req' = [req EXCEPT ![s].rows = rest, ![s].pc = pc]
      <4>1. PICK x \in req[s].rows :
              req' = [req EXCEPT ![s].rows = req[s].rows \ {x},
                                 ![s].pc = IF req[s].rows \ {x} = {} THEN "mark" ELSE "insert"]
        BY <1>2, <2>9 DEF InsertApproval
      <4>2. QED
        BY <4>1
    <3> DEFINE r == [req[s] EXCEPT !.rows = rest, !.pc = pc]
    <3>2. r \in Request /\ r.event = Ev(s)
      BY <2>2 DEF Request, RequestOf, Pc
    <3>3. req' = [req EXCEPT ![s] = r]
      BY <1>0, <3>1
    <3>4. QED
      BY <2>3, <3>2, <3>3
  <2>10. CASE ReadForHistory(s)
    <3> DEFINE r == [req[s] EXCEPT !.prior = Status(Ev(s)), !.pc = "set"]
    <3>1. r \in Request /\ r.event = Ev(s)
      BY <2>2 DEF Request, RequestOf, Pc, RowStatus
    <3>2. req' = [req EXCEPT ![s] = r]
      BY <1>0, <2>10 DEF ReadForHistory
    <3>3. QED
      BY <2>3, <3>1, <3>2
  <2>11. CASE WriteStatus(s)
    <3>1. PICK pc \in {"refund", "reread"} : Goto(s, pc)
      BY <1>0, <1>2, <2>11 DEF WriteStatus, AfterStatus, Finish, Goto
    <3>2. QED
      BY <2>4, <3>1 DEF Pc
  <2>12. CASE Decide(s)
    BY <1>2, <2>4, <2>12 DEF Decide, Pc
  <2>13. CASE CheckFunds(s) \/ Disburse(s) \/ LockEvent(s)
    BY <1>2, <2>4, <2>13 DEF CheckFunds, Disburse, LockEvent, Pc
  <2>14. CASE Refund(s) \/ WriteActual(s)
    BY <1>2, <2>4, <2>14 DEF Refund, WriteActual, Pc
  <2>15. CASE \E late \in BOOLEAN : WriteUpdate(s, late) \/ WriteExtend(s, late)
    BY <1>2, <2>4, <2>15 DEF WriteUpdate, WriteExtend, Pc
  <2>16. CASE Reread(s)
    <3>1. CancelRequest(req[s].user, Ev(s)) \in Request
          /\ CancelRequest(req[s].user, Ev(s)).event = Ev(s)
      BY <2>2, CancelRequestTyped DEF Request, RequestOf
    <3>2. req' = [req EXCEPT ![s] = CancelRequest(req[s].user, Ev(s))]
      BY <1>2, <2>16 DEF Reread, Finish
    <3>3. QED
      BY <2>3, <3>1, <3>2
  <2>17. CASE InsertExpense(s)
    <3>1. PICK a \in {x \in Spending : x < req[s].left} \cup {req[s].left} :
            req' = [req EXCEPT ![s].left = @ - a,
                               ![s].pc = IF a = req[s].left THEN "actual" ELSE "expense"]
      BY <2>17 DEF InsertExpense
    <3>2. req[s].left - a \in Nat
      BY <2>2, <3>1, LifecycleAssumption DEF Request, RequestOf
    <3> DEFINE pc == IF a = req[s].left THEN "actual" ELSE "expense"
               r == [req[s] EXCEPT !.left = req[s].left - a, !.pc = pc]
    <3>3. pc \in Pc
      BY DEF Pc
    <3> HIDE DEF pc
    <3>4. r \in Request /\ r.event = Ev(s)
      BY <2>2, <3>2, <3>3 DEF Request, RequestOf
    <3>5. req' = [req EXCEPT ![s] = r]
      BY <1>0, <3>1 DEF pc
    <3>6. QED
      BY <2>3, <3>4, <3>5
  <2>18. CASE CommitFunded(s) \/ FailOnDeleted(s) \/ Deadlock(s) \/ TimesOut(s)
    BY <1>2, <2>18 DEF CommitFunded, FailOnDeleted, Deadlock, TimesOut
  <2>19. QED
    BY <2>6, <2>7, <2>8, <2>9, <2>10, <2>11, <2>12, <2>13, <2>14, <2>15, <2>16, <2>17, <2>18
       DEF Continue
<1>3. QED
  BY <1>1, <1>2

LEMMA HandlersStep ==
    ASSUME IInv, [Next]_vars
    PROVE  HandlersInv'
<1>1. HandlersInv /\ RowsInv /\ RowsKept
  BY RowsStep DEF IInv
<1>2. CASE UNCHANGED vars \/ Environment
  <2>1. UNCHANGED req
    BY <1>2 DEF vars, Environment, Create, EndDatePasses
  <2>2. QED
    BY <1>1, <2>1 DEF HandlersInv, InFlight, RowsKept, Ev, Status
<1>3. ASSUME NEW s \in Slot, Begin(s)
      PROVE  HandlersInv'
  BY <1>1, <1>3, BeginStep
<1>4. ASSUME NEW s \in Slot, Continue(s)
      PROVE  HandlersInv'
  BY <1>1, <1>4, ContinueStep
<1>5. ASSUME NEW s \in Slot, Abort(s)
      PROVE  HandlersInv'
  BY <1>1, <1>5, FinishTyped DEF Abort, RowsKept
<1>6. QED
  BY <1>2, <1>3, <1>4, <1>5 DEF Next

-----------------------------------------------------------------------------
(* The theorems *)

LEMMA Initially == Init => IInv
<1> SUFFICES ASSUME Init
             PROVE  IInv
  OBVIOUS
<1>1. LedgerTypeOK
  BY LedgerInitially DEF Init
<1>2. RowsInv
  BY LifecycleAssumption
     DEF Init, RowsInv, RowsTyped, Owned, DeletedIsBare, Status, EventRow, RowStatus,
         EventStatus, StatusChange
<1>3. HandlersInv
  BY IdleTyped DEF Init, HandlersInv, InFlight
<1>4. QED
  BY <1>1, <1>2, <1>3 DEF IInv

LEMMA Step == IInv /\ [Next]_vars => IInv'
<1> SUFFICES ASSUME IInv, [Next]_vars
             PROVE  IInv'
  OBVIOUS
<1>1. LedgerTypeOK' /\ HandlersInv' /\ RowsInv'
  BY LedgerStep, HandlersStep, RowsStep DEF RowsKept
<1>2. QED
  BY <1>1 DEF IInv

LEMMA Invariance == Spec => []IInv
  BY Initially, Step, PTL DEF Spec

(***************************************************************************)
(* Every table row and every handler's local variables keep their types,    *)
(* whatever handlers interleave and whenever one dies.                      *)
(***************************************************************************)
THEOREM TypeCorrect == Spec => []TypeOK
<1>1. IInv => TypeOK
  BY DEF IInv, HandlersInv, LedgerTypeOK, RowsInv, RowsTyped, TypeOK, LifecycleTypeOK, Request
<1>2. QED
  BY <1>1, Invariance, PTL

(***************************************************************************)
(* A handler that is in flight when its event is deleted (deleteEvent)      *)
(* neither brings the row back nor pays or refunds for it.                  *)
(***************************************************************************)
THEOREM DeletedForGood == Spec => DeletedIsFinal
<1> DEFINE Final(e) == event'[e] = event[e] /\ approvals'[e] = {} /\ paidOut'[e] = paidOut[e]
<1>1. ASSUME IInv, [Next]_vars, NEW e \in Event, Status(e) = "DELETED"
      PROVE  Final(e)
  <2>0. /\ event \in [Event -> EventRow] /\ approvals \in [Event -> SUBSET ApprovalRow]
        /\ paidOut \in [Event -> Int] /\ approvals[e] = {}
    BY <1>1 DEF IInv, RowsInv, RowsTyped, LedgerTypeOK, DeletedIsBare
  <2>1. CASE UNCHANGED vars
    BY <2>0, <2>1 DEF vars, ledgerVars
  <2>2. CASE Environment
    BY <1>1, <2>0, <2>2
       DEF Environment, Create, EndDatePasses, Exists, EventStatus, Status, ledgerVars
  <2>3. ASSUME NEW s \in Slot, Begin(s) \/ Abort(s)
        PROVE  Final(e)
    BY <2>0, <2>3, BeginReads DEF Abort, eventVars, ledgerVars
  <2>4. ASSUME NEW s \in Slot, Continue(s), ~Running(s)
        PROVE  Final(e)
    <3>1. FailOnDeleted(s) \/ Deadlock(s)
      BY <2>4, Zenon
         DEF Continue, WriteUpdate, WriteExtend, LockEvent, WriteDelete, ReadWorkflow, ClearApprovals,
             InsertApproval, ReadForHistory, WriteStatus, Decide, CheckFunds, Disburse,
             CommitFunded, Reread, Refund, InsertExpense, WriteActual, TimesOut
    <3>2. QED
      BY <2>0, <3>1 DEF FailOnDeleted, Deadlock, eventVars, ledgerVars
  <2>5. ASSUME NEW s \in Slot, Continue(s), Running(s)
        PROVE  Final(e)
    <3>1. e # Ev(s)
      BY <1>1, <2>5 DEF Running, Deleted
    <3>2. Decided(s)[e] = approvals[e]
      BY <1>1, <2>5, <3>1, DecidedTyped DEF IInv
    <3>3. event'[e] = event[e]
      BY <2>0, <2>5, <3>1
         DEF Continue, WriteUpdate, WriteExtend, LockEvent, WriteDelete, ReadWorkflow, ClearApprovals,
             InsertApproval, ReadForHistory, WriteStatus, Decide, CheckFunds, Disburse,
             CommitFunded, Reread, Refund, InsertExpense, WriteActual, FailOnDeleted, Deadlock, TimesOut,
             SetStatus, eventVars
    <3>4. approvals'[e] = approvals[e]
      BY <2>0, <2>5, <3>1, <3>2
         DEF Continue, WriteUpdate, WriteExtend, LockEvent, WriteDelete, ReadWorkflow, ClearApprovals,
             InsertApproval, ReadForHistory, WriteStatus, Decide, CheckFunds, Disburse,
             CommitFunded, Reread, Refund, InsertExpense, WriteActual, FailOnDeleted, Deadlock, TimesOut, eventVars
    <3>5. paidOut'[e] = paidOut[e]
      BY <2>0, <2>5, <3>1
         DEF Continue, WriteUpdate, WriteExtend, LockEvent, WriteDelete, ReadWorkflow, ClearApprovals,
             InsertApproval, ReadForHistory, WriteStatus, Decide, CheckFunds, Disburse,
             CommitFunded, Reread, Refund, InsertExpense, WriteActual, FailOnDeleted, Deadlock, TimesOut,
             DebitForEvent, CreditForEvent, ledgerVars
    <3>6. QED
      BY <2>0, <3>3, <3>4, <3>5
  <2>6. QED
    BY <1>1, <2>1, <2>2, <2>3, <2>4, <2>5 DEF Next
<1>2. IInv /\ [Next]_vars =>
        [\A e \in Event : Status(e) = "DELETED" =>
           event'[e] = event[e] /\ approvals'[e] = {} /\ paidOut'[e] = paidOut[e]]_vars
  BY <1>1
<1>3. QED
  BY <1>2, Invariance, PTL DEF Spec, DeletedIsFinal

-----------------------------------------------------------------------------
(***************************************************************************)
(* Overdrafts.  disburseEventFund checks the balance in one step and debits *)
(* it in a later one.  That is enough as long as no two payments from the   *)
(* same wallet are between the two at once, whatever else is going on.      *)
(***************************************************************************)
PaymentsApart ==
    \A s, t \in Slot :
        /\ At(s, "approve", "pay") /\ At(t, "approve", "pay")
        /\ GroupOfEvent(Ev(s)) = GroupOfEvent(Ev(t))
        => s = t

\* The check a payment passed still holds.
PaymentsCovered ==
    \A s \in Slot : At(s, "approve", "pay") => req[s].budget <= balance[GroupOfEvent(Ev(s))]

\* A refund never takes money.
RefundsGive == \A s \in Slot : req[s].pc = "refund" => req[s].amount >= 0

PayInv == IInv /\ NoOverdraft /\ PaymentsCovered /\ RefundsGive

\* An event has one owner for life: its group, and the wallet, stay the same.
LEMMA CreatorKept ==
    ASSUME IInv, Next, NEW e \in Event, Status(e) # "ABSENT"
    PROVE  event'[e].creator = event[e].creator
<1>0. event \in [Event -> EventRow]
  BY DEF IInv, RowsInv, RowsTyped
<1>1. CASE Environment
  BY <1>0, <1>1 DEF Environment, Create, EndDatePasses, Status, EventRow
<1>2. ASSUME NEW s \in Slot, Begin(s) \/ Abort(s)
      PROVE  event'[e].creator = event[e].creator
  BY <1>2, BeginReads DEF Abort, eventVars
<1>3. ASSUME NEW s \in Slot, Continue(s)
      PROVE  event'[e].creator = event[e].creator
  BY <1>0, <1>3
     DEF Continue, WriteUpdate, WriteExtend, LockEvent, WriteDelete, ReadWorkflow, ClearApprovals,
         InsertApproval, ReadForHistory, WriteStatus, Decide, CheckFunds, Disburse,
         CommitFunded, Reread, Refund, InsertExpense, WriteActual, FailOnDeleted, Deadlock, TimesOut,
         SetStatus, eventVars, EventRow
<1>4. QED
  BY <1>1, <1>2, <1>3 DEF Next

\* A handler never begins with a payment, nor with a refund that takes money.
LEMMA BeginStarts ==
    ASSUME IInv, NEW s \in Slot, Begin(s)
    PROVE  \E r : /\ Start(s, r) /\ r.pc # "pay"
                  /\ r.pc = "refund" => r.amount >= 0
<1> DEFINE Harmless(r) == r.pc # "pay" /\ (r.pc = "refund" => r.amount >= 0)
<1>1. PICK u \in User, e \in Event :
        \/ \E b \in Budget : BeginUpdate(s, u, e, b)
        \/ BeginDelete(s, u, e)
        \/ BeginSubmit(s, u, e)
        \/ \E v \in ApprovalStatus : BeginApprove(s, u, e, v)
        \/ BeginCancel(s, u, e)
        \/ \E total \in Spending, rest \in Remaining : BeginExpense(s, u, e, total, rest)
        \/ BeginExtend(s, u, e)
        \/ BeginSettle(s, u, e)
        \/ BeginView(s, u, e)
  BY DEF Begin
<1>2. ASSUME NEW b \in Budget, BeginUpdate(s, u, e, b)
      PROVE  \E r : Start(s, r) /\ Harmless(r)
  <2>1. Harmless([Call("update", u, e, "write", "DRAFT") EXCEPT !.budget = b])
    BY DEF Call, Idle
  <2>2. QED
    BY <1>2, <2>1 DEF BeginUpdate, MayUpdate
<1>3. CASE BeginDelete(s, u, e) \/ BeginSubmit(s, u, e) \/ BeginExtend(s, u, e)
           \/ BeginSettle(s, u, e) \/ BeginView(s, u, e)
  <2>1. PICK op \in AllOps, pc \in {"write", "rows", "mark"}, target \in EventStatus :
          Start(s, Call(op, u, e, pc, target))
    BY <1>3 DEF BeginDelete, MayDelete, BeginSubmit, MaySubmit, BeginExtend, MayExtend,
       BeginSettle, MaySettle, BeginView,
                AllOps, EventStatus
  <2>2. Harmless(Call(op, u, e, pc, target))
    BY DEF Call, Idle
  <2>3. QED
    BY <2>1, <2>2
<1>4. ASSUME NEW v \in ApprovalStatus, BeginApprove(s, u, e, v)
      PROVE  \E r : Start(s, r) /\ Harmless(r)
  <2>1. PICK x, target : Start(s, [Call("approve", u, e, "decide", target) EXCEPT
                                    !.rows = {x}, !.verdict = v])
    BY <1>4, Zenon DEF BeginApprove, MayApprove, NextStepOf
  <2>2. Harmless([Call("approve", u, e, "decide", target) EXCEPT !.rows = {x}, !.verdict = v])
    BY DEF Call, Idle
  <2>3. QED
    BY <2>1, <2>2
<1>5. CASE BeginCancel(s, u, e)
  <2>1. event[e].budget \in Nat
    BY DEF IInv, RowsInv, RowsTyped, EventRow
  <2>2. Harmless(Call("cancel", u, e, "mark", "COMPLETED")) /\ Harmless(CancelRequest(u, e))
    BY <2>1 DEF CancelRequest, Call, Idle
  <2>3. QED
    BY <1>5, <2>2 DEF BeginCancel, MayCancel
<1>6. ASSUME NEW total \in Spending, NEW rest \in Remaining, BeginExpense(s, u, e, total, rest)
      PROVE  \E r : Start(s, r) /\ Harmless(r)
  <2>1. Harmless([Call("expense", u, e, "expense", "ONGOING") EXCEPT
                    !.spent = total, !.left = total, !.amount = rest])
    BY DEF Call, Idle
  <2>2. QED
    BY <1>6, <2>1 DEF BeginExpense, MayReport
<1>7. QED
  BY <1>1, <1>2, <1>3, <1>4, <1>5, <1>6

\* Only its own steps change what a handler is about to do.
LEMMA OthersWait ==
    ASSUME IInv, NEW s \in Slot, Begin(s) \/ Continue(s) \/ Abort(s),
           NEW t \in Slot, t # s
    PROVE  /\ req'[t].op = req[t].op /\ req'[t].pc = req[t].pc
           /\ req'[t].event = req[t].event /\ req'[t].prior = req[t].prior
           /\ req'[t].budget = req[t].budget /\ req'[t].amount = req[t].amount
<1>0. req \in [Slot -> Request]
  BY DEF IInv, HandlersInv
<1>1. CASE \E r : req' = [req EXCEPT ![s] = r]
  BY <1>0, <1>1
<1>2. CASE \E r, e : ForgetRows(s, e, r)
  <2>1. req'[t] = req[t] \/ req'[t] = [req[t] EXCEPT !.gone = TRUE]
    BY <1>2 DEF ForgetRows
  <2>2. req[t] \in Request
    BY <1>0
  <2>3. QED
    BY <2>1, <2>2 DEF Request, RequestOf
<1>3. CASE Abort(s)
  BY <1>1, <1>3 DEF Abort, Finish
<1>4. CASE Begin(s)
  <2>1. \E r : Start(s, r)
    BY <1>4, BeginStarts
  <2>2. QED
    BY <1>1, <2>1 DEF Start
<1>5. CASE Continue(s)
  <2>1. CASE WriteDelete(s) \/ ClearApprovals(s)
    BY <1>2, <2>1 DEF WriteDelete, ClearApprovals
  <2>2. CASE ~(WriteDelete(s) \/ ClearApprovals(s))
    BY <1>0, <1>5, <2>2
       DEF Continue, LockEvent, WriteUpdate, WriteExtend, ReadWorkflow, InsertApproval, ReadForHistory,
           WriteStatus, Decide, CheckFunds, Disburse, CommitFunded, Reread, Refund,
           InsertExpense, WriteActual, FailOnDeleted, Deadlock, TimesOut, Finish, Goto
  <2>3. QED
    BY <2>1, <2>2
<1>6. QED
  BY <1>3, <1>4, <1>5

\* The steps that move money, and those that do not.
LEMMA BalanceStep ==
    ASSUME IInv, Next, NEW g \in Group
    PROVE  \/ balance'[g] = balance[g]
           \/ \E s \in Slot : /\ Disburse(s) /\ g = GroupOfEvent(Ev(s))
                             /\ balance'[g] = balance[g] - req[s].budget
           \/ \E s \in Slot : Refund(s) /\ balance'[g] = balance[g] + req[s].amount
<1>0. balance \in [Group -> Int]
  BY DEF IInv, LedgerTypeOK
<1>1. CASE Environment
  BY <1>1 DEF Environment, Create, EndDatePasses, ledgerVars
<1>2. ASSUME NEW s \in Slot, Begin(s) \/ Abort(s)
      PROVE  balance'[g] = balance[g]
  BY <1>2, BeginReads DEF Abort, ledgerVars
<1>3. ASSUME NEW s \in Slot, Disburse(s)
      PROVE  \/ balance'[g] = balance[g]
             \/ g = GroupOfEvent(Ev(s)) /\ balance'[g] = balance[g] - req[s].budget
  BY <1>0, <1>3 DEF Disburse, DebitForEvent
<1>4. ASSUME NEW s \in Slot, Refund(s)
      PROVE  balance'[g] = balance[g] \/ balance'[g] = balance[g] + req[s].amount
  BY <1>0, <1>4 DEF Refund, CreditForEvent
<1>5. ASSUME NEW s \in Slot, Continue(s), ~Disburse(s), ~Refund(s)
      PROVE  balance'[g] = balance[g]
  BY <1>5
     DEF Continue, WriteUpdate, WriteExtend, LockEvent, WriteDelete, ReadWorkflow, ClearApprovals,
         InsertApproval, ReadForHistory, WriteStatus, Decide, CheckFunds, CommitFunded,
         Reread, InsertExpense, WriteActual, FailOnDeleted, Deadlock, TimesOut, ledgerVars
<1>6. QED
  BY <1>1, <1>2, <1>3, <1>4, <1>5 DEF Next

\* A handler that is about to pay has just checked, or was about to pay before;
\* one that is about to refund gives.
LEMMA OwnStep ==
    ASSUME IInv, RefundsGive, NEW s \in Slot, Begin(s) \/ Continue(s) \/ Abort(s)
    PROVE  /\ req'[s].pc = "pay" =>
                /\ CheckFunds(s) /\ req[s].budget <= balance[GroupOfEvent(Ev(s))]
                /\ req'[s].budget = req[s].budget /\ req'[s].event = req[s].event
           /\ req'[s].pc = "refund" => req'[s].amount >= 0
<1> DEFINE Goal == /\ req'[s].pc = "pay" =>
                        /\ CheckFunds(s) /\ req[s].budget <= balance[GroupOfEvent(Ev(s))]
                        /\ req'[s].budget = req[s].budget /\ req'[s].event = req[s].event
                   /\ req'[s].pc = "refund" => req'[s].amount >= 0
<1>0. req \in [Slot -> Request] /\ req[s] \in Request
  BY DEF IInv, HandlersInv
<1>1. CASE Begin(s)
  BY <1>0, <1>1, BeginStarts DEF Start
<1>2. CASE Finish(s)
  BY <1>0, <1>2 DEF Finish, Idle
<1>3. CASE CheckFunds(s) /\ ~Finish(s)
  <2>1. GroupOfEvent(Ev(s)) \in Group /\ balance[GroupOfEvent(Ev(s))] \in Int
        /\ req[s].budget \in Int
    BY <1>3, RunningRow DEF CheckFunds, IInv, LedgerTypeOK, Request, RequestOf
  <2>2. ~(balance[GroupOfEvent(Ev(s))] < req[s].budget) /\ Goto(s, "pay")
    BY <1>3 DEF CheckFunds
  <2>3. QED
    BY <1>0, <1>3, <2>1, <2>2 DEF Goto, Request, RequestOf
<1>4. CASE WriteStatus(s)
  <2>1. req'[s] = AfterStatus(req[s])
    BY <1>0, <1>4 DEF WriteStatus
  <2>2. req[s].amount \in Int
    BY <1>0 DEF Request, RequestOf
  <2>3. AfterStatus(req[s]).pc # "pay"
    BY <1>0 DEF AfterStatus, Idle, Request, RequestOf
  <2>4. AfterStatus(req[s]).pc = "refund" => AfterStatus(req[s]).amount >= 0
    BY <1>0, <2>2 DEF AfterStatus, Idle, Request, RequestOf
  <2>5. QED
    BY <2>1, <2>3, <2>4
<1>5. CASE Reread(s)
  <2>1. req'[s] = Idle \/ req'[s] = CancelRequest(req[s].user, Ev(s))
    BY <1>0, <1>5 DEF Reread
  <2>2. event[Ev(s)].budget \in Nat
    BY <1>5, RunningRow DEF Reread, IInv, RowsInv, RowsTyped, EventRow
  <2>3. Idle.pc = "idle" /\ CancelRequest(req[s].user, Ev(s)).pc \in {"mark", "refund"}
    BY DEF CancelRequest, Call, Idle
  <2>4. CancelRequest(req[s].user, Ev(s)).amount >= 0
    BY <2>2 DEF CancelRequest, Call, Idle
  <2>5. QED
    BY <2>1, <2>3, <2>4
<1>6. CASE WriteDelete(s) \/ ClearApprovals(s)
  <2>1. req'[s] = Idle \/ req'[s] = [req[s] EXCEPT !.pc = "insert"]
    BY <1>0, <1>6 DEF WriteDelete, ClearApprovals, ForgetRows
  <2>2. Idle.pc = "idle" /\ [req[s] EXCEPT !.pc = "insert"].pc = "insert"
    BY <1>0 DEF Idle, Request, RequestOf
  <2>3. QED
    BY <2>1, <2>2
<1>7. CASE /\ Continue(s) /\ ~Finish(s) /\ ~CheckFunds(s) /\ ~WriteStatus(s) /\ ~Reread(s)
           /\ ~WriteDelete(s) /\ ~ClearApprovals(s)
  <2>1. ASSUME NEW pc, Goto(s, pc)
        PROVE  req'[s].pc = pc
    BY <1>0, <2>1 DEF Goto, Request, RequestOf
  <2>2. CASE ReadWorkflow(s) \/ InsertApproval(s) \/ ReadForHistory(s)
    <3>1. CASE ReadWorkflow(s)
      BY <1>0, <1>7, <3>1 DEF ReadWorkflow, Request, RequestOf
    <3>2. CASE ReadForHistory(s)
      BY <1>0, <3>2 DEF ReadForHistory, Request, RequestOf
    <3>3. CASE InsertApproval(s)
      <4>1. PICK r \in req[s].rows :
              req' = [req EXCEPT ![s].rows = req[s].rows \ {r},
                                 ![s].pc = IF req[s].rows \ {r} = {} THEN "mark" ELSE "insert"]
        BY <1>7, <3>3 DEF InsertApproval
      <4>2. req'[s].pc \in {"mark", "insert"}
        BY <1>0, <4>1 DEF Request, RequestOf
      <4>3. QED
        BY <4>2
    <3>4. QED
      BY <2>2, <3>1, <3>2, <3>3
  <2>3. CASE InsertExpense(s)
    BY <1>0, <2>3 DEF InsertExpense, Request, RequestOf
  <2>4. CASE LockEvent(s) \/ WriteActual(s) \/ Disburse(s) \/ Refund(s) \/ Decide(s)
    BY <1>7, <2>1, <2>4 DEF LockEvent, WriteActual, Disburse, Refund, Decide
  <2>5. CASE \E late \in BOOLEAN : WriteUpdate(s, late) \/ WriteExtend(s, late)
    BY <1>7, <2>1, <2>5 DEF WriteUpdate, WriteExtend
  <2>6. QED
    BY <1>7, <2>2, <2>3, <2>4, <2>5 DEF Continue, CommitFunded, FailOnDeleted, Deadlock, TimesOut
<1>8. QED
  BY <1>1, <1>2, <1>3, <1>4, <1>5, <1>6, <1>7 DEF Abort

LEMMA PayStep ==
    ASSUME PayInv, PaymentsApart, [Next]_vars
    PROVE  PayInv'
<1> USE DEF PayInv
<1>0. IInv'
  BY Step
<1>1. CASE UNCHANGED vars
  BY <1>0, <1>1
     DEF vars, ledgerVars, NoOverdraft, PaymentsCovered, RefundsGive, At, Ev, GroupOfEvent
<1>2. CASE Next
  <2>1. /\ \A g \in Group : balance[g] \in Int
        /\ \A s \in Slot : req[s].budget \in Nat /\ req[s].amount \in Int
    BY DEF IInv, LedgerTypeOK, HandlersInv, Request, RequestOf
  <2>2. ASSUME NEW s \in Slot, Disburse(s)
        PROVE  At(s, "approve", "pay") /\ req[s].budget <= balance[GroupOfEvent(Ev(s))]
    BY <2>2 DEF Disburse, PaymentsCovered
  <2>3. ASSUME NEW s \in Slot, Refund(s)
        PROVE  req[s].amount >= 0
    BY <2>3 DEF Refund, RefundsGive
  <2>4. NoOverdraft'
    <3> SUFFICES ASSUME NEW g \in Group
                 PROVE  balance'[g] >= 0
      BY DEF NoOverdraft
    <3>1. balance[g] >= 0
      BY DEF NoOverdraft
    <3>2. QED
      BY <1>2, <2>1, <2>2, <2>3, <3>1, BalanceStep
  <2>5. ASSUME NEW t \in Slot
        PROVE  \/ /\ req'[t].op = req[t].op /\ req'[t].pc = req[t].pc
                  /\ req'[t].event = req[t].event
                  /\ req'[t].budget = req[t].budget /\ req'[t].amount = req[t].amount
               \/ Begin(t) \/ Continue(t) \/ Abort(t)
    <3>1. CASE Environment
      BY <3>1 DEF Environment, Create, EndDatePasses
    <3>2. ASSUME NEW s \in Slot, Begin(s) \/ Continue(s) \/ Abort(s), s # t
          PROVE  /\ req'[t].op = req[t].op /\ req'[t].pc = req[t].pc
                 /\ req'[t].event = req[t].event
                 /\ req'[t].budget = req[t].budget /\ req'[t].amount = req[t].amount
      BY <3>2, OthersWait
    <3>3. QED
      BY <1>2, <3>1, <3>2 DEF Next
  <2>6. RefundsGive'
    <3> SUFFICES ASSUME NEW t \in Slot, req'[t].pc = "refund"
                 PROVE  req'[t].amount >= 0
      BY DEF RefundsGive
    <3>1. QED
      BY <2>5, OwnStep DEF RefundsGive
  <2>7. PaymentsCovered'
    <3> SUFFICES ASSUME NEW t \in Slot, At(t, "approve", "pay")'
                 PROVE  req'[t].budget <= balance'[GroupOfEvent(Ev(t))']
      BY DEF PaymentsCovered
    <3> DEFINE g == GroupOfEvent(Ev(t))
    <3>1. req[t] # Idle /\ req'[t].event = req[t].event /\ req'[t].budget = req[t].budget
      BY <2>5, OwnStep DEF At, CheckFunds, Running, Idle
    <3>2. Ev(t) \in Event /\ Status(Ev(t)) # "ABSENT"
      BY <3>1 DEF IInv, HandlersInv, InFlight
    <3>3. g \in Group
      BY <3>2, OrganizationAssumption DEF IInv, RowsInv, Owned, GroupOfEvent
    <3>4. Ev(t)' = Ev(t) /\ GroupOfEvent(Ev(t))' = g
      BY <1>2, <3>1, <3>2, CreatorKept DEF Ev, GroupOfEvent
    <3>5. req[t].budget <= balance[g]
      BY <2>5, OwnStep DEF PaymentsCovered, At
    <3>6. ASSUME NEW s \in Slot, Disburse(s), GroupOfEvent(Ev(s)) = g
          PROVE  FALSE
      <4>1. req'[s].pc = "commit"
        BY <3>6 DEF Disburse, Goto, IInv, HandlersInv, Request, RequestOf
      <4>2. s # t
        BY <4>1 DEF At
      <4>3. At(t, "approve", "pay")
        <5>1. Continue(s)
          BY <3>6 DEF Continue
        <5>2. req[t].op = req'[t].op /\ req[t].pc = req'[t].pc
          BY <4>2, <5>1, OthersWait
        <5>3. QED
          BY <5>2 DEF At
      <4>4. QED
        BY <2>2, <3>6, <4>2, <4>3 DEF PaymentsApart
    <3>7. balance'[g] >= balance[g]
      BY <1>2, <2>1, <2>3, <3>3, <3>6, BalanceStep
    <3>8. balance'[g] \in Int /\ balance[g] \in Int /\ req[t].budget \in Int
      BY <1>0, <2>1, <3>3 DEF IInv, LedgerTypeOK
    <3>9. QED
      BY <3>1, <3>4, <3>5, <3>7, <3>8
  <2>8. QED
    BY <1>0, <2>4, <2>6, <2>7
<1>3. QED
  BY <1>1, <1>2

NoDebts == \A g \in Group : Opening[g] >= 0

LEMMA PayInitially == NoDebts /\ Init => PayInv
  BY Initially
     DEF NoDebts, Init, LedgerInit, PayInv, NoOverdraft, PaymentsCovered, RefundsGive, At, Idle

(***************************************************************************)
(* Whatever else handlers do to each other, a wallet is overdrawn only if   *)
(* two payments from it overlap between the check and the debit of          *)
(* disburseEventFund.                                                       *)
(***************************************************************************)
THEOREM NoOverdraftIfPaymentsApart ==
    ASSUME NoDebts
    PROVE  Spec /\ []PaymentsApart => []NoOverdraft
<1>1. Init => PayInv
  BY PayInitially
<1>2. PayInv /\ PaymentsApart /\ [Next]_vars => PayInv'
  BY PayStep
<1>3. PayInv => NoOverdraft
  BY DEF PayInv
<1>4. QED
  BY <1>1, <1>2, <1>3, PTL DEF Spec

-----------------------------------------------------------------------------
(***************************************************************************)
(* The history.  A handler that sets a status has read the one it replaces  *)
(* earlier: updateEventStatus one await before, processApproval several.    *)
(* That is enough as long as no two handlers of one event hold what they    *)
(* read at once, whatever else is going on.                                 *)
(***************************************************************************)
\* s is going to write a history row that names the status it has read.
HoldsStatus(s) ==
    \/ req[s].pc = "set"
    \/ req[s].op = "approve" /\ req[s].pc \in {"decide", "fund", "pay", "commit"}

\* processApproval goes on only if it has read SUBMITTED.
HeldStatus(s) == IF req[s].pc = "set" THEN req[s].prior ELSE "SUBMITTED"

HoldersApart ==
    \A s, t \in Slot : HoldsStatus(s) /\ HoldsStatus(t) /\ Ev(s) = Ev(t) => s = t

\* What a handler has read is still so, unless the event has been deleted.
HeldIsTrue ==
    \A s \in Slot : HoldsStatus(s) /\ ~Deleted(Ev(s)) => HeldStatus(s) = Status(Ev(s))

HistoryInv == IInv /\ HeldIsTrue

\* The steps that set a status, besides a deletion.
Sets(s) == WriteStatus(s) \/ Decide(s) \/ CommitFunded(s)

LEMMA OtherStepsKeepStatus ==
    ASSUME IInv, NEW s \in Slot, Begin(s) \/ Continue(s) \/ Abort(s), NEW e \in Event,
           ~Sets(s) \/ e # Ev(s)
    PROVE  Status(e)' \in {Status(e), "DELETED"} /\ trail'[e] = trail[e]
<1>0. event \in [Event -> EventRow] /\ trail \in [Event -> StatusChange]
  BY DEF IInv, RowsInv, RowsTyped
<1>1. CASE Begin(s) \/ Abort(s)
  BY <1>1, BeginReads DEF Abort, eventVars, Status
<1>2. CASE WriteDelete(s)
  BY <1>0, <1>2 DEF WriteDelete, Status, EventRow
<1>3. CASE Sets(s) /\ e # Ev(s)
  BY <1>0, <1>3 DEF Sets, WriteStatus, Decide, CommitFunded, SetStatus, Status, EventRow, eventVars
<1>4. CASE Continue(s) /\ ~Sets(s) /\ ~WriteDelete(s)
  BY <1>0, <1>4
     DEF Continue, WriteUpdate, WriteExtend, LockEvent, ReadWorkflow, ClearApprovals,
         InsertApproval, ReadForHistory, CheckFunds, Disburse, Reread, Refund, InsertExpense,
         WriteActual, FailOnDeleted, Deadlock, TimesOut, Sets, eventVars, Status, EventRow
<1>5. QED
  BY <1>1, <1>2, <1>3, <1>4

\* A step that sets a status is its holder's, and writes what the holder read.
LEMMA SetsWhatItHolds ==
    ASSUME HistoryInv, NEW s \in Slot, Sets(s), NEW e, e = Ev(s)
    PROVE  /\ e \in Event /\ HoldsStatus(s)
           /\ Status(e)' # Status(e) => trail'[e].new = Status(e)'
           /\ trail'[e] # trail[e] => trail'[e] = [prev |-> Status(e), new |-> Status(e)']
<1>0. event \in [Event -> EventRow] /\ trail \in [Event -> StatusChange]
  BY DEF HistoryInv, IInv, RowsInv, RowsTyped
<1>1. Running(s) /\ HoldsStatus(s)
  BY DEF Sets, WriteStatus, Decide, CommitFunded, At, HoldsStatus
<1>2. e \in Event /\ HeldStatus(s) = Status(e)
  BY <1>1, RunningRow DEF HistoryInv, IInv, HeldIsTrue, Running
<1>3. Decide(s) \/ CommitFunded(s) => Status(e) = "SUBMITTED"
  BY <1>2 DEF Decide, CommitFunded, At, HeldStatus
<1>4. ASSUME NEW new, SetStatus(e, Status(e), new)
      PROVE  /\ Status(e)' # Status(e) => trail'[e].new = Status(e)'
             /\ trail'[e] # trail[e] => trail'[e] = [prev |-> Status(e), new |-> Status(e)']
  BY <1>0, <1>2, <1>4 DEF SetStatus, Status, EventRow
<1>5. CASE WriteStatus(s)
  BY <1>1, <1>2, <1>4, <1>5 DEF WriteStatus, HeldStatus
<1>6. CASE CommitFunded(s)
  BY <1>1, <1>2, <1>3, <1>4, <1>6 DEF CommitFunded
<1>7. CASE Decide(s)
  <2>1. \/ SetStatus(e, "SUBMITTED", "REJECTED")
        \/ UNCHANGED <<event, trail>>
        \/ /\ trail' = [trail EXCEPT ![e] = [prev |-> "SUBMITTED", new |-> "SUBMITTED"]]
           /\ UNCHANGED event
    BY <1>7 DEF Decide, eventVars
  <2>2. QED
    BY <1>0, <1>1, <1>2, <1>3, <1>4, <1>7, <2>1 DEF Status
<1>8. QED
  BY <1>5, <1>6, <1>7 DEF Sets

\* A handler begins to hold a status only by reading it.
LEMMA BeginHolds ==
    ASSUME IInv, NEW s \in Slot, Begin(s), HoldsStatus(s)'
    PROVE  \E e \in Event : req'[s].event = e /\ HeldStatus(s)' = Status(e)
<1>0. req \in [Slot -> Request]
  BY DEF IInv, HandlersInv
<1>1. PICK u \in User, e \in Event :
        \/ \E b \in Budget : BeginUpdate(s, u, e, b)
        \/ BeginDelete(s, u, e)
        \/ BeginSubmit(s, u, e)
        \/ \E v \in ApprovalStatus : BeginApprove(s, u, e, v)
        \/ BeginCancel(s, u, e)
        \/ \E total \in Spending, rest \in Remaining : BeginExpense(s, u, e, total, rest)
        \/ BeginExtend(s, u, e)
        \/ BeginSettle(s, u, e)
        \/ BeginView(s, u, e)
  BY DEF Begin
<1>2. ASSUME NEW r, r.op # "approve", r.pc # "set", Start(s, r)
      PROVE  FALSE
  BY <1>0, <1>2 DEF Start, HoldsStatus
<1>3. ASSUME NEW b \in Budget, BeginUpdate(s, u, e, b)
      PROVE  FALSE
  <2>1. [Call("update", u, e, "write", "DRAFT") EXCEPT !.budget = b].op = "update"
        /\ [Call("update", u, e, "write", "DRAFT") EXCEPT !.budget = b].pc = "write"
    BY DEF Call, Idle
  <2>2. QED
    BY <1>2, <1>3, <2>1 DEF BeginUpdate
<1>4. ASSUME BeginDelete(s, u, e) \/ BeginSubmit(s, u, e) \/ BeginExtend(s, u, e)
             \/ BeginSettle(s, u, e) \/ BeginView(s, u, e)
      PROVE  FALSE
  <2>1. PICK op \in AllOps \ {"approve"}, pc \in {"write", "rows", "mark"}, target \in EventStatus :
          Start(s, Call(op, u, e, pc, target))
    BY <1>4 DEF BeginDelete, BeginSubmit, BeginExtend, BeginSettle, BeginView, AllOps, EventStatus
  <2>2. Call(op, u, e, pc, target).op = op /\ Call(op, u, e, pc, target).pc = pc
    BY DEF Call, Idle
  <2>3. QED
    BY <1>2, <2>1, <2>2
<1>5. ASSUME NEW v \in ApprovalStatus, BeginApprove(s, u, e, v)
      PROVE  req'[s].event = e /\ HeldStatus(s)' = Status(e)
  <2>1. PICK x, target : Start(s, [Call("approve", u, e, "decide", target) EXCEPT
                                    !.rows = {x}, !.verdict = v])
    BY <1>5, Zenon DEF BeginApprove, MayApprove, NextStepOf
  <2>2. Status(e) = "SUBMITTED"
    BY <1>5 DEF BeginApprove, MayApprove
  <2>3. req'[s].event = e /\ req'[s].pc = "decide"
    BY <1>0, <2>1 DEF Start, Call, Idle
  <2>4. QED
    BY <2>2, <2>3 DEF HeldStatus
<1>6. ASSUME BeginCancel(s, u, e)
      PROVE  FALSE
  <2>1. PICK r : /\ Start(s, r)
                 /\ r = Call("cancel", u, e, "mark", "COMPLETED") \/ r = CancelRequest(u, e)
    BY <1>6 DEF BeginCancel
  <2>2. r.op = "cancel" /\ r.pc \in {"mark", "refund"}
    BY <2>1 DEF CancelRequest, Call, Idle
  <2>3. QED
    BY <1>2, <2>1, <2>2
<1>7. ASSUME NEW total \in Spending, NEW rest \in Remaining, BeginExpense(s, u, e, total, rest)
      PROVE  FALSE
  <2>1. PICK r : /\ Start(s, r)
                 /\ r = [Call("expense", u, e, "expense", "ONGOING") EXCEPT
                           !.spent = total, !.left = total, !.amount = rest]
    BY <1>7 DEF BeginExpense
  <2>2. r.op = "expense" /\ r.pc = "expense"
    BY <2>1 DEF Call, Idle
  <2>3. QED
    BY <1>2, <2>1, <2>2
<1>8. QED
  BY <1>1, <1>3, <1>4, <1>5, <1>6, <1>7

\* A handler that goes on holding one has read it in this step or held it before.
LEMMA ContinueHolds ==
    ASSUME IInv, NEW s \in Slot, Continue(s) \/ Abort(s), HoldsStatus(s)'
    PROVE  /\ Running(s) /\ req'[s].event = Ev(s) /\ UNCHANGED event
           /\ \/ HeldStatus(s)' = Status(Ev(s))
              \/ HoldsStatus(s) /\ HeldStatus(s)' = HeldStatus(s)
<1>0. req \in [Slot -> Request] /\ req[s] \in Request
  BY DEF IInv, HandlersInv
<1>1. ~Finish(s)
  <2>1. Idle.pc = "idle" /\ Idle.op = "none"
    BY DEF Idle
  <2>2. QED
    BY <1>0, <2>1 DEF Finish, HoldsStatus
<1>2. ASSUME NEW pc, Goto(s, pc)
      PROVE  /\ req'[s].pc = pc /\ req'[s].op = req[s].op
             /\ req'[s].event = Ev(s) /\ req'[s].prior = req[s].prior
  BY <1>0, <1>2 DEF Goto, Request, RequestOf, Ev
<1>3. CASE Decide(s) \/ CheckFunds(s) \/ Disburse(s)
  <2>1. /\ Running(s) /\ UNCHANGED event /\ req[s].op = "approve"
        /\ req[s].pc \in {"decide", "fund", "pay"}
        /\ \E pc \in {"fund", "pay", "commit"} : Goto(s, pc)
    BY <1>1, <1>3 DEF Decide, CheckFunds, Disburse, At, eventVars
  <2>2. QED
    BY <1>2, <2>1 DEF HoldsStatus, HeldStatus
<1>4. CASE ReadForHistory(s)
  <2>1. /\ req'[s].pc = "set" /\ req'[s].prior = Status(Ev(s)) /\ req'[s].event = Ev(s)
        /\ Running(s) /\ UNCHANGED event
    BY <1>0, <1>4 DEF ReadForHistory, Request, RequestOf, Ev, eventVars
  <2>2. QED
    BY <2>1 DEF HeldStatus
<1>5. ASSUME NEW op \in AllOps \ {"approve"}, NEW pc \in Pc \ {"set"},
             req'[s].op = op, req'[s].pc = pc
      PROVE  FALSE
  BY <1>5 DEF HoldsStatus
<1>6. ASSUME ReadWorkflow(s) \/ InsertApproval(s) \/ ClearApprovals(s) \/ WriteDelete(s)
      PROVE  FALSE
  <2>1. CASE ReadWorkflow(s)
    <3>1. req'[s].op = "submit" /\ req'[s].pc = "clear"
      BY <1>0, <1>1, <2>1 DEF ReadWorkflow, Request, RequestOf, At
    <3>2. QED
      BY <1>5, <3>1 DEF AllOps, Pc
  <2>2. CASE InsertApproval(s)
    <3>1. PICK r \in req[s].rows :
            req' = [req EXCEPT ![s].rows = req[s].rows \ {r},
                               ![s].pc = IF req[s].rows \ {r} = {} THEN "mark" ELSE "insert"]
      BY <1>1, <2>2 DEF InsertApproval
    <3>2. req'[s].op = "submit" /\ req'[s].pc \in {"mark", "insert"}
      BY <1>0, <2>2, <3>1 DEF InsertApproval, At, Request, RequestOf
    <3>3. QED
      BY <1>5, <3>2 DEF AllOps, Pc
  <2>3. CASE ClearApprovals(s) \/ WriteDelete(s)
    <3>1. req'[s] = Idle \/ (req'[s] = [req[s] EXCEPT !.pc = "insert"] /\ req[s].op = "submit")
      BY <1>0, <2>3 DEF WriteDelete, ClearApprovals, ForgetRows, At
    <3>2. Idle.pc = "idle" /\ Idle.op = "none"
      BY DEF Idle
    <3>3. req'[s].op # "approve" /\ req'[s].pc # "set"
      BY <1>0, <3>1, <3>2 DEF Request, RequestOf
    <3>4. QED
      BY <3>3 DEF HoldsStatus
  <2>4. QED
    BY <1>6, <2>1, <2>2, <2>3
<1>7. ASSUME WriteStatus(s) \/ Reread(s)
      PROVE  FALSE
  <2>1. CASE WriteStatus(s)
    <3>1. req'[s] = AfterStatus(req[s]) /\ AfterStatus(req[s]) # Idle
      BY <1>0, <1>1, <2>1 DEF WriteStatus, Finish
    <3>2. req'[s].op \in {"expense", "cancel"} /\ req'[s].pc \in {"refund", "reread"}
      BY <1>0, <3>1 DEF AfterStatus, Request, RequestOf
    <3>3. QED
      BY <1>5, <3>2 DEF AllOps, Pc
  <2>2. CASE Reread(s)
    <3>1. req'[s] = CancelRequest(req[s].user, Ev(s))
      BY <1>0, <1>1, <2>2 DEF Reread, Finish
    <3>2. req'[s].op = "cancel" /\ req'[s].pc \in {"mark", "refund"}
      BY <3>1 DEF CancelRequest, Call, Idle
    <3>3. QED
      BY <1>5, <3>2 DEF AllOps, Pc
  <2>3. QED
    BY <1>7, <2>1, <2>2
<1>8. ASSUME \/ LockEvent(s) \/ Refund(s) \/ WriteActual(s) \/ InsertExpense(s)
             \/ \E late \in BOOLEAN : WriteUpdate(s, late) \/ WriteExtend(s, late)
      PROVE  FALSE
  <2>1. CASE InsertExpense(s)
    <3>1. req'[s].op = "expense" /\ req'[s].pc \in {"actual", "expense"}
      BY <1>0, <2>1 DEF InsertExpense, Request, RequestOf, At
    <3>2. QED
      BY <1>5, <3>1 DEF AllOps, Pc
  <2>2. CASE ~InsertExpense(s)
    <3>1. \E op \in {"delete", "cancel", "expense", "extend"}, pc \in {"cascade", "mark"} :
            req[s].op = op /\ Goto(s, pc)
      BY <1>1, <1>8, <2>2 DEF LockEvent, Refund, WriteActual, WriteUpdate, WriteExtend, At
    <3>2. QED
      BY <1>2, <1>5, <3>1 DEF AllOps, Pc
  <2>3. QED
    BY <2>1, <2>2
<1>9. QED
  BY <1>1, <1>3, <1>4, <1>6, <1>7, <1>8, StopsInFlight DEF Continue, CommitFunded, Abort

LEMMA HistoryStep ==
    ASSUME HistoryInv, HoldersApart, [Next]_vars
    PROVE  HistoryInv'
<1> USE DEF HistoryInv
<1>0. IInv' /\ event \in [Event -> EventRow]
  BY Step DEF IInv, RowsInv, RowsTyped
<1>1. CASE UNCHANGED vars
  BY <1>0, <1>1 DEF vars, HeldIsTrue, HoldsStatus, HeldStatus, Deleted, Status, Ev
<1>2. CASE Environment
  <2> SUFFICES ASSUME NEW t \in Slot, HoldsStatus(t), ~Deleted(Ev(t))'
               PROVE  HeldStatus(t) = Status(Ev(t))'
    BY <1>0, <1>2
       DEF HeldIsTrue, Environment, Create, EndDatePasses, HoldsStatus, HeldStatus, Ev
  <2>1. UNCHANGED req
    BY <1>2 DEF Environment, Create, EndDatePasses
  <2>2. Idle.pc = "idle" /\ Idle.op = "none"
    BY DEF Idle
  <2>3. Ev(t) \in Event /\ Status(Ev(t)) # "ABSENT" /\ Ev(t)' = Ev(t)
    BY <2>1, <2>2 DEF HoldsStatus, IInv, HandlersInv, InFlight, Ev
  <2>4. Status(Ev(t))' = Status(Ev(t))
    BY <1>0, <1>2, <2>1, <2>3 DEF Environment, Create, EndDatePasses, Status, Ev, EventRow
  <2>5. QED
    BY <2>3, <2>4 DEF HeldIsTrue, Deleted
<1>3. ASSUME NEW s \in Slot, Begin(s) \/ Continue(s) \/ Abort(s)
      PROVE  HistoryInv'
  <2> SUFFICES ASSUME NEW t \in Slot, HoldsStatus(t)', ~Deleted(Ev(t))'
               PROVE  HeldStatus(t)' = Status(Ev(t))'
    BY <1>0 DEF HeldIsTrue
  <2>1. CASE t = s
    <3>1. CASE Begin(s)
      <4>1. PICK e \in Event : req'[s].event = e /\ HeldStatus(s)' = Status(e)
        BY <2>1, <3>1, BeginHolds
      <4>2. Status(e)' = Status(e)
        BY <3>1, BeginReads DEF eventVars, Status
      <4>3. QED
        BY <2>1, <4>1, <4>2 DEF Ev, Status
    <3>2. CASE Continue(s) \/ Abort(s)
      <4>1. /\ Running(s) /\ req'[s].event = Ev(s) /\ UNCHANGED event
            /\ \/ HeldStatus(s)' = Status(Ev(s))
               \/ HoldsStatus(s) /\ HeldStatus(s)' = HeldStatus(s)
        BY <2>1, <3>2, ContinueHolds
      <4>2. HeldStatus(s)' = Status(Ev(s))
        BY <4>1 DEF HeldIsTrue, Running
      <4>3. QED
        BY <2>1, <4>1, <4>2 DEF Ev, Status
    <3>3. QED
      BY <1>3, <3>1, <3>2
  <2>2. CASE t # s
    <3>1. /\ req'[t].op = req[t].op /\ req'[t].pc = req[t].pc
          /\ req'[t].event = req[t].event /\ req'[t].prior = req[t].prior
      BY <1>3, <2>2, OthersWait
    <3>2. HoldsStatus(t) /\ HeldStatus(t)' = HeldStatus(t) /\ Ev(t)' = Ev(t)
      BY <3>1 DEF HoldsStatus, HeldStatus, Ev
    <3>3. Idle.pc = "idle" /\ Idle.op = "none"
      BY DEF Idle
    <3>4. PICK e \in Event : e = Ev(t)
      BY <3>2, <3>3 DEF HoldsStatus, IInv, HandlersInv, InFlight
    <3>5. ~Sets(s) \/ e # Ev(s)
      BY <2>2, <3>2, <3>4, SetsWhatItHolds DEF HoldersApart
    <3>6. Status(e)' \in {Status(e), "DELETED"}
      BY <1>3, <3>5, OtherStepsKeepStatus
    <3>7. Status(Ev(t))' = Status(e)'
      BY <3>2, <3>4 DEF Status, Ev
    <3>8. Status(e)' = Status(e) /\ Status(e) # "DELETED"
      <4>1. Status(e)' # "DELETED"
        BY <3>2, <3>4, <3>7 DEF Deleted
      <4>2. QED
        BY <3>6, <4>1
    <3>9. HeldStatus(t) = Status(e)
      BY <3>2, <3>4, <3>8 DEF HeldIsTrue, Deleted
    <3>10. QED
      BY <3>2, <3>7, <3>8, <3>9
  <2>3. QED
    BY <2>1, <2>2
<1>4. QED
  BY <1>1, <1>2, <1>3 DEF Next

LEMMA HistoryFits ==
    ASSUME HistoryInv, [Next]_vars, NEW e \in Event, Exists(e), Exists(e)'
    PROVE  /\ Status(e)' # Status(e) => trail'[e].new = Status(e)'
           /\ trail'[e] # trail[e] => trail'[e] = [prev |-> Status(e), new |-> Status(e)']
<1>0. event \in [Event -> EventRow] /\ trail \in [Event -> StatusChange]
  BY DEF HistoryInv, IInv, RowsInv, RowsTyped
<1>1. CASE UNCHANGED vars
  BY <1>1 DEF vars, Status
<1>2. CASE Environment
  BY <1>0, <1>2 DEF Environment, Create, EndDatePasses, Exists, EventStatus, Status, EventRow
<1>3. ASSUME NEW s \in Slot, Begin(s) \/ Continue(s) \/ Abort(s)
      PROVE  /\ Status(e)' # Status(e) => trail'[e].new = Status(e)'
             /\ trail'[e] # trail[e] => trail'[e] = [prev |-> Status(e), new |-> Status(e)']
  <2>1. CASE Sets(s) /\ e = Ev(s)
    BY <2>1, SetsWhatItHolds
  <2>2. CASE ~Sets(s) \/ e # Ev(s)
    <3>1. Status(e)' \in {Status(e), "DELETED"} /\ trail'[e] = trail[e]
      BY <1>3, <2>2, OtherStepsKeepStatus DEF HistoryInv
    <3>2. QED
      BY <3>1 DEF Exists, EventStatus
  <2>3. QED
    BY <2>1, <2>2
<1>4. QED
  BY <1>1, <1>2, <1>3 DEF Next

(***************************************************************************)
(* Whatever else handlers do to each other -- delete the event, edit it,    *)
(* lay its steps out anew, die half-way -- the history of an event is       *)
(* broken only if two handlers of it are at once between reading a status   *)
(* and writing the one that replaces it (updateEventStatus,                 *)
(* processApproval).                                                        *)
(***************************************************************************)
THEOREM HistoryIfHoldersApart == Spec /\ []HoldersApart => HistoryIsContinuous
<1>1. Init => HistoryInv
  BY Initially DEF HistoryInv, HeldIsTrue, HoldsStatus, Init, Idle
<1>2. HistoryInv /\ HoldersApart /\ [Next]_vars => HistoryInv'
  BY HistoryStep
<1>3. HistoryInv /\ [Next]_vars =>
        [\A e \in Event : Exists(e) /\ Exists(e)' =>
            /\ Status(e)' # Status(e) => trail'[e].new = Status(e)'
            /\ trail'[e] # trail[e] => trail'[e] = [prev |-> Status(e), new |-> Status(e)']]_vars
  BY HistoryFits
<1>4. QED
  BY <1>1, <1>2, <1>3, PTL DEF Spec, HistoryIsContinuous

=============================================================================
