--------------------------- MODULE EventSerialProofs ---------------------------
(***************************************************************************)
(* What holds of an event whose handlers run one after the other, whatever  *)
(* the handlers of other events do at the same time, and although any of    *)
(* them may die half-way.                                                   *)
(*                                                                          *)
(* The invariant says, for each handler, what its earlier reads still mean  *)
(* at each of its awaits, and for each status what the approval rows and    *)
(* the money of the event must be.                                          *)
(***************************************************************************)
EXTENDS EventLifecycleProofs

\* No two handlers work on one event at the same time.
OneByOne == \A s, t \in Slot : req[s] # Idle /\ req[t] # Idle /\ Ev(s) = Ev(t) => s = t

-----------------------------------------------------------------------------
(* The approval rows *)

\* rows are the steps the event needs, one of each, with the right approvers.
Laid(e, rows) ==
    /\ \E r \in rows : r.step = 1
    /\ NeedsLeader(e) => \E r \in rows : r.step = 2
    /\ \A r \in rows : RoleOf[r.approver] = IF r.step = 1 THEN "TREASURER" ELSE "LEADER"
    /\ \A q, r \in rows : q.step = r.step => q = r

AllPending(rows) == \A r \in rows : r.status = "PENDING"

RowsFit(e) ==
    /\ Status(e) \notin {"UNDER_REVIEW", "APPROVED"}
    /\ Status(e) = "ABSENT" => approvals[e] = {}
    /\ Status(e) = "DRAFT" => AllPending(approvals[e])
    /\ Status(e) = "SUBMITTED" =>
         /\ Laid(e, approvals[e])
         /\ \A r \in approvals[e] : r.status # "REJECTED"
         /\ \E r \in approvals[e] : r.status = "PENDING"
    /\ Status(e) \in PaidFor =>
         Laid(e, approvals[e]) /\ \A r \in approvals[e] : r.status = "APPROVED"

-----------------------------------------------------------------------------
(* What a handler that has read the event may still rely on *)

Edits(s) == req[s].op = "update" /\ req[s].pc = "write" /\ Status(Ev(s)) \in editableStatuses

Deletes(s) ==
    req[s].op = "delete" /\ req[s].pc \in {"write", "cascade"} /\ Status(Ev(s)) = "DRAFT"

Submits(s) ==
    LET e == Ev(s) IN
    /\ req[s].op = "submit" /\ req[s].target = "SUBMITTED"
    /\ Status(e) \in submittableStatuses
    /\ \/ req[s].pc = "rows"
       \/ req[s].pc = "clear" /\ Laid(e, req[s].rows) /\ AllPending(req[s].rows)
       \/ /\ req[s].pc = "insert"
          /\ Laid(e, approvals[e] \cup req[s].rows) /\ AllPending(approvals[e] \cup req[s].rows)
       \/ req[s].pc \in {"mark", "set"} /\ Laid(e, approvals[e]) /\ AllPending(approvals[e])

\* The row it decides is still pending, and still the last one if it was.
Approves(s) ==
    LET e == Ev(s) IN
    /\ req[s].op = "approve" /\ req[s].pc \in {"decide", "fund", "pay", "commit"}
    /\ Status(e) = "SUBMITTED"
    /\ \E r \in approvals[e] :
        /\ req[s].rows = {r} /\ r.status = "PENDING"
        /\ \/ req[s].target = "REJECTED" /\ req[s].pc = "decide"
           \/ /\ req[s].target = "SUBMITTED" /\ req[s].pc = "decide"
              /\ \/ req[s].verdict = "PENDING"
                 \/ /\ req[s].verdict = "APPROVED"
                    /\ \E q \in approvals[e] \ {r} : q.status = "PENDING"
           \/ /\ req[s].target = "FUNDED" /\ req[s].verdict = "APPROVED"
              /\ \A q \in approvals[e] \ {r} : q.status = "APPROVED"

Cancels(s) ==
    /\ req[s].op = "cancel"
    /\ \/ /\ req[s].target = "CANCELLED" /\ req[s].pc \in {"refund", "mark", "set"}
          /\ Status(Ev(s)) \in Cancelable
          /\ req[s].pc = "refund" => Status(Ev(s)) \in {"FUNDED", "ONGOING"}
       \/ /\ req[s].target = "COMPLETED" /\ req[s].pc \in {"mark", "set"}
          /\ Status(Ev(s)) = "ONGOING"
       \/ /\ req[s].target = "COMPLETED" /\ req[s].pc = "reread"
          /\ Status(Ev(s)) = "COMPLETED"

Reports(s) ==
    /\ req[s].op = "expense" /\ req[s].target = "ONGOING"
    /\ \/ req[s].pc \in {"expense", "actual", "mark", "set"} /\ Status(Ev(s)) = "FUNDED"
       \/ req[s].pc = "refund" /\ Status(Ev(s)) = "ONGOING"

Extends(s) == /\ req[s].op = "extend" /\ req[s].target = "ONGOING"
              /\ req[s].pc \in {"write", "mark", "set"} /\ Status(Ev(s)) = "ONGOING"

Settles(s) == /\ req[s].op = "settle" /\ req[s].target = "SETTLED"
              /\ req[s].pc \in {"mark", "set"} /\ Status(Ev(s)) = "COMPLETED"

Views(s) == /\ req[s].op = "view" /\ req[s].target = "COMPLETED"
            /\ req[s].pc \in {"mark", "set"} /\ Status(Ev(s)) = "ONGOING"

Knows(s) ==
    /\ \/ Edits(s) \/ Deletes(s) \/ Submits(s) \/ Approves(s) \/ Cancels(s)
       \/ Reports(s) \/ Extends(s) \/ Settles(s) \/ Views(s)
    /\ req[s].pc = "set" => req[s].prior = Status(Ev(s))

SerialInv ==
    /\ \A e \in Event : RowsFit(e)
    /\ \A s \in Slot : req[s] # Idle => Knows(s)
-----------------------------------------------------------------------------
(* One event at a time: what a step leaves alone *)

\* Everything that is known of event e.
SameEvent(e) ==
    /\ event'[e] = event[e] /\ approvals'[e] = approvals[e] /\ trail'[e] = trail[e]
    /\ expenses'[e] = expenses[e] /\ paidOut'[e] = paidOut[e]

\* A step of slot s for event e: other events and their handlers are as before.
StepOf(s, e) ==
    /\ \A t \in Slot \ {s} : req'[t] = req[t] /\ (req[t] # Idle => Ev(t) # e)
    /\ \A f \in Event \ {e} : SameEvent(f)

LEMMA TablesTyped ==
    ASSUME IInv
    PROVE  /\ event \in [Event -> EventRow] /\ approvals \in [Event -> SUBSET ApprovalRow]
           /\ trail \in [Event -> StatusChange] /\ expenses \in [Event -> Nat]
           /\ paidOut \in [Event -> Int] /\ req \in [Slot -> Request]
  BY DEF IInv, HandlersInv, RowsInv, RowsTyped, LedgerTypeOK

\* What a call starts with.
Started(s, u, e) ==
    /\ req[s] = Idle /\ Exists(e)
    /\ UNCHANGED <<eventVars, aborts, ledgerVars>>
    /\ \E r : req' = [req EXCEPT ![s] = r] /\ r.event = e /\ r.op # "none"

LEMMA BeginIsStart ==
    ASSUME NEW s \in Slot, NEW u \in User, NEW e \in Event,
           \/ \E b \in Budget : BeginUpdate(s, u, e, b)
           \/ BeginDelete(s, u, e) \/ BeginSubmit(s, u, e)
           \/ \E v \in ApprovalStatus : BeginApprove(s, u, e, v)
           \/ BeginCancel(s, u, e)
           \/ \E total \in Spending, rest \in Remaining : BeginExpense(s, u, e, total, rest)
           \/ BeginExtend(s, u, e) \/ BeginSettle(s, u, e) \/ BeginView(s, u, e)
    PROVE  Started(s, u, e)
<1> DEFINE Fits(r) == r.event = e /\ r.op # "none"
<1> DEFINE Quietly == UNCHANGED <<eventVars, aborts, ledgerVars>>
<1>1. ASSUME NEW op \in AllOps, NEW pc, NEW target PROVE Fits(Call(op, u, e, pc, target))
  BY <1>1 DEF Call, Idle, AllOps
<1>2. ASSUME NEW b \in Budget, BeginUpdate(s, u, e, b) PROVE Started(s, u, e)
  <2>1. Fits([Call("update", u, e, "write", "DRAFT") EXCEPT !.budget = b])
    BY DEF Call, Idle
  <2>2. QED
    BY <1>2, <2>1 DEF BeginUpdate, MayUpdate, MayCall, Start, Started
<1>3. CASE BeginDelete(s, u, e) \/ BeginSubmit(s, u, e) \/ BeginExtend(s, u, e)
           \/ BeginSettle(s, u, e) \/ BeginView(s, u, e)
  BY <1>1, <1>3
     DEF BeginDelete, MayDelete, BeginSubmit, MaySubmit, BeginExtend, MayExtend, BeginSettle,
         MaySettle, BeginView, MayCall, Start, Started, AllOps
<1>4. ASSUME NEW v \in ApprovalStatus, BeginApprove(s, u, e, v) PROVE Started(s, u, e)
  <2>1. PICK x, target : Start(s, [Call("approve", u, e, "decide", target) EXCEPT
                                    !.rows = {x}, !.verdict = v])
    BY <1>4, Zenon DEF BeginApprove, MayApprove, NextStepOf
  <2>2. Fits([Call("approve", u, e, "decide", target) EXCEPT !.rows = {x}, !.verdict = v])
    BY DEF Call, Idle
  <2>3. req[s] = Idle /\ Exists(e) /\ Quietly
    BY <1>4, Zenon DEF BeginApprove, MayApprove, NextStepOf, MayCall
  <2>4. QED
    BY <2>1, <2>2, <2>3 DEF Start, Started
<1>5. CASE BeginCancel(s, u, e)
  <2>1. Fits(CancelRequest(u, e)) /\ Fits(Call("cancel", u, e, "mark", "COMPLETED"))
    BY DEF CancelRequest, Call, Idle
  <2>2. QED
    BY <1>5, <2>1 DEF BeginCancel, MayCancel, MayCall, Start, Started
<1>6. ASSUME NEW total \in Spending, NEW rest \in Remaining, BeginExpense(s, u, e, total, rest)
      PROVE  Started(s, u, e)
  <2>1. Fits([Call("expense", u, e, "expense", "ONGOING") EXCEPT
                !.spent = total, !.left = total, !.amount = rest])
    BY DEF Call, Idle
  <2>2. QED
    BY <1>6, <2>1 DEF BeginExpense, MayReport, MayCall, Start, Started
<1>7. QED
  BY <1>2, <1>3, <1>4, <1>5, <1>6

LEMMA StartedStep ==
    ASSUME IInv, OneByOne', NEW s \in Slot, NEW u \in User, NEW e \in Event, Started(s, u, e)
    PROVE  StepOf(s, e)
<1>1. PICK r : req' = [req EXCEPT ![s] = r] /\ r.event = e /\ r.op # "none"
  BY DEF Started
<1>2. req' = [req EXCEPT ![s] = r] /\ req \in [Slot -> Request] /\ r # Idle
  BY <1>1, TablesTyped DEF Idle
<1>3. ASSUME NEW t \in Slot \ {s} PROVE req'[t] = req[t] /\ (req[t] # Idle => Ev(t) # e)
  <2>1. req'[t] = req[t] /\ req'[s] = r
    BY <1>2
  <2>2. QED
    BY <1>1, <1>2, <2>1 DEF OneByOne, Ev
<1>4. QED
  BY <1>3 DEF Started, StepOf, SameEvent, eventVars, ledgerVars

LEMMA ContinueLeavesEvents ==
    ASSUME IInv, NEW s \in Slot, Continue(s) \/ Abort(s), NEW f \in Event, f # Ev(s)
    PROVE  SameEvent(f)
<1>0. /\ event \in [Event -> EventRow] /\ approvals \in [Event -> SUBSET ApprovalRow]
      /\ trail \in [Event -> StatusChange] /\ expenses \in [Event -> Nat]
      /\ paidOut \in [Event -> Int]
  BY TablesTyped
<1>1. Decided(s)[f] = approvals[f]
  BY <1>0 DEF Decided
<1>2. CASE Abort(s)
  BY <1>2 DEF Abort, SameEvent, eventVars, ledgerVars
<1>3. CASE Continue(s)
  <2>1. event'[f] = event[f] /\ trail'[f] = trail[f] /\ expenses'[f] = expenses[f]
    BY <1>0, <1>3
       DEF Continue, WriteUpdate, WriteExtend, LockEvent, WriteDelete, ReadWorkflow, ClearApprovals,
           InsertApproval, ReadForHistory, WriteStatus, Decide, CheckFunds, Disburse,
           CommitFunded, Reread, Refund, InsertExpense, WriteActual, FailOnDeleted, Deadlock,
           TimesOut, SetStatus, eventVars
  <2>2. approvals'[f] = approvals[f]
    BY <1>0, <1>1, <1>3
       DEF Continue, WriteUpdate, WriteExtend, LockEvent, WriteDelete, ReadWorkflow, ClearApprovals,
           InsertApproval, ReadForHistory, WriteStatus, Decide, CheckFunds, Disburse,
           CommitFunded, Reread, Refund, InsertExpense, WriteActual, FailOnDeleted,
           Deadlock, TimesOut, eventVars
  <2>3. paidOut'[f] = paidOut[f]
    BY <1>0, <1>3
       DEF Continue, WriteUpdate, WriteExtend, LockEvent, WriteDelete, ReadWorkflow, ClearApprovals,
           InsertApproval, ReadForHistory, WriteStatus, Decide, CheckFunds, Disburse,
           CommitFunded, Reread, Refund, InsertExpense, WriteActual, FailOnDeleted, Deadlock,
           TimesOut, DebitForEvent, CreditForEvent, ledgerVars
  <2>4. QED
    BY <2>1, <2>2, <2>3 DEF SameEvent
<1>4. QED
  BY <1>2, <1>3

LEMMA ContinueLeavesHandlers ==
    ASSUME IInv, OneByOne, NEW s \in Slot, Continue(s) \/ Abort(s), NEW t \in Slot \ {s}
    PROVE  req[s] # Idle /\ req'[t] = req[t]
<1>0. req \in [Slot -> Request]
  BY TablesTyped
<1>1. req[s] # Idle
  BY StopsInFlight
     DEF Continue, WriteUpdate, WriteExtend, LockEvent, WriteDelete, ReadWorkflow, ClearApprovals,
         InsertApproval, ReadForHistory, WriteStatus, Decide, CheckFunds, Disburse,
         CommitFunded, Reread, Refund, InsertExpense, WriteActual, Running, Abort
<1>2. CASE WriteDelete(s) \/ ClearApprovals(s)
  <2>1. PICK r : ForgetRows(s, Ev(s), r)
    BY <1>2 DEF WriteDelete, ClearApprovals
  <2>2. ~(req[t].op = "approve" /\ Ev(t) = Ev(s))
    BY <1>1 DEF OneByOne, Idle
  <2>3. QED
    BY <1>1, <2>1, <2>2 DEF ForgetRows
<1>3. CASE ~(WriteDelete(s) \/ ClearApprovals(s))
  BY <1>0, <1>1, <1>3
     DEF Continue, LockEvent, WriteUpdate, WriteExtend, ReadWorkflow, InsertApproval,
         ReadForHistory, WriteStatus, Decide, CheckFunds, Disburse, CommitFunded, Reread, Refund,
         InsertExpense, WriteActual, FailOnDeleted, Deadlock, TimesOut, Finish, Goto, Abort
<1>4. QED
  BY <1>2, <1>3

LEMMA ContinueStepOf ==
    ASSUME IInv, OneByOne, NEW s \in Slot, Continue(s) \/ Abort(s)
    PROVE  req[s] # Idle /\ StepOf(s, Ev(s))
<1>1. req[s] # Idle
  BY StopsInFlight
     DEF Continue, WriteUpdate, WriteExtend, LockEvent, WriteDelete, ReadWorkflow, ClearApprovals,
         InsertApproval, ReadForHistory, WriteStatus, Decide, CheckFunds, Disburse,
         CommitFunded, Reread, Refund, InsertExpense, WriteActual, Running, Abort
<1>2. \A t \in Slot \ {s} : req'[t] = req[t] /\ (req[t] # Idle => Ev(t) # Ev(s))
  BY <1>1, ContinueLeavesHandlers DEF OneByOne
<1>3. \A f \in Event \ {Ev(s)} : SameEvent(f)
  BY ContinueLeavesEvents
<1>4. QED
  BY <1>1, <1>2, <1>3 DEF StepOf
-----------------------------------------------------------------------------
(* Each step, for its own event *)

LEMMA NeedsKept ==
    ASSUME NEW e, event'[e].budget = event[e].budget, event'[e].creator = event[e].creator
    PROVE  NeedsLeader(e)' <=> NeedsLeader(e)
  BY DEF NeedsLeader

LEMMA FitsStill ==
    ASSUME NEW e \in Event, RowsFit(e), event'[e].status = event[e].status,
           approvals'[e] = approvals[e], NeedsLeader(e)' <=> NeedsLeader(e)
    PROVE  RowsFit(e)'
  BY DEF RowsFit, Status, Laid, AllPending

LEMMA UntouchedFits ==
    ASSUME NEW e \in Event, RowsFit(e), SameEvent(e)
    PROVE  RowsFit(e)'
<1>1. NeedsLeader(e)' <=> NeedsLeader(e)
  BY NeedsKept DEF SameEvent
<1>2. QED
  BY <1>1, FitsStill DEF SameEvent

LEMMA UntouchedKnows ==
    ASSUME NEW t \in Slot, Knows(t), req'[t] = req[t], SameEvent(Ev(t))
    PROVE  Knows(t)'
<1>1. NeedsLeader(Ev(t))' <=> NeedsLeader(Ev(t))
  BY DEF NeedsLeader, Ev, SameEvent
<1>2. Ev(t)' = Ev(t) /\ Status(Ev(t))' = Status(Ev(t)) /\ approvals'[Ev(t)] = approvals[Ev(t)]
  BY DEF Ev, Status, SameEvent
<1>3. (Edits(t) => Edits(t)') /\ (Deletes(t) => Deletes(t)') /\ (Cancels(t) => Cancels(t)')
  BY <1>2 DEF Edits, Deletes, Cancels
<1>4. (Reports(t) => Reports(t)') /\ (Extends(t) => Extends(t)')
      /\ (Settles(t) => Settles(t)') /\ (Views(t) => Views(t)')
  BY <1>2 DEF Reports, Extends, Settles, Views
<1>5. Submits(t) => Submits(t)'
  BY <1>1, <1>2 DEF Submits, Laid, AllPending
<1>6. Approves(t) => Approves(t)'
  BY <1>2 DEF Approves
<1>7. QED
  BY <1>2, <1>3, <1>4, <1>5, <1>6 DEF Knows
\* A call that begins knows what it has just read.
LEMMA BeginsKnowing ==
    ASSUME IInv, SerialInv, NEW s \in Slot, NEW u \in User, NEW e \in Event,
           \/ \E b \in Budget : BeginUpdate(s, u, e, b)
           \/ BeginDelete(s, u, e) \/ BeginSubmit(s, u, e)
           \/ \E v \in ApprovalStatus : BeginApprove(s, u, e, v)
           \/ BeginCancel(s, u, e)
           \/ \E total \in Spending, rest \in Remaining : BeginExpense(s, u, e, total, rest)
           \/ BeginExtend(s, u, e) \/ BeginSettle(s, u, e) \/ BeginView(s, u, e)
    PROVE  Knows(s)'
<1>0. req \in [Slot -> Request] /\ event' = event /\ approvals' = approvals
  BY BeginIsStart, TablesTyped DEF Started, eventVars
<1> DEFINE Has(op, pc, target) ==
             /\ req'[s].op = op /\ req'[s].pc = pc /\ req'[s].target = target /\ req'[s].event = e
<1>1. ASSUME NEW op \in AllOps, NEW pc, NEW target, Start(s, Call(op, u, e, pc, target))
      PROVE  Has(op, pc, target)
  BY <1>0, <1>1 DEF Start, Call, Idle
<1>2. ASSUME NEW b \in Budget, BeginUpdate(s, u, e, b) PROVE Knows(s)'
  <2>1. Has("update", "write", "DRAFT")
    BY <1>0, <1>2 DEF BeginUpdate, MayUpdate, Start, Call, Idle
  <2>2. QED
    BY <1>0, <1>2, <2>1 DEF BeginUpdate, MayUpdate, Knows, Edits, Ev, Status
<1>3. CASE BeginDelete(s, u, e)
  BY <1>0, <1>1, <1>3 DEF BeginDelete, MayDelete, AllOps, Knows, Deletes, Ev, Status
<1>4. CASE BeginSubmit(s, u, e)
  BY <1>0, <1>1, <1>4 DEF BeginSubmit, MaySubmit, AllOps, Knows, Submits, Ev, Status
<1>5. CASE BeginExtend(s, u, e)
  BY <1>0, <1>1, <1>5 DEF BeginExtend, MayExtend, AllOps, Knows, Extends, Ev, Status
<1>6. CASE BeginSettle(s, u, e)
  BY <1>0, <1>1, <1>6 DEF BeginSettle, MaySettle, AllOps, Knows, Settles, Ev, Status
<1>7. CASE BeginView(s, u, e)
  BY <1>0, <1>1, <1>7 DEF BeginView, AllOps, Knows, Views, Ev, Status
<1>8. ASSUME NEW total \in Spending, NEW rest \in Remaining, BeginExpense(s, u, e, total, rest)
      PROVE  Knows(s)'
  <2>1. Has("expense", "expense", "ONGOING")
    BY <1>0, <1>8 DEF BeginExpense, MayReport, Start, Call, Idle
  <2>2. QED
    BY <1>0, <1>8, <2>1 DEF BeginExpense, MayReport, Knows, Reports, Ev, Status
<1>9. CASE BeginCancel(s, u, e)
  <2>1. CASE Start(s, Call("cancel", u, e, "mark", "COMPLETED")) /\ Status(e) = "ONGOING"
    BY <1>0, <1>1, <2>1 DEF AllOps, Knows, Cancels, Ev, Status
  <2>2. CASE Start(s, CancelRequest(u, e)) /\ Status(e) \in Cancelable
    <3>1. CASE Status(e) \in {"FUNDED", "ONGOING"}
      <4>1. Has("cancel", "refund", "CANCELLED")
        BY <1>0, <2>2, <3>1 DEF CancelRequest, Start, Call, Idle
      <4>2. QED
        BY <1>0, <2>2, <3>1, <4>1 DEF Knows, Cancels, Ev, Status
    <3>2. CASE Status(e) \notin {"FUNDED", "ONGOING"}
      <4>1. Has("cancel", "mark", "CANCELLED")
        BY <1>0, <2>2, <3>2 DEF CancelRequest, Start, Call, Idle
      <4>2. QED
        BY <1>0, <2>2, <3>2, <4>1 DEF Knows, Cancels, Ev, Status
    <3>3. QED
      BY <3>1, <3>2
  <2>3. QED
    BY <1>9, <2>1, <2>2 DEF BeginCancel, MayCancel
<1>10. ASSUME NEW v \in ApprovalStatus, BeginApprove(s, u, e, v) PROVE Knows(s)'
  <2> DEFINE pending == {r \in approvals[e] : r.status = "PENDING"}
  <2> DEFINE target(r) == IF v = "REJECTED" THEN "REJECTED"
                          ELSE IF v = "APPROVED" /\ pending = {r} THEN "FUNDED" ELSE "SUBMITTED"
  <2>1. PICK r \in pending : Start(s, [Call("approve", u, e, "decide", target(r)) EXCEPT
                                        !.rows = {r}, !.verdict = v])
    BY <1>10, Zenon DEF BeginApprove, MayApprove, NextStepOf
  <2>2. Status(e) = "SUBMITTED"
    BY <1>10, Zenon DEF BeginApprove, MayApprove, NextStepOf
  <2>3. \A q \in approvals[e] : q.status \in {"PENDING", "APPROVED"}
    <3>1. \A q \in approvals[e] : q.status \in ApprovalStatus /\ q.status # "REJECTED"
      BY <2>2, TablesTyped DEF SerialInv, RowsFit, ApprovalRow
    <3>2. QED
      BY <3>1 DEF ApprovalStatus
  <2> HIDE DEF target
  <2>4. /\ Has("approve", "decide", target(r)) /\ req'[s].rows = {r} /\ req'[s].verdict = v
    BY <1>0, <2>1 DEF Start, Call, Idle
  <2>5. r \in approvals[e] /\ r.status = "PENDING"
    BY <2>1
  <2>6. Approves(s)'
    <3>1. CASE v = "REJECTED"
      BY <1>0, <2>2, <2>4, <2>5, <3>1 DEF Approves, Ev, Status, target
    <3>2. CASE v = "APPROVED" /\ pending = {r}
      <4>1. \A q \in approvals[e] \ {r} : q.status = "APPROVED"
        BY <2>3, <3>2
      <4>2. target(r) = "FUNDED"
        BY <3>2 DEF target
      <4>3. QED
        BY <1>0, <2>2, <2>4, <2>5, <3>2, <4>1, <4>2 DEF Approves, Ev, Status
    <3>3. CASE v = "APPROVED" /\ pending # {r}
      <4>1. \E q \in approvals[e] \ {r} : q.status = "PENDING"
        BY <2>1, <3>3
      <4>2. target(r) = "SUBMITTED"
        BY <3>3 DEF target
      <4>3. QED
        BY <1>0, <2>2, <2>4, <2>5, <3>3, <4>1, <4>2 DEF Approves, Ev, Status
    <3>4. CASE v = "PENDING"
      <4>1. target(r) = "SUBMITTED"
        BY <3>4 DEF target
      <4>2. QED
        BY <1>0, <2>2, <2>4, <2>5, <3>4, <4>1 DEF Approves, Ev, Status
    <3>5. QED
      BY <3>1, <3>2, <3>3, <3>4 DEF ApprovalStatus
  <2>7. QED
    BY <2>4, <2>6 DEF Knows
<1>11. QED
  BY <1>2, <1>3, <1>4, <1>5, <1>6, <1>7, <1>8, <1>9, <1>10
LEMMA KnowsItsOperation ==
    ASSUME NEW s \in Slot, Knows(s)
    PROVE  /\ req[s].op = "update" => Edits(s)
           /\ req[s].op = "delete" => Deletes(s)
           /\ req[s].op = "submit" => Submits(s)
           /\ req[s].op = "approve" => Approves(s)
           /\ req[s].op = "cancel" => Cancels(s)
           /\ req[s].op = "expense" => Reports(s)
           /\ req[s].op = "extend" => Extends(s)
           /\ req[s].op = "settle" => Settles(s)
           /\ req[s].op = "view" => Views(s)
  BY DEF Knows, Edits, Deletes, Submits, Approves, Cancels, Reports, Extends, Settles, Views

LEMMA RunningKnows ==
    ASSUME IInv, SerialInv, NEW s \in Slot, Running(s)
    PROVE  /\ Ev(s) \in Event /\ RowsFit(Ev(s)) /\ Knows(s)
           /\ event[Ev(s)] \in EventRow /\ approvals[Ev(s)] \in SUBSET ApprovalRow
           /\ req[s] \in Request
  BY RunningRow, TablesTyped DEF IInv, SerialInv, Running

\* What a step must leave of its own event and of its own handler.
Kept(s, e) == RowsFit(e)' /\ (req'[s] # Idle => Knows(s)')

LEMMA Ends ==
    ASSUME IInv, NEW s \in Slot, Finish(s), NEW e, RowsFit(e)'
    PROVE  Kept(s, e)
  BY TablesTyped DEF Kept, Finish

LEMMA WriteUpdateKeeps ==
    ASSUME IInv, SerialInv, NEW s \in Slot, NEW e, e = Ev(s), NEW late, WriteUpdate(s, late)
    PROVE  Kept(s, e)
<1>1. e \in Event /\ RowsFit(e) /\ Edits(s) /\ event \in [Event -> EventRow]
  BY RunningKnows, KnowsItsOperation, TablesTyped DEF WriteUpdate, At
<1>2. event'[e].status = event[e].status /\ approvals' = approvals
  BY <1>1 DEF WriteUpdate, EventRow
<1>3. Status(e) \in {"DRAFT", "REJECTED"}
  BY <1>1 DEF Edits, editableStatuses
<1>4. RowsFit(e)'
  BY <1>1, <1>2, <1>3 DEF RowsFit, Status, PaidFor
<1>5. QED
  BY <1>4, Ends DEF WriteUpdate

LEMMA LockEventKeeps ==
    ASSUME IInv, SerialInv, NEW s \in Slot, NEW e, e = Ev(s), LockEvent(s)
    PROVE  Kept(s, e)
<1>1. /\ e \in Event /\ RowsFit(e) /\ Deletes(s) /\ req[s].pc = "write" /\ req[s] \in Request
      /\ event' = event /\ approvals' = approvals
  BY RunningKnows, KnowsItsOperation DEF LockEvent, At, eventVars
<1>2. RowsFit(e)'
  BY <1>1, NeedsKept, FitsStill
<1>3. req'[s].pc = "cascade" /\ req'[s].event = e /\ req'[s].op = req[s].op
  BY <1>1, TablesTyped DEF LockEvent, Goto, Request, RequestOf, Ev
<1>4. Deletes(s)'
  BY <1>1, <1>3 DEF Deletes, Ev, Status
<1>5. QED
  BY <1>2, <1>3, <1>4 DEF Kept, Knows

LEMMA WriteDeleteKeeps ==
    ASSUME IInv, SerialInv, NEW s \in Slot, NEW e, e = Ev(s), WriteDelete(s)
    PROVE  Kept(s, e)
<1>1. e \in Event /\ event \in [Event -> EventRow]
  BY RunningKnows, TablesTyped DEF WriteDelete
<1>2. event'[e].status = "DELETED" /\ req'[s] = Idle
  BY <1>1 DEF WriteDelete, ForgetRows, EventRow
<1>3. RowsFit(e)'
  BY <1>2 DEF RowsFit, Status, PaidFor
<1>4. QED
  BY <1>2, <1>3 DEF Kept

LEMMA WorkflowsAreLaid ==
    ASSUME NEW e, NEW w \in Workflows(e)
    PROVE  Laid(e, w) /\ AllPending(w)
<1>1. \A t \in Treasurers(GroupOfEvent(e)) : RoleOf[t] = "TREASURER"
  BY DEF Treasurers, HoldersOf
<1>2. \A l \in Leaders(GroupOfEvent(e)) : RoleOf[l] = "LEADER"
  BY DEF Leaders, HoldersOf
<1>3. CASE \E t \in Treasurers(GroupOfEvent(e)) : ~NeedsLeader(e) /\ w = {Pending(1, t)}
  BY <1>1, <1>3 DEF Laid, AllPending, Pending
<1>4. CASE \E t \in Treasurers(GroupOfEvent(e)), l \in Leaders(GroupOfEvent(e)) :
             w = {Pending(1, t), Pending(2, l)}
  BY <1>1, <1>2, <1>4 DEF Laid, AllPending, Pending
<1>5. QED
  BY <1>3, <1>4 DEF Workflows

LEMMA ReadWorkflowKeeps ==
    ASSUME IInv, SerialInv, NEW s \in Slot, NEW e, e = Ev(s), ReadWorkflow(s)
    PROVE  Kept(s, e)
<1>1. /\ e \in Event /\ RowsFit(e) /\ Submits(s)
      /\ req \in [Slot -> Request]
  BY RunningKnows, KnowsItsOperation, TablesTyped DEF ReadWorkflow, At
<1>2. SameEvent(e) /\ RowsFit(e)'
  BY <1>1, UntouchedFits DEF ReadWorkflow, SameEvent, eventVars, ledgerVars
<1>3. CASE Finish(s)
  BY <1>2, <1>3, Ends
<1>4. ASSUME NEW w \in Workflows(e), req' = [req EXCEPT ![s].rows = w, ![s].pc = "clear"]
      PROVE  Kept(s, e)
  <2>1. Laid(Ev(s), w) /\ AllPending(w)
    BY <1>4, WorkflowsAreLaid
  <2>2. /\ req'[s].rows = w /\ req'[s].pc = "clear" /\ req'[s].event = req[s].event
        /\ req'[s].op = req[s].op /\ req'[s].target = req[s].target
    BY <1>1, <1>4 DEF Request, RequestOf
  <2>3. NeedsLeader(e)' <=> NeedsLeader(e)
    BY <2>2, <1>2 DEF NeedsLeader, Ev, SameEvent
  <2>4. Submits(s)'
    BY <1>1, <1>2, <2>1, <2>2, <2>3 DEF Submits, Ev, Status, SameEvent, Laid, AllPending
  <2>5. QED
    BY <1>2, <2>2, <2>4 DEF Kept, Knows
<1>5. QED
  BY <1>3, <1>4 DEF ReadWorkflow
LEMMA ClearApprovalsKeeps ==
    ASSUME IInv, SerialInv, NEW s \in Slot, NEW e, e = Ev(s), ClearApprovals(s)
    PROVE  Kept(s, e)
<1>1. e \in Event /\ RowsFit(e) /\ Submits(s) /\ req[s].pc = "clear" /\ req[s] \in Request
  BY RunningKnows, KnowsItsOperation DEF ClearApprovals, At
<1>2. event' = event /\ approvals'[e] = {} /\ req'[s] = [req[s] EXCEPT !.pc = "insert"]
  BY <1>1, TablesTyped DEF ClearApprovals, ForgetRows
<1>3. /\ req'[s].rows = req[s].rows /\ req'[s].pc = "insert" /\ req'[s].event = e
      /\ req'[s].op = "submit" /\ req'[s].target = "SUBMITTED"
  BY <1>1, <1>2 DEF Request, RequestOf, Ev, Submits
<1>4. NeedsLeader(e)' <=> NeedsLeader(e)
  BY <1>2, NeedsKept
<1>5. Status(e) \in {"DRAFT", "REJECTED"} /\ Status(e)' = Status(e)
      /\ Laid(e, req[s].rows) /\ AllPending(req[s].rows)
  BY <1>1, <1>2 DEF Submits, submittableStatuses, Status
<1>6. RowsFit(e)'
  BY <1>2, <1>5 DEF RowsFit, PaidFor, AllPending
<1>7. approvals'[e] \cup req'[s].rows = req[s].rows
  BY <1>2, <1>3
<1>8. Submits(s)'
  BY <1>3, <1>4, <1>5, <1>7 DEF Submits, Ev, submittableStatuses, Laid, AllPending
<1>9. QED
  BY <1>3, <1>6, <1>8 DEF Kept, Knows

LEMMA InsertApprovalKeeps ==
    ASSUME IInv, SerialInv, NEW s \in Slot, NEW e, e = Ev(s), InsertApproval(s)
    PROVE  Kept(s, e)
<1>1. e \in Event /\ RowsFit(e) /\ Submits(s) /\ req[s].pc = "insert" /\ req[s] \in Request
  BY RunningKnows, KnowsItsOperation DEF InsertApproval, At
<1>2. event' = event /\ (NeedsLeader(e)' <=> NeedsLeader(e))
  BY NeedsKept DEF InsertApproval
<1>3. PICK r \in req[s].rows :
        \/ Finish(s) /\ UNCHANGED approvals
        \/ /\ approvals' = [approvals EXCEPT ![Ev(s)] = @ \cup {r}]
           /\ req' = [req EXCEPT ![s].rows = req[s].rows \ {r},
                                 ![s].pc = IF req[s].rows \ {r} = {} THEN "mark" ELSE "insert"]
  BY DEF InsertApproval
<1>4. CASE Finish(s) /\ UNCHANGED approvals
  <2>1. RowsFit(e)'
    BY <1>1, <1>2, <1>4, FitsStill
  <2>2. QED
    BY <1>4, <2>1, Ends
<1>5. CASE /\ approvals' = [approvals EXCEPT ![Ev(s)] = @ \cup {r}]
           /\ req' = [req EXCEPT ![s].rows = req[s].rows \ {r},
                                 ![s].pc = IF req[s].rows \ {r} = {} THEN "mark" ELSE "insert"]
  <2>1. approvals'[e] = approvals[e] \cup {r}
    BY <1>1, <1>5, TablesTyped
  <2>2. /\ req'[s].rows = req[s].rows \ {r} /\ req'[s].event = e
        /\ req'[s].pc = IF req[s].rows \ {r} = {} THEN "mark" ELSE "insert"
        /\ req'[s].op = "submit" /\ req'[s].target = "SUBMITTED"
    BY <1>1, <1>5, TablesTyped DEF Request, RequestOf, Ev, Submits
  <2>3. Status(e) \in {"DRAFT", "REJECTED"} /\ Status(e)' = Status(e)
        /\ Laid(e, approvals[e] \cup req[s].rows) /\ AllPending(approvals[e] \cup req[s].rows)
    BY <1>1, <1>2 DEF Submits, submittableStatuses, Status
  <2>4. approvals'[e] \cup req'[s].rows = approvals[e] \cup req[s].rows
    BY <1>3, <2>1, <2>2
  <2>5. AllPending(approvals[e])'
    BY <1>3, <2>1, <2>3 DEF AllPending
  <2>6. RowsFit(e)'
    BY <2>3, <2>5 DEF RowsFit, PaidFor
  <2>7. Laid(e, approvals[e] \cup req[s].rows)' /\ AllPending(approvals[e] \cup req[s].rows)'
    BY <1>2, <2>3, <2>4 DEF Laid, AllPending
  <2>8. Submits(s)'
    <3>1. CASE req[s].rows \ {r} = {}
      <4>1. approvals'[e] = approvals[e] \cup req[s].rows
        BY <1>3, <2>1, <3>1
      <4>2. Laid(e, approvals[e])' /\ AllPending(approvals[e])'
        BY <1>2, <2>3, <4>1 DEF Laid, AllPending
      <4>3. QED
        BY <2>2, <2>3, <3>1, <4>2 DEF Submits, Ev, submittableStatuses
    <3>2. CASE req[s].rows \ {r} # {}
      BY <2>2, <2>3, <2>7, <3>2 DEF Submits, Ev, submittableStatuses
    <3>3. QED
      BY <3>1, <3>2
  <2>9. QED
    BY <2>2, <2>6, <2>8 DEF Kept, Knows
<1>6. QED
  BY <1>3, <1>4, <1>5

LEMMA ReadForHistoryKeeps ==
    ASSUME IInv, SerialInv, NEW s \in Slot, NEW e, e = Ev(s), ReadForHistory(s)
    PROVE  Kept(s, e)
<1>1. e \in Event /\ RowsFit(e) /\ Knows(s) /\ req[s].pc = "mark" /\ req[s] \in Request
  BY RunningKnows DEF ReadForHistory
<1>2. SameEvent(e)
  BY DEF ReadForHistory, SameEvent, eventVars, ledgerVars
<1>3. RowsFit(e)' /\ (NeedsLeader(e)' <=> NeedsLeader(e))
  BY <1>1, <1>2, UntouchedFits, NeedsKept DEF SameEvent
<1>4. /\ req'[s].event = e /\ req'[s].pc = "set" /\ req'[s].prior = Status(e)
      /\ req'[s].op = req[s].op /\ req'[s].target = req[s].target
  BY <1>1, TablesTyped DEF ReadForHistory, Request, RequestOf, Ev
<1>5. Status(e)' = Status(e) /\ approvals'[e] = approvals[e] /\ Ev(s)' = e
  BY <1>2, <1>4 DEF SameEvent, Status, Ev
<1>6. Submits(s) => Submits(s)'
  BY <1>1, <1>3, <1>4, <1>5 DEF Submits, Laid, AllPending
<1>7. (Cancels(s) => Cancels(s)') /\ (Reports(s) => Reports(s)')
  BY <1>1, <1>4, <1>5 DEF Cancels, Reports
<1>8. (Extends(s) => Extends(s)') /\ (Settles(s) => Settles(s)') /\ (Views(s) => Views(s)')
  BY <1>1, <1>4, <1>5 DEF Extends, Settles, Views
<1>9. ~Edits(s) /\ ~Deletes(s) /\ ~Approves(s)
  BY <1>1 DEF Edits, Deletes, Approves
<1>10. QED
  BY <1>1, <1>3, <1>4, <1>5, <1>6, <1>7, <1>8, <1>9 DEF Kept, Knows

LEMMA WriteStatusKeeps ==
    ASSUME IInv, SerialInv, NEW s \in Slot, NEW e, e = Ev(s), WriteStatus(s)
    PROVE  Kept(s, e)
<1>1. e \in Event /\ RowsFit(e) /\ Knows(s) /\ req[s].pc = "set" /\ req[s] \in Request
      /\ event \in [Event -> EventRow]
  BY RunningKnows, TablesTyped DEF WriteStatus
<1>2. /\ event'[e] = [event[e] EXCEPT !.status = req[s].target] /\ approvals' = approvals
      /\ req'[s] = AfterStatus(req[s])
  BY <1>1, TablesTyped DEF WriteStatus, SetStatus
<1>3. Status(e)' = req[s].target /\ (NeedsLeader(e)' <=> NeedsLeader(e))
  <2>1. event'[e].status = req[s].target /\ event'[e].budget = event[e].budget
        /\ event'[e].creator = event[e].creator
    BY <1>1, <1>2 DEF EventRow
  <2>2. QED
    BY <2>1, NeedsKept DEF Status
<1>4. Idle.pc = "idle" /\ [req[s] EXCEPT !.pc = "refund"].pc = "refund"
      /\ [req[s] EXCEPT !.pc = "reread"].pc = "reread"
  BY <1>1 DEF Idle, Request, RequestOf
<1>5. CASE Submits(s)
  <2>1. RowsFit(e)'
    <3>1. /\ \E r \in approvals[e] : r.status = "PENDING"
          /\ \A r \in approvals[e] : r.status # "REJECTED"
      BY <1>1, <1>5 DEF Submits, Laid, AllPending
    <3>2. QED
      BY <1>1, <1>2, <1>3, <1>5, <3>1 DEF Submits, RowsFit, PaidFor, Laid
  <2>2. req'[s] = Idle
    BY <1>2, <1>5 DEF Submits, AfterStatus
  <2>3. QED
    BY <2>1, <2>2 DEF Kept
<1>6. CASE Cancels(s) /\ req[s].target = "CANCELLED"
  <2>1. RowsFit(e)'
    BY <1>3, <1>6 DEF RowsFit, PaidFor
  <2>2. req'[s] = Idle
    BY <1>2, <1>6 DEF Cancels, AfterStatus
  <2>3. QED
    BY <2>1, <2>2 DEF Kept
\* The others go from one status of a paid event to another.
<1>7. CASE \/ Cancels(s) /\ req[s].target = "COMPLETED"
           \/ Reports(s) \/ Extends(s) \/ Settles(s) \/ Views(s)
  <2>1. Status(e) \in PaidFor /\ req[s].target \in PaidFor \ {"FUNDED"}
    BY <1>1, <1>7 DEF Cancels, Reports, Extends, Settles, Views, PaidFor
  <2>2. RowsFit(e)'
    BY <1>1, <1>2, <1>3, <2>1 DEF RowsFit, PaidFor, Laid
  <2>3. CASE Cancels(s)
    <3>1. req'[s] = [req[s] EXCEPT !.pc = "reread"]
      BY <1>1, <1>2, <1>7, <2>3 DEF Cancels, AfterStatus, Reports, Extends, Settles, Views
    <3>2. req'[s].event = e /\ req'[s].op = "cancel" /\ req'[s].pc = "reread"
          /\ req'[s].target = "COMPLETED" /\ Status(e)' = "COMPLETED"
      BY <1>1, <1>3, <1>7, <2>3, <3>1
         DEF Cancels, Reports, Extends, Settles, Views, Request, RequestOf, Ev
    <3>3. QED
      BY <2>2, <3>2 DEF Kept, Knows, Cancels, Ev
  <2>4. CASE Reports(s)
    <3>1. req'[s] = Idle \/ req'[s] = [req[s] EXCEPT !.pc = "refund"]
      BY <1>2, <2>4 DEF Reports, AfterStatus
    <3>2. CASE req'[s] = [req[s] EXCEPT !.pc = "refund"]
      <4>1. req'[s].event = e /\ req'[s].op = "expense" /\ req'[s].pc = "refund"
            /\ req'[s].target = "ONGOING" /\ Status(e)' = "ONGOING"
        BY <1>1, <1>3, <2>4, <3>2 DEF Reports, Request, RequestOf, Ev
      <4>2. QED
        BY <2>2, <4>1 DEF Kept, Knows, Reports, Ev
    <3>3. QED
      BY <2>2, <3>1, <3>2 DEF Kept
  <2>5. CASE Extends(s) \/ Settles(s) \/ Views(s)
    <3>1. req'[s] = Idle
      BY <1>2, <2>5 DEF Extends, Settles, Views, AfterStatus
    <3>2. QED
      BY <2>2, <3>1 DEF Kept
  <2>6. QED
    BY <1>7, <2>3, <2>4, <2>5
<1>8. ~Edits(s) /\ ~Deletes(s) /\ ~Approves(s)
  BY <1>1 DEF Edits, Deletes, Approves
<1>9. QED
  BY <1>1, <1>5, <1>6, <1>7, <1>8 DEF Knows, Cancels
\* A decision changes the row the handler read and no other.
LEMMA DecidedRow ==
    ASSUME IInv, SerialInv, NEW s \in Slot, NEW e, e = Ev(s), Running(s), req[s].op = "approve"
    PROVE  \E r \in approvals[e] :
             /\ req[s].rows = {r} /\ r.status = "PENDING"
             /\ Decided(s)[e] = (approvals[e] \ {r}) \cup {[r EXCEPT !.status = req[s].verdict]}
<1>1. /\ e \in Event /\ RowsFit(e) /\ Approves(s) /\ approvals[e] \in SUBSET ApprovalRow
  BY RunningKnows, KnowsItsOperation
<1>2. PICK r \in approvals[e] : req[s].rows = {r} /\ r.status = "PENDING"
  BY <1>1 DEF Approves
<1>3. \A q \in approvals[e] : q.step = r.step => q = r
  BY <1>1 DEF Approves, RowsFit, Laid
<1> DEFINE new(q) == IF \E mine \in req[s].rows : mine.step = q.step /\ mine.approver = q.approver
                     THEN [q EXCEPT !.status = req[s].verdict] ELSE q
<1>4. Decided(s)[e] = {new(q) : q \in approvals[e]}
  BY <1>1, TablesTyped DEF Decided
<1>5. new(r) = [r EXCEPT !.status = req[s].verdict] /\ \A q \in approvals[e] \ {r} : new(q) = q
  BY <1>2, <1>3
<1> HIDE DEF new
<1>6. {new(q) : q \in approvals[e]} = (approvals[e] \ {r}) \cup {new(r)}
  BY <1>5
<1>7. QED
  BY <1>2, <1>4, <1>5, <1>6

LEMMA DecidedIsLaid ==
    ASSUME NEW e, NEW rows \in SUBSET ApprovalRow, NEW r \in rows, NEW v, Laid(e, rows),
           NeedsLeader(e)' <=> NeedsLeader(e)
    PROVE  Laid(e, (rows \ {r}) \cup {[r EXCEPT !.status = v]})'
<1> DEFINE q == [r EXCEPT !.status = v]
<1>1. q.step = r.step /\ q.approver = r.approver
  BY DEF ApprovalRow
<1> HIDE DEF q
<1>2. Laid(e, (rows \ {r}) \cup {q})'
  BY <1>1 DEF Laid
<1>3. QED
  BY <1>2 DEF q

LEMMA DecideKeeps ==
    ASSUME IInv, SerialInv, NEW s \in Slot, NEW e, e = Ev(s), Decide(s)
    PROVE  Kept(s, e)
<1>1. /\ e \in Event /\ RowsFit(e) /\ Approves(s) /\ req[s].pc = "decide" /\ req[s] \in Request
      /\ approvals[e] \in SUBSET ApprovalRow /\ event \in [Event -> EventRow]
  BY RunningKnows, KnowsItsOperation, TablesTyped DEF Decide, At
<1>2. Laid(e, approvals[e]) /\ \A q \in approvals[e] : q.status # "REJECTED"
  BY <1>1 DEF Approves, RowsFit
<1>3. CASE Finish(s) /\ UNCHANGED eventVars
  <2>1. RowsFit(e)'
    BY <1>1, <1>3, NeedsKept, FitsStill DEF eventVars
  <2>2. QED
    BY <1>3, <2>1, Ends
<1>4. CASE SetStatus(e, "SUBMITTED", "REJECTED") /\ Finish(s)
  <2>1. Status(e)' = "REJECTED"
    BY <1>1, <1>4 DEF SetStatus, Status, EventRow
  <2>2. RowsFit(e)'
    BY <2>1 DEF RowsFit, PaidFor
  <2>3. QED
    BY <1>4, <2>2, Ends
<1>5. CASE /\ req[s].target = "SUBMITTED" /\ approvals' = Decided(s) /\ Finish(s)
           /\ UNCHANGED event
  <2>1. PICK r \in approvals[e] :
          /\ req[s].rows = {r} /\ r.status = "PENDING"
          /\ Decided(s)[e] = (approvals[e] \ {r}) \cup {[r EXCEPT !.status = req[s].verdict]}
    BY <1>1, DecidedRow DEF Decide, At
  <2>2. \/ req[s].verdict = "PENDING"
        \/ /\ req[s].verdict = "APPROVED"
           /\ \E q \in approvals[e] \ {r} : q.status = "PENDING"
    BY <1>1, <1>5, <2>1 DEF Approves
  <2> DEFINE new == [r EXCEPT !.status = req[s].verdict]
  <2>3. new.status = req[s].verdict
    BY <1>1 DEF ApprovalRow
  <2>4. NeedsLeader(e)' <=> NeedsLeader(e)
    BY <1>5, NeedsKept
  <2>5. approvals'[e] = (approvals[e] \ {r}) \cup {new}
    BY <1>5, <2>1
  <2>5a. PICK rows : rows = approvals[e]
    OBVIOUS
  <2>5b. PICK v : v = req[s].verdict
    OBVIOUS
  <2>6. Laid(e, (rows \ {r}) \cup {[r EXCEPT !.status = v]})'
    BY <1>1, <1>2, <2>1, <2>4, <2>5a, DecidedIsLaid
  <2>7. Laid(e, approvals[e])'
    BY <2>5, <2>5a, <2>5b, <2>6 DEF Laid
  <2>8. Status(e)' = "SUBMITTED"
    BY <1>1, <1>5 DEF Approves, Status
  <2> HIDE DEF new
  <2>9. /\ \A q \in approvals'[e] : q.status # "REJECTED"
        /\ \E q \in approvals'[e] : q.status = "PENDING"
    BY <1>2, <2>2, <2>3, <2>5
  <2>10. RowsFit(e)'
    BY <2>7, <2>8, <2>9 DEF RowsFit, PaidFor
  <2>11. QED
    BY <1>5, <2>10, Ends
<1>6. CASE req[s].target = "FUNDED" /\ Goto(s, "fund") /\ UNCHANGED eventVars
  <2>1. RowsFit(e)'
    BY <1>1, <1>6, NeedsKept, FitsStill DEF eventVars
  <2>2. req'[s] = [req[s] EXCEPT !.pc = "fund"]
    BY <1>6, TablesTyped DEF Goto
  <2>3. /\ req'[s].pc = "fund" /\ req'[s].event = e /\ req'[s].op = req[s].op
        /\ req'[s].target = req[s].target /\ req'[s].rows = req[s].rows
        /\ req'[s].verdict = req[s].verdict
    BY <1>1, <2>2 DEF Request, RequestOf, Ev
  <2>4. Approves(s)'
    BY <1>1, <1>6, <2>3 DEF Approves, Ev, Status, eventVars
  <2>5. QED
    BY <2>1, <2>3, <2>4 DEF Kept, Knows
<1>7. QED
  BY <1>3, <1>4, <1>5, <1>6 DEF Decide

LEMMA PaymentStepKeeps ==
    ASSUME IInv, SerialInv, NEW s \in Slot, NEW e, e = Ev(s), CheckFunds(s) \/ Disburse(s)
    PROVE  Kept(s, e)
<1>1. /\ e \in Event /\ RowsFit(e) /\ Approves(s) /\ req[s] \in Request
      /\ req[s].target = "FUNDED" /\ UNCHANGED eventVars
  <2>1. Running(s) /\ req[s].op = "approve" /\ req[s].pc \in {"fund", "pay"} /\ UNCHANGED eventVars
    BY DEF CheckFunds, Disburse, At
  <2>2. Approves(s)
    BY <2>1, RunningKnows, KnowsItsOperation
  <2>3. req[s].target = "FUNDED"
    BY <2>1, <2>2 DEF Approves
  <2>4. QED
    BY <2>1, <2>2, <2>3, RunningKnows
<1>2. RowsFit(e)'
  BY <1>1, NeedsKept, FitsStill DEF eventVars
<1>3. ASSUME NEW pc \in {"pay", "commit"}, Goto(s, pc) PROVE Kept(s, e)
  <2>1. req'[s] = [req[s] EXCEPT !.pc = pc]
    BY <1>3, TablesTyped DEF Goto
  <2>2. /\ req'[s].pc = pc /\ req'[s].event = e /\ req'[s].op = req[s].op
        /\ req'[s].target = req[s].target /\ req'[s].rows = req[s].rows
        /\ req'[s].verdict = req[s].verdict
    BY <1>1, <2>1 DEF Request, RequestOf, Ev
  <2>3. Approves(s)'
    BY <1>1, <2>2 DEF Approves, Ev, Status, eventVars
  <2>4. QED
    BY <1>2, <2>2, <2>3 DEF Kept, Knows
<1>4. QED
  BY <1>2, <1>3, Ends DEF CheckFunds, Disburse

LEMMA CommitFundedKeeps ==
    ASSUME IInv, SerialInv, NEW s \in Slot, NEW e, e = Ev(s), CommitFunded(s)
    PROVE  Kept(s, e)
<1>1. /\ e \in Event /\ RowsFit(e) /\ Approves(s) /\ req[s].pc = "commit"
      /\ approvals[e] \in SUBSET ApprovalRow /\ event \in [Event -> EventRow]
  BY RunningKnows, KnowsItsOperation, TablesTyped DEF CommitFunded, At
<1>2. Laid(e, approvals[e])
  BY <1>1 DEF Approves, RowsFit
<1>3. PICK r \in approvals[e] :
        /\ req[s].rows = {r}
        /\ Decided(s)[e] = (approvals[e] \ {r}) \cup {[r EXCEPT !.status = req[s].verdict]}
  BY <1>1, DecidedRow DEF CommitFunded, At
<1>4. req[s].verdict = "APPROVED" /\ \A q \in approvals[e] \ {r} : q.status = "APPROVED"
  BY <1>1, <1>3 DEF Approves
<1>5. Status(e)' = "FUNDED" /\ (NeedsLeader(e)' <=> NeedsLeader(e))
  <2>1. event'[e].status = "FUNDED" /\ event'[e].budget = event[e].budget
        /\ event'[e].creator = event[e].creator
    BY <1>1 DEF CommitFunded, SetStatus, EventRow
  <2>2. QED
    BY <2>1, NeedsKept DEF Status
<1>6. approvals'[e] = (approvals[e] \ {r}) \cup {[r EXCEPT !.status = "APPROVED"]}
  BY <1>3, <1>4 DEF CommitFunded
<1>7. \A q \in approvals'[e] : q.status = "APPROVED"
  BY <1>1, <1>4, <1>6 DEF ApprovalRow
<1>8. Laid(e, approvals[e])'
  <2>1. PICK rows : rows = approvals[e]
    OBVIOUS
  <2>2. Laid(e, (rows \ {r}) \cup {[r EXCEPT !.status = "APPROVED"]})'
    BY <1>1, <1>2, <1>5, <2>1, DecidedIsLaid
  <2>3. QED
    BY <1>6, <2>1, <2>2 DEF Laid
<1>9. RowsFit(e)'
  BY <1>5, <1>7, <1>8 DEF RowsFit
<1>10. QED
  BY <1>9, Ends DEF CommitFunded
LEMMA RereadKeeps ==
    ASSUME IInv, SerialInv, NEW s \in Slot, NEW e, e = Ev(s), Reread(s)
    PROVE  Kept(s, e)
<1>1. e \in Event /\ RowsFit(e) /\ Cancels(s) /\ req[s].pc = "reread"
  BY RunningKnows, KnowsItsOperation DEF Reread, At
<1>2. Status(e) \notin Cancelable
  BY <1>1 DEF Cancels, Cancelable
<1>3. req'[s] = Idle
  BY <1>2, TablesTyped DEF Reread
<1>4. RowsFit(e)'
  BY <1>1, NeedsKept, FitsStill DEF Reread, eventVars
<1>5. QED
  BY <1>3, <1>4 DEF Kept

LEMMA RefundKeeps ==
    ASSUME IInv, SerialInv, NEW s \in Slot, NEW e, e = Ev(s), Refund(s)
    PROVE  Kept(s, e)
<1>1. e \in Event /\ RowsFit(e) /\ Knows(s) /\ req[s].pc = "refund" /\ req[s] \in Request
  BY RunningKnows DEF Refund
<1>2. RowsFit(e)'
  BY <1>1, NeedsKept, FitsStill DEF Refund, eventVars
<1>3. CASE req[s].op = "cancel"
  <2>1. req'[s] = [req[s] EXCEPT !.pc = "mark"]
    BY <1>3, TablesTyped DEF Refund, Goto
  <2>2. /\ req'[s].pc = "mark" /\ req'[s].event = e /\ req'[s].op = "cancel"
        /\ req'[s].target = req[s].target
    BY <1>1, <1>3, <2>1 DEF Request, RequestOf, Ev
  <2>3. Cancels(s)
    BY <1>1, <1>3, KnowsItsOperation
  <2>4. Cancels(s)'
    BY <1>1, <2>2, <2>3 DEF Cancels, Ev, Status, Refund, eventVars
  <2>5. QED
    BY <1>2, <2>2, <2>4 DEF Kept, Knows
<1>4. QED
  BY <1>2, <1>3, Ends DEF Refund

LEMMA InsertExpenseKeeps ==
    ASSUME IInv, SerialInv, NEW s \in Slot, NEW e, e = Ev(s), InsertExpense(s)
    PROVE  Kept(s, e)
<1>1. e \in Event /\ RowsFit(e) /\ Reports(s) /\ req[s].pc = "expense" /\ req[s] \in Request
  BY RunningKnows, KnowsItsOperation DEF InsertExpense, At
<1>2. event' = event /\ approvals' = approvals
  BY DEF InsertExpense
<1>3. RowsFit(e)'
  BY <1>1, <1>2, NeedsKept, FitsStill
<1>4. /\ req'[s].pc \in {"expense", "actual"} /\ req'[s].event = e
      /\ req'[s].op = req[s].op /\ req'[s].target = req[s].target
  BY <1>1, TablesTyped DEF InsertExpense, Request, RequestOf, Ev
<1>5. Reports(s)'
  BY <1>1, <1>2, <1>4 DEF Reports, Ev, Status
<1>6. QED
  BY <1>3, <1>4, <1>5 DEF Kept, Knows

LEMMA WriteActualKeeps ==
    ASSUME IInv, SerialInv, NEW s \in Slot, NEW e, e = Ev(s), WriteActual(s)
    PROVE  Kept(s, e)
<1>1. /\ e \in Event /\ RowsFit(e) /\ Reports(s) /\ req[s].pc = "actual" /\ req[s] \in Request
      /\ event \in [Event -> EventRow]
  BY RunningKnows, KnowsItsOperation, TablesTyped DEF WriteActual, At
<1>2. /\ event'[e].status = event[e].status /\ approvals' = approvals
      /\ event'[e].budget = event[e].budget /\ event'[e].creator = event[e].creator
  BY <1>1 DEF WriteActual, EventRow
<1>3. RowsFit(e)'
  BY <1>1, <1>2, NeedsKept, FitsStill
<1>4. /\ req'[s].pc = "mark" /\ req'[s].event = e
      /\ req'[s].op = req[s].op /\ req'[s].target = req[s].target
  BY <1>1, TablesTyped DEF WriteActual, Goto, Request, RequestOf, Ev
<1>5. Reports(s)'
  BY <1>1, <1>2, <1>4 DEF Reports, Ev, Status
<1>6. QED
  BY <1>3, <1>4, <1>5 DEF Kept, Knows

LEMMA WriteExtendKeeps ==
    ASSUME IInv, SerialInv, NEW s \in Slot, NEW e, e = Ev(s), NEW late, WriteExtend(s, late)
    PROVE  Kept(s, e)
<1>1. /\ e \in Event /\ RowsFit(e) /\ Extends(s) /\ req[s].pc = "write" /\ req[s] \in Request
      /\ event \in [Event -> EventRow]
  BY RunningKnows, KnowsItsOperation, TablesTyped DEF WriteExtend, At
<1>2. /\ event'[e].status = event[e].status /\ approvals' = approvals
      /\ event'[e].budget = event[e].budget /\ event'[e].creator = event[e].creator
  BY <1>1 DEF WriteExtend, EventRow
<1>3. RowsFit(e)'
  BY <1>1, <1>2, NeedsKept, FitsStill
<1>4. /\ req'[s].pc = "mark" /\ req'[s].event = e
      /\ req'[s].op = req[s].op /\ req'[s].target = req[s].target
  BY <1>1, TablesTyped DEF WriteExtend, Goto, Request, RequestOf, Ev
<1>5. Extends(s)'
  BY <1>1, <1>2, <1>4 DEF Extends, Ev, Status
<1>6. QED
  BY <1>3, <1>4, <1>5 DEF Kept, Knows

LEMMA StopKeeps ==
    ASSUME IInv, SerialInv, NEW s \in Slot, NEW e, e = Ev(s),
           FailOnDeleted(s) \/ Deadlock(s) \/ TimesOut(s) \/ Abort(s)
    PROVE  Kept(s, e)
<1>1. Finish(s) /\ UNCHANGED eventVars /\ req[s] # Idle
  BY StopsInFlight DEF Abort
<1>2. e \in Event /\ RowsFit(e)
  BY <1>1 DEF IInv, HandlersInv, InFlight, SerialInv
<1>3. RowsFit(e)'
  BY <1>1, <1>2, NeedsKept, FitsStill DEF eventVars
<1>4. QED
  BY <1>1, <1>3, Ends

LEMMA ContinueKeeps ==
    ASSUME IInv, SerialInv, NEW s \in Slot, NEW e, e = Ev(s), Continue(s) \/ Abort(s)
    PROVE  Kept(s, e)
  BY WriteUpdateKeeps, LockEventKeeps, WriteDeleteKeeps, ReadWorkflowKeeps, ClearApprovalsKeeps,
     InsertApprovalKeeps, ReadForHistoryKeeps, WriteStatusKeeps, DecideKeeps, PaymentStepKeeps,
     CommitFundedKeeps, RereadKeeps, RefundKeeps, InsertExpenseKeeps, WriteActualKeeps,
     WriteExtendKeeps, StopKeeps
  DEF Continue

-----------------------------------------------------------------------------
(* Every step *)

\* What a slot's step for event e does to e is all there is to check.
LEMMA OwnEventIsAll ==
    ASSUME IInv, SerialInv, NEW s \in Slot, NEW e \in Event, StepOf(s, e), Kept(s, e)
    PROVE  SerialInv'
<1>1. \A f \in Event : RowsFit(f)'
  BY UntouchedFits DEF SerialInv, StepOf, Kept
<1>2. ASSUME NEW t \in Slot, req'[t] # Idle PROVE Knows(t)'
  <2>1. CASE t = s
    BY <1>2, <2>1 DEF Kept
  <2>2. CASE t # s
    <3>1. req'[t] = req[t] /\ Ev(t) \in Event \ {e} /\ Knows(t)
      BY <1>2, <2>2 DEF StepOf, SerialInv, IInv, HandlersInv, InFlight
    <3>2. SameEvent(Ev(t))
      BY <3>1 DEF StepOf
    <3>3. QED
      BY <3>1, <3>2, UntouchedKnows
  <2>3. QED
    BY <2>1, <2>2
<1>3. QED
  BY <1>1, <1>2 DEF SerialInv

LEMMA SerialInitially == Init => SerialInv
  BY DEF Init, SerialInv, RowsFit, Status, PaidFor, AllPending

LEMMA CreateKeepsSerial ==
    ASSUME IInv, SerialInv, NEW u \in User, NEW e \in Event, NEW b \in Budget, NEW late \in BOOLEAN,
           Create(u, e, b, late)
    PROVE  SerialInv'
<1>1. event' = [event EXCEPT ![e] = [status |-> "DRAFT", creator |-> u, budget |-> b,
                                     actual |-> 0, ended |-> late]]
      /\ UNCHANGED <<approvals, req, expenses, ledgerVars>>
      /\ trail' = [trail EXCEPT ![e] = [prev |-> "DRAFT", new |-> "DRAFT"]]
  BY DEF Create
<1>2. Status(e) = "ABSENT" /\ Status(e)' = "DRAFT"
  BY <1>1, TablesTyped DEF Create, Status
<1>3. \A f \in Event \ {e} : SameEvent(f)
  BY <1>1, TablesTyped DEF SameEvent, ledgerVars
<1>4. RowsFit(e)'
  <2>1. approvals[e] = {}
    BY <1>2 DEF SerialInv, RowsFit
  <2>2. QED
    BY <1>1, <1>2, <2>1 DEF RowsFit, PaidFor, AllPending
<1>5. ASSUME NEW t \in Slot, req'[t] # Idle PROVE Knows(t)'
  <2>1. req'[t] = req[t] /\ Ev(t) \in Event \ {e} /\ Knows(t)
    BY <1>1, <1>2, <1>5 DEF SerialInv, IInv, HandlersInv, InFlight
  <2>2. SameEvent(Ev(t))
    BY <1>3, <2>1
  <2>3. QED
    BY <2>1, <2>2, UntouchedKnows
<1>6. \A f \in Event : RowsFit(f)'
  BY <1>3, <1>4, UntouchedFits DEF SerialInv
<1>7. QED
  BY <1>5, <1>6 DEF SerialInv
LEMMA EndDateKeepsSerial ==
    ASSUME IInv, SerialInv, NEW e \in Event, EndDatePasses(e)
    PROVE  SerialInv'
<1>1. /\ UNCHANGED <<approvals, req>>
      /\ \A f \in Event : /\ event'[f].status = event[f].status
                          /\ event'[f].budget = event[f].budget
                          /\ event'[f].creator = event[f].creator
  BY TablesTyped DEF EndDatePasses, EventRow
<1>2. \A f \in Event : NeedsLeader(f)' <=> NeedsLeader(f)
  BY <1>1, NeedsKept
<1>3. \A f \in Event : RowsFit(f)'
  BY <1>1, <1>2, FitsStill DEF SerialInv
<1>4. ASSUME NEW t \in Slot, req'[t] # Idle PROVE Knows(t)'
  <2>1. req'[t] = req[t] /\ Ev(t) \in Event /\ Knows(t)
    BY <1>1, <1>4 DEF SerialInv, IInv, HandlersInv, InFlight
  <2>2. PICK f \in Event : f = Ev(t)
    BY <2>1
  <2>3. Ev(t)' = f /\ Status(f)' = Status(f) /\ (NeedsLeader(f)' <=> NeedsLeader(f))
    BY <1>1, <1>2, <2>1, <2>2 DEF Ev, Status
  <2>4. (Edits(t) => Edits(t)') /\ (Deletes(t) => Deletes(t)') /\ (Cancels(t) => Cancels(t)')
    BY <2>1, <2>2, <2>3 DEF Edits, Deletes, Cancels
  <2>5. (Reports(t) => Reports(t)') /\ (Extends(t) => Extends(t)')
        /\ (Settles(t) => Settles(t)') /\ (Views(t) => Views(t)')
    BY <2>1, <2>2, <2>3 DEF Reports, Extends, Settles, Views
  <2>6. Submits(t) => Submits(t)'
    BY <1>1, <2>1, <2>2, <2>3 DEF Submits, Laid, AllPending
  <2>7. Approves(t) => Approves(t)'
    BY <1>1, <2>1, <2>2, <2>3 DEF Approves
  <2>8. QED
    BY <2>1, <2>2, <2>3, <2>4, <2>5, <2>6, <2>7 DEF Knows
<1>5. QED
  BY <1>3, <1>4 DEF SerialInv

\* A step of a handler belongs to one event.
LEMMA HandlerStepOf ==
    ASSUME IInv, OneByOne, OneByOne', NEW s \in Slot, Begin(s) \/ Continue(s) \/ Abort(s)
    PROVE  \E e \in Event : /\ StepOf(s, e)
                            /\ \/ (Continue(s) \/ Abort(s)) /\ e = Ev(s)
                               \/ \E u \in User : Started(s, u, e)
<1>1. CASE Begin(s)
  <2>1. PICK u \in User, e \in Event : Started(s, u, e)
    BY <1>1, BeginIsStart DEF Begin
  <2>2. QED
    BY <2>1, StartedStep
<1>2. CASE Continue(s) \/ Abort(s)
  <2>1. req[s] # Idle /\ StepOf(s, Ev(s))
    BY <1>2, ContinueStepOf
  <2>2. QED
    BY <1>2, <2>1 DEF IInv, HandlersInv, InFlight
<1>3. QED
  BY <1>1, <1>2

LEMMA SerialStep ==
    ASSUME IInv, SerialInv, OneByOne, OneByOne', [Next]_vars
    PROVE  SerialInv'
<1>1. CASE UNCHANGED vars
  <2>1. \A f \in Event : SameEvent(f)
    BY <1>1 DEF vars, SameEvent, ledgerVars
  <2>2. \A f \in Event : RowsFit(f)'
    BY <2>1, UntouchedFits DEF SerialInv
  <2>3. \A t \in Slot : req'[t] # Idle => Knows(t)'
    BY <1>1, <2>1, UntouchedKnows DEF SerialInv, IInv, HandlersInv, InFlight, vars
  <2>4. QED
    BY <2>2, <2>3 DEF SerialInv
<1>2. CASE Environment
  BY <1>2, CreateKeepsSerial, EndDateKeepsSerial DEF Environment
<1>3. ASSUME NEW s \in Slot, Begin(s) PROVE SerialInv'
  <2>1. PICK u \in User, e \in Event :
          \/ \E b \in Budget : BeginUpdate(s, u, e, b)
          \/ BeginDelete(s, u, e) \/ BeginSubmit(s, u, e)
          \/ \E v \in ApprovalStatus : BeginApprove(s, u, e, v)
          \/ BeginCancel(s, u, e)
          \/ \E total \in Spending, rest \in Remaining : BeginExpense(s, u, e, total, rest)
          \/ BeginExtend(s, u, e) \/ BeginSettle(s, u, e) \/ BeginView(s, u, e)
    BY <1>3 DEF Begin
  <2>2. Started(s, u, e) /\ StepOf(s, e) /\ Knows(s)'
    BY <2>1, BeginIsStart, StartedStep, BeginsKnowing
  <2>3. RowsFit(e)'
    BY <2>2, UntouchedFits DEF SerialInv, Started, SameEvent, eventVars, ledgerVars
  <2>4. QED
    BY <2>2, <2>3, OwnEventIsAll DEF Kept
<1>4. ASSUME NEW s \in Slot, Continue(s) \/ Abort(s) PROVE SerialInv'
  <2>1. PICK e \in Event : e = Ev(s)
    BY <1>4, ContinueStepOf DEF IInv, HandlersInv, InFlight
  <2>2. StepOf(s, e) /\ Kept(s, e)
    BY <1>4, <2>1, ContinueStepOf, ContinueKeeps
  <2>3. QED
    BY <2>2, OwnEventIsAll
<1>5. QED
  BY <1>1, <1>2, <1>3, <1>4 DEF Next

LEMMA SerialHolds == Spec /\ []OneByOne => [](IInv /\ SerialInv)
<1>1. Init => IInv /\ SerialInv
  BY Initially, SerialInitially
<1>2. IInv /\ SerialInv /\ OneByOne /\ OneByOne' /\ [Next]_vars => (IInv /\ SerialInv)'
  BY Step, SerialStep
<1>3. QED
  BY <1>1, <1>2, PTL DEF Spec

(***************************************************************************)
(* While the handlers of an event run one after the other, it is paid out   *)
(* only after its treasurer's step is approved and, for an administrator's  *)
(* event above the threshold, the leader's too: a budget edited between two *)
(* submissions, a handler that dies between two writes or a workflow left   *)
(* half laid out by one does not get an event past a step.                  *)
(***************************************************************************)
THEOREM PaidAfterApproval == Spec /\ []OneByOne => []FundedIsApproved
<1>1. SerialInv => FundedIsApproved
  <2> SUFFICES ASSUME SerialInv, NEW e \in Event, Status(e) \in PaidFor
               PROVE  /\ \E r \in approvals[e] : r.step = 1 /\ r.status = "APPROVED"
                                                /\ RoleOf[r.approver] = "TREASURER"
                      /\ NeedsLeader(e) =>
                           \E r \in approvals[e] : r.step = 2 /\ r.status = "APPROVED"
                                                   /\ RoleOf[r.approver] = "LEADER"
    BY DEF FundedIsApproved
  <2>1. Laid(e, approvals[e]) /\ \A r \in approvals[e] : r.status = "APPROVED"
    BY DEF SerialInv, RowsFit
  <2>2. QED
    BY <2>1 DEF Laid
<1>2. QED
  BY <1>1, SerialHolds, PTL

(***************************************************************************)
(* Under the same condition a submitted event always waits for someone who  *)
(* may decide its next step.                                                *)
(***************************************************************************)
THEOREM SubmittedIsAnswerable == Spec /\ []OneByOne => []SubmittedHasReviewer
<1>1. IInv /\ SerialInv => SubmittedHasReviewer
  <2> SUFFICES ASSUME IInv, SerialInv, NEW e \in Event, Status(e) = "SUBMITTED"
               PROVE  \E r \in approvals[e] : r.status = "PENDING" /\ r.approver \in Reviewers
    BY DEF SubmittedHasReviewer
  <2>1. PICK r \in approvals[e] : r.status = "PENDING"
    BY DEF SerialInv, RowsFit
  <2>2. RoleOf[r.approver] \in {"TREASURER", "LEADER"} /\ r.approver \in User
    BY TablesTyped DEF SerialInv, RowsFit, Laid, ApprovalRow
  <2>3. QED
    BY <2>1, <2>2 DEF Reviewers
<1>2. QED
  BY <1>1, SerialHolds, PTL
-----------------------------------------------------------------------------
(* The decisions, step by step *)

DecisionsStay(e) ==
    \A r \in approvals[e] :
        r.status # "PENDING" /\ r \notin approvals'[e] => Status(e) = "REJECTED"

LEMMA QuietStepFits ==
    ASSUME NEW e, approvals[e] \subseteq approvals'[e]
    PROVE  DecisionsStay(e)
  BY DEF DecisionsStay

LEMMA DecisionFits ==
    ASSUME IInv, SerialInv, NEW s \in Slot, NEW e, e = Ev(s), Decide(s) \/ CommitFunded(s)
    PROVE  DecisionsStay(e)
<1>1. Approves(s) /\ Running(s) /\ req[s].op = "approve"
  BY RunningKnows, KnowsItsOperation DEF Decide, CommitFunded, At
<1>2. PICK r \in approvals[e] :
        /\ r.status = "PENDING"
        /\ Decided(s)[e] = (approvals[e] \ {r}) \cup {[r EXCEPT !.status = req[s].verdict]}
  BY <1>1, DecidedRow
<1>3. approvals' = approvals \/ approvals' = Decided(s)
  BY DEF Decide, CommitFunded, eventVars
<1>4. QED
  BY <1>2, <1>3 DEF DecisionsStay

LEMMA RemovalFits ==
    ASSUME IInv, SerialInv, NEW s \in Slot, NEW e, e = Ev(s), WriteDelete(s) \/ ClearApprovals(s)
    PROVE  DecisionsStay(e)
<1>1. e \in Event /\ RowsFit(e) /\ Status(e) \in {"DRAFT", "REJECTED"}
  <2>1. Running(s) /\ req[s].op \in {"delete", "submit"}
    BY DEF WriteDelete, ClearApprovals, At
  <2>2. QED
    BY <2>1, RunningKnows, KnowsItsOperation DEF Deletes, Submits, submittableStatuses
<1>2. QED
  BY <1>1 DEF DecisionsStay, RowsFit, AllPending

LEMMA ContinueFits ==
    ASSUME IInv, SerialInv, NEW s \in Slot, NEW e \in Event, e = Ev(s), Continue(s) \/ Abort(s)
    PROVE  DecisionsStay(e)
<1>1. CASE Abort(s) \/ FailOnDeleted(s) \/ Deadlock(s) \/ TimesOut(s)
  BY <1>1, QuietStepFits DEF Abort, FailOnDeleted, Deadlock, TimesOut, eventVars
<1>2. CASE \E late \in BOOLEAN : WriteUpdate(s, late) \/ WriteExtend(s, late)
  BY <1>2, QuietStepFits DEF WriteUpdate, WriteExtend
<1>3. CASE InsertApproval(s)
  <2>1. approvals[e] \subseteq approvals'[e]
    BY <1>3, TablesTyped DEF InsertApproval
  <2>2. QED
    BY <2>1, QuietStepFits
<1>4. CASE LockEvent(s) \/ ReadWorkflow(s) \/ ReadForHistory(s) \/ WriteStatus(s) \/ CheckFunds(s)
           \/ Disburse(s) \/ Reread(s) \/ Refund(s)
  BY <1>4, QuietStepFits DEF LockEvent, ReadWorkflow, ReadForHistory, WriteStatus, CheckFunds,
                             Disburse, Reread, Refund, eventVars
<1>5. CASE InsertExpense(s) \/ WriteActual(s)
  BY <1>5, QuietStepFits DEF InsertExpense, WriteActual
<1>6. QED
  BY <1>1, <1>2, <1>3, <1>4, <1>5, DecisionFits, RemovalFits DEF Continue

LEMMA EveryStepFits ==
    ASSUME IInv, SerialInv, [Next]_vars, NEW e \in Event
    PROVE  DecisionsStay(e)
<1>1. CASE UNCHANGED vars
  BY <1>1, QuietStepFits DEF vars
<1>2. CASE Environment
  BY <1>2, QuietStepFits DEF Environment, Create, EndDatePasses
<1>3. ASSUME NEW s \in Slot, Begin(s) PROVE DecisionsStay(e)
  BY <1>3, BeginReads, QuietStepFits DEF eventVars
<1>4. ASSUME NEW s \in Slot, Continue(s) \/ Abort(s) PROVE DecisionsStay(e)
  <2>1. CASE e = Ev(s)
    BY <1>4, <2>1, ContinueFits
  <2>2. CASE e # Ev(s)
    BY <1>4, <2>2, ContinueLeavesEvents, QuietStepFits DEF SameEvent
  <2>3. QED
    BY <2>1, <2>2
<1>5. QED
  BY <1>1, <1>2, <1>3, <1>4 DEF Next

(***************************************************************************)
(* While the handlers of an event run one after the other, a recorded       *)
(* decision is lost or changed only by laying out the steps of a rejected   *)
(* event anew.                                                              *)
(***************************************************************************)
THEOREM DecisionsOfSerialEvents == Spec /\ []OneByOne => DecisionsAreKept
<1>1. ASSUME IInv, SerialInv, [Next]_vars, NEW e \in Event, NEW r \in approvals[e],
             r.status # "PENDING", r \notin approvals'[e]
      PROVE  Status(e) = "REJECTED"
  BY <1>1, EveryStepFits DEF DecisionsStay
<1>2. IInv /\ SerialInv /\ [Next]_vars =>
        [\A e \in Event : \A r \in approvals[e] :
            r.status # "PENDING" /\ r \notin approvals'[e] => Status(e) = "REJECTED"]_vars
  BY <1>1
<1>3. QED
  BY <1>2, SerialHolds, PTL DEF Spec, DecisionsAreKept
-----------------------------------------------------------------------------
(* The money of an event whose handlers all come to their end *)

NobodyDies == aborts = 0

\* What has been paid and reported while no handler works on the event.
Calm(e) ==
    /\ Status(e) \in {"ABSENT", "DRAFT", "SUBMITTED", "REJECTED", "DELETED"} =>
         paidOut[e] = 0 /\ expenses[e] = 0
    /\ Status(e) = "FUNDED" => paidOut[e] = event[e].budget /\ expenses[e] = 0
    /\ Status(e) \in {"ONGOING", "COMPLETED", "SETTLED"} =>
         /\ paidOut[e] <= event[e].budget /\ paidOut[e] - expenses[e] <= Tolerance
         /\ event[e].actual = expenses[e]
    /\ Status(e) = "CANCELLED" => paidOut[e] <= 0

\* The last approval: the payment commits before the status.
Paying(s) ==
    /\ req[s].budget = event[Ev(s)].budget
    /\ IF req[s].pc = "commit"
       THEN paidOut[Ev(s)] = event[Ev(s)].budget /\ expenses[Ev(s)] = 0
       ELSE Calm(Ev(s))

\* A cancellation: the refund commits before the status.
Returning(s) ==
    /\ req[s].pc = "refund" => req[s].amount = event[Ev(s)].budget
    /\ IF /\ req[s].target = "CANCELLED" /\ req[s].pc \in {"mark", "set"}
          /\ Status(Ev(s)) \in {"FUNDED", "ONGOING"}
       THEN paidOut[Ev(s)] <= 0
       ELSE Calm(Ev(s))

\* A report: item by item, then the total, then the status, then the refund.
Reporting(s) ==
    LET e == Ev(s) IN
    /\ req[s].spent \in Spending /\ Balanced(req[s].spent, req[s].amount, event[e].budget)
    /\ paidOut[e] = event[e].budget
    /\ expenses[e] = IF req[s].pc = "expense" THEN req[s].spent - req[s].left ELSE req[s].spent
    /\ req[s].pc \in {"mark", "set", "refund"} => event[e].actual = req[s].spent
    /\ req[s].pc = "refund" => req[s].amount > 0

MoneyKnown(s) ==
    /\ req[s].op = "approve" => Paying(s)
    /\ req[s].op = "cancel" => Returning(s)
    /\ req[s].op = "expense" => Reporting(s)
    /\ req[s].op \notin {"approve", "cancel", "expense"} => Calm(Ev(s))

MoneyInv ==
    /\ \A e \in Event : Quiet(e) => Calm(e)
    /\ \A s \in Slot : req[s] # Idle => MoneyKnown(s)

\* What Calm and MoneyKnown read of event e.
SameMoney(e) ==
    /\ event'[e].status = event[e].status /\ event'[e].budget = event[e].budget
    /\ event'[e].actual = event[e].actual
    /\ expenses'[e] = expenses[e] /\ paidOut'[e] = paidOut[e]

LEMMA MoneyTyped ==
    ASSUME IInv, NEW e \in Event
    PROVE  /\ event[e] \in EventRow /\ event[e].budget \in Nat
           /\ expenses[e] \in Nat /\ paidOut[e] \in Int /\ Tolerance \in Nat
  BY TablesTyped, LifecycleAssumption DEF EventRow

LEMMA CalmStays ==
    ASSUME NEW e, Calm(e), SameMoney(e)
    PROVE  Calm(e)'
  BY DEF Calm, SameMoney, Status

LEMMA MoneyKnownStays ==
    ASSUME NEW t \in Slot, NEW e, e = Ev(t), MoneyKnown(t), req'[t] = req[t], SameMoney(e)
    PROVE  MoneyKnown(t)'
<1>1. Ev(t)' = e /\ Status(e)' = Status(e) /\ (Calm(e) => Calm(e)')
  BY CalmStays DEF Ev, Status, SameMoney
<1>2. Paying(t) => Paying(t)'
  BY <1>1 DEF Paying, SameMoney
<1>3. Returning(t) => Returning(t)'
  BY <1>1 DEF Returning, SameMoney
<1>4. Reporting(t) => Reporting(t)'
  BY <1>1 DEF Reporting, Balanced, SameMoney
<1>5. QED
  BY <1>1, <1>2, <1>3, <1>4 DEF MoneyKnown

\* What a step of the handler in s must leave of the money of its event.
MoneyKept(s, e) ==
    IF req'[s] = Idle THEN Calm(e)' ELSE MoneyKnown(s)' /\ req'[s].event = e

\* The handler ends, or goes on with an operation that moves no money.
LEMMA EndsCalm ==
    ASSUME IInv, NEW s \in Slot, NEW e, Calm(e)',
           Finish(s) \/ req'[s] = Idle \/
             (req'[s].event = e /\ req'[s].op \notin {"approve", "cancel", "expense"})
    PROVE  MoneyKept(s, e)
<1>1. req'[s] = Idle \/
        (req'[s].event = e /\ req'[s].op \notin {"approve", "cancel", "expense"})
  BY TablesTyped DEF Finish
<1>2. QED
  BY <1>1 DEF MoneyKept, MoneyKnown, Ev

LEMMA RunningMoney ==
    ASSUME IInv, SerialInv, MoneyInv, NEW s \in Slot, Running(s)
    PROVE  /\ MoneyKnown(s)
           /\ req[s].op = "approve" => Paying(s) /\ Approves(s)
           /\ req[s].op = "cancel" => Returning(s) /\ Cancels(s)
           /\ req[s].op = "expense" => Reporting(s) /\ Reports(s)
           /\ req[s].op \notin {"approve", "cancel", "expense"} => Calm(Ev(s))
           /\ Ev(s) \in Event /\ req[s] \in Request
  BY RunningKnows, KnowsItsOperation DEF Running, MoneyInv, MoneyKnown

LEMMA DraftMoney ==
    ASSUME IInv, SerialInv, MoneyInv, NEW s \in Slot, NEW e, e = Ev(s),
           WriteDelete(s) \/ \E late : WriteUpdate(s, late)
    PROVE  MoneyKept(s, e)
<1>1. e \in Event /\ Calm(e) /\ Status(e) \in {"DRAFT", "REJECTED"}
  BY RunningMoney, RunningKnows, KnowsItsOperation
     DEF WriteUpdate, WriteDelete, At, Edits, Deletes, editableStatuses
<1>2. event'[e].status \in {event[e].status, "DELETED"}
  BY <1>1, TablesTyped DEF WriteUpdate, WriteDelete, EventRow
<1>3. req'[s] = Idle /\ paidOut' = paidOut /\ expenses' = expenses
  BY TablesTyped DEF WriteUpdate, WriteDelete, Finish, ForgetRows, ledgerVars
<1>4. Calm(e)'
  BY <1>1, <1>2, <1>3 DEF Calm, Status
<1>5. QED
  BY <1>3, <1>4 DEF MoneyKept

LEMMA LockEventMoney ==
    ASSUME IInv, SerialInv, MoneyInv, NEW s \in Slot, NEW e, e = Ev(s), LockEvent(s)
    PROVE  MoneyKept(s, e)
<1>1. e \in Event /\ req[s] \in Request /\ Calm(e) /\ req[s].op = "delete"
  BY RunningMoney DEF LockEvent, At
<1>2. SameMoney(e)
  BY <1>1 DEF LockEvent, eventVars, ledgerVars, SameMoney
<1>3. req'[s] = [req[s] EXCEPT !.pc = "cascade"]
  BY TablesTyped DEF LockEvent, Goto
<1>4. req'[s].op = "delete" /\ req'[s].event = e
  BY <1>1, <1>3 DEF Request, RequestOf, Ev
<1>5. QED
  BY <1>1, <1>2, <1>4, CalmStays, EndsCalm

LEMMA SubmitMoney ==
    ASSUME IInv, SerialInv, MoneyInv, NEW s \in Slot, NEW e, e = Ev(s),
           ReadWorkflow(s) \/ ClearApprovals(s) \/ InsertApproval(s)
    PROVE  MoneyKept(s, e)
<1>1. e \in Event /\ Calm(e) /\ req[s].op = "submit" /\ req[s] \in Request
  BY RunningMoney DEF ReadWorkflow, ClearApprovals, InsertApproval, At
<1>2. SameMoney(e)
  BY DEF ReadWorkflow, ClearApprovals, InsertApproval, eventVars, ledgerVars, SameMoney
<1>3. req'[s] = Idle \/ (req'[s].event = e /\ req'[s].op = "submit")
  <2>1. CASE ReadWorkflow(s)
    <3>1. req'[s] = Idle \/ \E w : req'[s] = [req[s] EXCEPT !.rows = w, !.pc = "clear"]
      BY <2>1, TablesTyped DEF ReadWorkflow, Finish
    <3>2. QED
      BY <1>1, <3>1 DEF Request, RequestOf, Ev
  <2>2. CASE ClearApprovals(s)
    <3>1. req'[s] = [req[s] EXCEPT !.pc = "insert"]
      BY <2>2 DEF ClearApprovals, ForgetRows
    <3>2. QED
      BY <1>1, <3>1 DEF Request, RequestOf, Ev
  <2>3. CASE InsertApproval(s)
    <3>1. \/ Finish(s)
          \/ \E rest, pc : req' = [req EXCEPT ![s].rows = rest, ![s].pc = pc]
      BY <2>3, Zenon DEF InsertApproval
    <3>2. CASE Finish(s)
      BY <3>2, TablesTyped DEF Finish
    <3>3. CASE \E rest, pc : req' = [req EXCEPT ![s].rows = rest, ![s].pc = pc]
      BY <1>1, <3>3, TablesTyped DEF Request, RequestOf, Ev
    <3>4. QED
      BY <3>1, <3>2, <3>3
  <2>4. QED
    BY <2>1, <2>2, <2>3
<1>4. QED
  BY <1>1, <1>2, <1>3, CalmStays, EndsCalm

LEMMA ReadForHistoryMoney ==
    ASSUME IInv, SerialInv, MoneyInv, NEW s \in Slot, NEW e, e = Ev(s), ReadForHistory(s)
    PROVE  MoneyKept(s, e)
<1>1. e \in Event /\ req[s] \in Request /\ req[s].pc = "mark"
      /\ MoneyKnown(s) /\ req[s].op # "approve"
  BY RunningMoney DEF ReadForHistory, Approves
<1>2. SameMoney(e)
  BY DEF ReadForHistory, eventVars, ledgerVars, SameMoney
<1>3. req'[s] = [req[s] EXCEPT !.prior = Status(e), !.pc = "set"]
  BY TablesTyped DEF ReadForHistory
<1>4. /\ req'[s].pc = "set" /\ req'[s].event = e /\ req'[s].op = req[s].op
      /\ req'[s].target = req[s].target /\ req'[s].amount = req[s].amount
      /\ req'[s].spent = req[s].spent
  BY <1>1, <1>3 DEF Request, RequestOf, Ev
<1>5. Ev(s)' = e /\ Status(e)' = Status(e) /\ (Calm(e) => Calm(e)')
  BY <1>2, <1>4, CalmStays DEF Ev, Status, SameMoney
<1>6. Returning(s) => Returning(s)'
  BY <1>1, <1>2, <1>4, <1>5 DEF Returning, SameMoney
<1>7. Reporting(s) => Reporting(s)'
  BY <1>1, <1>2, <1>4, <1>5 DEF Reporting, Balanced, SameMoney
<1>8. MoneyKnown(s)' /\ req'[s].event = e /\ req'[s] # Idle
  BY <1>1, <1>4, <1>5, <1>6, <1>7 DEF MoneyKnown, Idle
<1>9. QED
  BY <1>8 DEF MoneyKept

LEMMA WriteStatusMoney ==
    ASSUME IInv, SerialInv, MoneyInv, NEW s \in Slot, NEW e, e = Ev(s), WriteStatus(s)
    PROVE  MoneyKept(s, e)
<1>1. e \in Event /\ req[s] \in Request /\ req[s].pc = "set" /\ Knows(s) /\ RowsFit(e)
      /\ MoneyKnown(s)
  BY RunningMoney, RunningKnows DEF WriteStatus
<1>2. /\ event'[e].status = req[s].target /\ event'[e].budget = event[e].budget
      /\ event'[e].actual = event[e].actual
      /\ paidOut' = paidOut /\ expenses' = expenses
      /\ req'[s] = AfterStatus(req[s])
  BY <1>1, TablesTyped DEF WriteStatus, SetStatus, EventRow, ledgerVars
<1>3. Status(e)' = req[s].target
  BY <1>2 DEF Status
<1>4. CASE Submits(s)
  <2>1. Calm(e) /\ Status(e) \in {"DRAFT", "REJECTED"} /\ req[s].target = "SUBMITTED"
        /\ req'[s] = Idle
    BY <1>1, <1>2, <1>4 DEF Submits, submittableStatuses, MoneyKnown, AfterStatus
  <2>2. Calm(e)'
    BY <1>2, <1>3, <2>1 DEF Calm
  <2>3. QED
    BY <2>1, <2>2 DEF MoneyKept
<1>5. CASE Cancels(s) /\ req[s].target = "CANCELLED"
  <2>1. Status(e) \in Cancelable /\ Returning(s) /\ req'[s] = Idle
    BY <1>1, <1>2, <1>5 DEF Cancels, MoneyKnown, AfterStatus
  <2>2. paidOut[e] <= 0
    BY <1>1, <1>5, <2>1, MoneyTyped DEF Returning, Calm, Cancelable, EventStatus, RowsFit
  <2>3. Calm(e)'
    BY <1>2, <1>3, <1>5, <2>2 DEF Calm
  <2>4. QED
    BY <2>1, <2>3 DEF MoneyKept
<1>6. CASE Cancels(s) /\ req[s].target = "COMPLETED"
  <2>1. Status(e) = "ONGOING" /\ Calm(e) /\ req[s].op = "cancel"
    BY <1>1, <1>6 DEF Cancels, MoneyKnown, Returning
  <2>2. Calm(e)'
    BY <1>2, <1>3, <1>6, <2>1 DEF Calm
  <2>3. req'[s] = [req[s] EXCEPT !.pc = "reread"]
    BY <1>2, <1>6, <2>1 DEF AfterStatus
  <2>4. /\ req'[s].pc = "reread" /\ req'[s].op = "cancel" /\ req'[s].event = e
    BY <1>1, <2>1, <2>3 DEF Request, RequestOf, Ev
  <2>5. MoneyKnown(s)'
    BY <2>2, <2>4 DEF MoneyKnown, Returning, Ev
  <2>6. QED
    BY <2>2, <2>4, <2>5 DEF MoneyKept
<1>7. CASE Reports(s)
  <2>1. Reporting(s) /\ req[s].target = "ONGOING" /\ req[s].op = "expense"
    BY <1>1, <1>7 DEF Reports, MoneyKnown
  <2>2. /\ paidOut[e] = event[e].budget /\ expenses[e] = req[s].spent
        /\ event[e].actual = req[s].spent
        /\ req[s].spent \in Spending /\ Balanced(req[s].spent, req[s].amount, event[e].budget)
    BY <1>1, <2>1 DEF Reporting
  <2>3. CASE req[s].amount > 0
    <3>1. req'[s] = [req[s] EXCEPT !.pc = "refund"]
      BY <1>2, <2>1, <2>3 DEF AfterStatus
    <3>2. /\ req'[s].pc = "refund" /\ req'[s].op = "expense" /\ req'[s].event = e
          /\ req'[s].amount = req[s].amount /\ req'[s].spent = req[s].spent
      BY <1>1, <2>1, <3>1 DEF Request, RequestOf, Ev
    <3>3. Reporting(s)'
      BY <1>2, <2>2, <2>3, <3>2 DEF Reporting, Ev, Balanced
    <3>4. QED
      BY <3>2, <3>3 DEF MoneyKept, MoneyKnown, Idle
  <2>4. CASE ~(req[s].amount > 0)
    <3>1. req'[s] = Idle
      BY <1>2, <2>1, <2>4 DEF AfterStatus
    <3>2. req[s].amount \in Int /\ req[s].amount <= 0
      BY <1>1, <2>4 DEF Request, RequestOf
    <3>3. paidOut[e] <= event[e].budget /\ paidOut[e] - expenses[e] <= Tolerance
      BY <1>1, <2>2, <3>2, MoneyTyped, LifecycleAssumption DEF Balanced
    <3>4. Calm(e)'
      BY <1>2, <1>3, <2>1, <2>2, <3>3 DEF Calm
    <3>5. QED
      BY <3>1, <3>4 DEF MoneyKept
  <2>5. QED
    BY <2>3, <2>4
<1>8. CASE Extends(s) \/ Settles(s) \/ Views(s)
  <2>1. Calm(e) /\ req'[s] = Idle
    BY <1>1, <1>2, <1>8 DEF Extends, Settles, Views, MoneyKnown, AfterStatus
  <2>2. /\ Status(e) \in {"ONGOING", "COMPLETED"}
        /\ req[s].target \in {"ONGOING", "COMPLETED", "SETTLED"}
    BY <1>8 DEF Extends, Settles, Views
  <2>3. Calm(e)'
    BY <1>2, <1>3, <2>1, <2>2 DEF Calm
  <2>4. QED
    BY <2>1, <2>3 DEF MoneyKept
<1>9. ~Edits(s) /\ ~Deletes(s) /\ ~Approves(s)
  BY <1>1 DEF Edits, Deletes, Approves
<1>10. QED
  BY <1>1, <1>4, <1>5, <1>6, <1>7, <1>8, <1>9 DEF Knows, Cancels

\* The handler of a last approval goes on, and what Paying says of pc holds.
LEMMA GoesOnPaying ==
    ASSUME IInv, SerialInv, MoneyInv, NEW s \in Slot, NEW e, e = Ev(s), Running(s),
           req[s].op = "approve", NEW pc \in Pc, Goto(s, pc), UNCHANGED event,
           IF pc = "commit" THEN paidOut'[e] = event[e].budget /\ expenses'[e] = 0 ELSE Calm(e)'
    PROVE  MoneyKept(s, e)
<1>1. Paying(s) /\ req[s] \in Request
  BY RunningMoney
<1>2. req'[s] = [req[s] EXCEPT !.pc = pc]
  BY TablesTyped DEF Goto
<1>3. /\ req'[s].pc = pc /\ req'[s].op = "approve" /\ req'[s].event = e
      /\ req'[s].budget = req[s].budget
  BY <1>1, <1>2 DEF Request, RequestOf, Ev
<1>4. Paying(s)'
  BY <1>1, <1>3 DEF Paying, Ev
<1>5. QED
  BY <1>3, <1>4 DEF MoneyKept, MoneyKnown, Idle

LEMMA DecideMoney ==
    ASSUME IInv, SerialInv, MoneyInv, NEW s \in Slot, NEW e, e = Ev(s), Decide(s)
    PROVE  MoneyKept(s, e)
<1>1. /\ e \in Event /\ Calm(e) /\ Status(e) = "SUBMITTED" /\ Running(s)
      /\ req[s].op = "approve" /\ req[s].pc = "decide"
  BY RunningMoney DEF Decide, At, Paying, Approves
<1>2. /\ paidOut' = paidOut /\ expenses' = expenses
      /\ event'[e].status \in {"SUBMITTED", "REJECTED"}
  BY <1>1, TablesTyped DEF Decide, SetStatus, Status, eventVars, ledgerVars, EventRow
<1>3. Calm(e)'
  BY <1>1, <1>2 DEF Calm, Status
<1>4. CASE Finish(s)
  BY <1>3, <1>4, EndsCalm
<1>5. CASE Goto(s, "fund") /\ UNCHANGED event
  BY <1>1, <1>3, <1>5, GoesOnPaying DEF Pc
<1>6. QED
  BY <1>4, <1>5 DEF Decide, eventVars

LEMMA PaymentMoney ==
    ASSUME IInv, SerialInv, MoneyInv, NEW s \in Slot, NEW e, e = Ev(s),
           CheckFunds(s) \/ Disburse(s)
    PROVE  MoneyKept(s, e)
<1>1. /\ e \in Event /\ Calm(e) /\ Status(e) = "SUBMITTED" /\ Running(s)
      /\ req[s].op = "approve" /\ req[s].budget = event[e].budget
  BY RunningMoney DEF CheckFunds, Disburse, At, Paying, Approves
<1>2. UNCHANGED <<event, expenses>>
  BY DEF CheckFunds, Disburse, eventVars
<1>3. CASE CheckFunds(s)
  <2>1. SameMoney(e)
    BY <1>2, <1>3 DEF CheckFunds, SameMoney, ledgerVars
  <2>2. Calm(e)'
    BY <1>1, <2>1, CalmStays
  <2>3. Finish(s) \/ Goto(s, "pay")
    BY <1>3 DEF CheckFunds
  <2>4. CASE Goto(s, "pay")
    BY <1>1, <1>2, <2>2, <2>4, GoesOnPaying DEF Pc
  <2>5. QED
    BY <2>2, <2>3, <2>4, EndsCalm
<1>4. CASE Disburse(s)
  <2>1. paidOut[e] = 0 /\ expenses[e] = 0
    BY <1>1 DEF Calm
  <2>2. paidOut'[e] = event[e].budget
    BY <1>1, <1>4, <2>1, MoneyTyped, TablesTyped DEF Disburse, DebitForEvent
  <2>3. Goto(s, "commit")
    BY <1>4 DEF Disburse
  <2>4. QED
    BY <1>1, <1>2, <2>1, <2>2, <2>3, GoesOnPaying DEF Pc
<1>5. QED
  BY <1>3, <1>4

LEMMA CommitFundedMoney ==
    ASSUME IInv, SerialInv, MoneyInv, NEW s \in Slot, NEW e, e = Ev(s), CommitFunded(s)
    PROVE  MoneyKept(s, e)
<1>1. e \in Event /\ paidOut[e] = event[e].budget /\ expenses[e] = 0
  BY RunningMoney DEF CommitFunded, At, Paying
<1>2. /\ event'[e].status = "FUNDED" /\ event'[e].budget = event[e].budget
      /\ paidOut' = paidOut /\ expenses' = expenses
  BY <1>1, TablesTyped DEF CommitFunded, SetStatus, EventRow, ledgerVars
<1>3. Calm(e)'
  BY <1>1, <1>2 DEF Calm, Status
<1>4. QED
  BY <1>3, EndsCalm DEF CommitFunded

LEMMA RereadMoney ==
    ASSUME IInv, SerialInv, MoneyInv, NEW s \in Slot, NEW e, e = Ev(s), Reread(s)
    PROVE  MoneyKept(s, e)
<1>1. e \in Event /\ Calm(e) /\ Status(e) = "COMPLETED"
  BY RunningMoney DEF Reread, At, Returning, Cancels
<1>2. req'[s] = Idle
  BY <1>1, TablesTyped DEF Reread, Cancelable
<1>3. SameMoney(e)
  BY DEF Reread, eventVars, ledgerVars, SameMoney
<1>4. QED
  BY <1>1, <1>2, <1>3, CalmStays DEF MoneyKept

LEMMA RefundMoney ==
    ASSUME IInv, SerialInv, MoneyInv, NEW s \in Slot, NEW e, e = Ev(s), Refund(s)
    PROVE  MoneyKept(s, e)
<1>1. e \in Event /\ req[s] \in Request /\ req[s].pc = "refund" /\ Knows(s) /\ Running(s)
  BY RunningMoney, RunningKnows DEF Refund
<1>2. /\ event' = event /\ expenses' = expenses /\ paidOut'[e] = paidOut[e] - req[s].amount
  BY <1>1, TablesTyped DEF Refund, CreditForEvent, eventVars
<1>3. CASE req[s].op = "cancel"
  <2>1. /\ Returning(s) /\ Cancels(s) /\ req[s].target = "CANCELLED"
        /\ Status(e) \in {"FUNDED", "ONGOING"}
    BY <1>1, <1>3, RunningMoney DEF Cancels
  <2>2. Calm(e) /\ req[s].amount = event[e].budget
    BY <1>1, <2>1 DEF Returning
  <2>3. paidOut'[e] <= 0
    BY <1>1, <1>2, <2>1, <2>2, MoneyTyped DEF Calm
  <2>4. req'[s] = [req[s] EXCEPT !.pc = "mark"]
    BY <1>3, TablesTyped DEF Refund, Goto
  <2>5. req'[s].pc = "mark" /\ req'[s].op = "cancel" /\ req'[s].event = e
        /\ req'[s].target = "CANCELLED"
    BY <1>1, <1>3, <2>1, <2>4 DEF Request, RequestOf, Ev
  <2>6. Returning(s)'
    BY <1>2, <2>1, <2>3, <2>5 DEF Returning, Ev, Status
  <2>7. QED
    BY <2>5, <2>6 DEF MoneyKept, MoneyKnown, Idle
<1>4. CASE req[s].op # "cancel"
  <2>1. Reporting(s) /\ Reports(s)
    BY <1>1, <1>4, RunningMoney
        DEF Knows, Edits, Deletes, Submits, Approves, Cancels, Extends, Settles, Views, Reports
  <2>2. /\ Status(e) = "ONGOING" /\ paidOut[e] = event[e].budget /\ req[s].amount > 0
        /\ expenses[e] = req[s].spent /\ event[e].actual = req[s].spent
        /\ req[s].spent \in Spending /\ Balanced(req[s].spent, req[s].amount, event[e].budget)
    BY <1>1, <2>1 DEF Reporting, Reports
  <2>3. req[s].amount \in Int
    BY <1>1 DEF Request, RequestOf
  <2>4. paidOut'[e] <= event[e].budget /\ paidOut'[e] - expenses[e] <= Tolerance
    BY <1>1, <1>2, <2>2, <2>3, MoneyTyped, LifecycleAssumption DEF Balanced
  <2>5. Calm(e)'
    BY <1>2, <2>2, <2>4 DEF Calm, Status
  <2>6. QED
    BY <1>4, <2>5, EndsCalm DEF Refund
<1>5. QED
  BY <1>3, <1>4

LEMMA InsertExpenseMoney ==
    ASSUME IInv, SerialInv, MoneyInv, NEW s \in Slot, NEW e, e = Ev(s), InsertExpense(s)
    PROVE  MoneyKept(s, e)
<1>1. e \in Event /\ req[s] \in Request /\ Reporting(s) /\ req[s].pc = "expense"
      /\ req[s].op = "expense"
  BY RunningMoney DEF InsertExpense, At
<1>2. /\ req[s].left \in Nat /\ req[s].spent \in Nat
      /\ expenses[e] = req[s].spent - req[s].left
  BY <1>1 DEF Request, RequestOf, Reporting
<1>3. PICK a \in {x \in Spending : x < req[s].left} \cup {req[s].left} :
        /\ expenses' = [expenses EXCEPT ![e] = @ + a]
        /\ req' = [req EXCEPT ![s].left = @ - a,
                              ![s].pc = IF a = req[s].left THEN "actual" ELSE "expense"]
  BY DEF InsertExpense
<1>4. a \in Nat /\ expenses'[e] = expenses[e] + a
  BY <1>1, <1>2, <1>3, TablesTyped, LifecycleAssumption
<1>5. event' = event /\ paidOut' = paidOut
  BY DEF InsertExpense, ledgerVars
<1>6. req'[s] = [req[s] EXCEPT !.left = req[s].left - a,
                               !.pc = IF a = req[s].left THEN "actual" ELSE "expense"]
  BY <1>3, TablesTyped
<1>7. /\ req'[s].pc = (IF a = req[s].left THEN "actual" ELSE "expense")
      /\ req'[s].left = req[s].left - a
      /\ req'[s].op = "expense" /\ req'[s].event = e
      /\ req'[s].amount = req[s].amount /\ req'[s].spent = req[s].spent
  BY <1>1, <1>6 DEF Request, RequestOf, Ev
<1>8. expenses'[e] = IF req'[s].pc = "expense" THEN req'[s].spent - req'[s].left ELSE req'[s].spent
  BY <1>2, <1>4, <1>7
<1>9. Reporting(s)'
  BY <1>1, <1>5, <1>7, <1>8 DEF Reporting, Balanced, Ev
<1>10. QED
  BY <1>7, <1>9 DEF MoneyKept, MoneyKnown, Idle

LEMMA WriteActualMoney ==
    ASSUME IInv, SerialInv, MoneyInv, NEW s \in Slot, NEW e, e = Ev(s), WriteActual(s)
    PROVE  MoneyKept(s, e)
<1>1. e \in Event /\ req[s] \in Request /\ Reporting(s) /\ req[s].pc = "actual"
      /\ req[s].op = "expense"
  BY RunningMoney DEF WriteActual, At
<1>2. /\ event'[e].actual = req[s].spent /\ event'[e].budget = event[e].budget
      /\ paidOut' = paidOut /\ expenses' = expenses
  BY <1>1, TablesTyped DEF WriteActual, EventRow, ledgerVars
<1>3. req'[s] = [req[s] EXCEPT !.pc = "mark"]
  BY TablesTyped DEF WriteActual, Goto
<1>4. /\ req'[s].pc = "mark" /\ req'[s].op = "expense" /\ req'[s].event = e
      /\ req'[s].amount = req[s].amount /\ req'[s].spent = req[s].spent
  BY <1>1, <1>3 DEF Request, RequestOf, Ev
<1>5. Reporting(s)'
  BY <1>1, <1>2, <1>4 DEF Reporting, Balanced, Ev
<1>6. QED
  BY <1>4, <1>5 DEF MoneyKept, MoneyKnown, Idle

LEMMA WriteExtendMoney ==
    ASSUME IInv, SerialInv, MoneyInv, NEW s \in Slot, NEW e, e = Ev(s), NEW late,
           WriteExtend(s, late)
    PROVE  MoneyKept(s, e)
<1>1. e \in Event /\ req[s] \in Request /\ Calm(e) /\ req[s].op = "extend"
  BY RunningMoney DEF WriteExtend, At
<1>2. SameMoney(e)
  BY <1>1, TablesTyped DEF WriteExtend, EventRow, ledgerVars, SameMoney
<1>3. req'[s] = [req[s] EXCEPT !.pc = "mark"]
  BY TablesTyped DEF WriteExtend, Goto
<1>4. req'[s].op = "extend" /\ req'[s].event = e
  BY <1>1, <1>3 DEF Request, RequestOf, Ev
<1>5. QED
  BY <1>1, <1>2, <1>4, CalmStays, EndsCalm

\* A handler that is alone with its event waits for no deletion.
LEMMA NobodyBlocks ==
    ASSUME OneByOne, NEW s \in Slot
    PROVE  ~Deadlock(s) /\ ~TimesOut(s)
  BY DEF OneByOne, Deadlock, Deadlocked, NeedsEvent, TimesOut, NoDeletion, Running, At, Idle

LEMMA ContinueMoney ==
    ASSUME IInv, SerialInv, MoneyInv, OneByOne, NEW s \in Slot, NEW e, e = Ev(s), Continue(s)
    PROVE  MoneyKept(s, e)
<1>1. ~FailOnDeleted(s)
  <2> SUFFICES ASSUME FailOnDeleted(s) PROVE FALSE
    OBVIOUS
  <2>1. Knows(s) /\ Status(e) = "DELETED"
    BY DEF FailOnDeleted, Deleted, SerialInv
  <2>2. QED
    BY <2>1 DEF Knows, Edits, Deletes, Submits, Approves, Cancels, Reports, Extends, Settles,
                Views, Cancelable, EventStatus, editableStatuses, submittableStatuses
<1>2. QED
  BY <1>1, NobodyBlocks, DraftMoney, LockEventMoney, SubmitMoney, ReadForHistoryMoney, WriteStatusMoney, DecideMoney,
     PaymentMoney, CommitFundedMoney, RereadMoney, RefundMoney, InsertExpenseMoney,
     WriteActualMoney, WriteExtendMoney
  DEF Continue

-----------------------------------------------------------------------------
\* A call that begins on a calm event knows what its operation relies on.
LEMMA BeginMoney ==
    ASSUME IInv, NEW s \in Slot, NEW u \in User, NEW e \in Event, Calm(e), Calm(e)',
           UNCHANGED <<eventVars, aborts, ledgerVars>>,
           \/ \E b \in Budget : BeginUpdate(s, u, e, b)
           \/ BeginDelete(s, u, e) \/ BeginSubmit(s, u, e)
           \/ \E v \in ApprovalStatus : BeginApprove(s, u, e, v)
           \/ BeginCancel(s, u, e)
           \/ \E total \in Spending, rest \in Remaining : BeginExpense(s, u, e, total, rest)
           \/ BeginExtend(s, u, e) \/ BeginSettle(s, u, e) \/ BeginView(s, u, e)
    PROVE  MoneyKnown(s)'
<1>0. /\ event' = event /\ expenses' = expenses /\ paidOut' = paidOut
      /\ req \in [Slot -> Request]
  BY TablesTyped DEF eventVars, ledgerVars
<1>1. ASSUME NEW b \in Budget, BeginUpdate(s, u, e, b) PROVE MoneyKnown(s)'
  <2>1. req'[s].op = "update" /\ req'[s].event = e
    BY <1>0, <1>1 DEF BeginUpdate, MayUpdate, Start, Call, Idle
  <2>2. QED
    BY <2>1 DEF MoneyKnown, Ev
<1>2. CASE BeginDelete(s, u, e) \/ BeginSubmit(s, u, e) \/ BeginExtend(s, u, e)
           \/ BeginSettle(s, u, e) \/ BeginView(s, u, e)
  <2>1. PICK op, pc, target : /\ op \in {"delete", "submit", "extend", "settle", "view"}
                             /\ Start(s, Call(op, u, e, pc, target))
    BY <1>2 DEF BeginDelete, MayDelete, BeginSubmit, MaySubmit, BeginExtend, MayExtend,
       BeginSettle, MaySettle, BeginView
  <2>1a. req'[s].op = op /\ req'[s].event = e
    BY <1>0, <2>1 DEF Start, Call, Idle
  <2>2. QED
    BY <2>1, <2>1a DEF MoneyKnown, Ev
<1>3. ASSUME NEW v \in ApprovalStatus, BeginApprove(s, u, e, v) PROVE MoneyKnown(s)'
  <2>1. PICK x, target : Start(s, [Call("approve", u, e, "decide", target) EXCEPT
                                    !.rows = {x}, !.verdict = v])
    BY <1>3, Zenon DEF BeginApprove, MayApprove, NextStepOf
  <2>2. /\ req'[s].op = "approve" /\ req'[s].event = e /\ req'[s].pc = "decide"
        /\ req'[s].budget = event[e].budget
    BY <1>0, <2>1 DEF Start, Call, Idle
  <2>3. QED
    BY <1>0, <2>2 DEF MoneyKnown, Paying, Ev
<1>4. CASE BeginCancel(s, u, e)
  <2>1. \/ Start(s, Call("cancel", u, e, "mark", "COMPLETED"))
        \/ Start(s, CancelRequest(u, e))
    BY <1>4 DEF BeginCancel, MayCancel
  <2>2. CASE \E target : /\ Start(s, Call("cancel", u, e, "mark", target))
                         /\ target = "CANCELLED" => Status(e) \notin {"FUNDED", "ONGOING"}
    <3>1. /\ req'[s].op = "cancel" /\ req'[s].event = e /\ req'[s].pc = "mark"
          /\ req'[s].target = "CANCELLED" => Status(e) \notin {"FUNDED", "ONGOING"}
      BY <1>0, <2>2 DEF Start, Call, Idle
    <3>2. QED
      BY <1>0, <3>1 DEF MoneyKnown, Returning, Ev, Status
  <2>3. CASE Start(s, [Call("cancel", u, e, "refund", "CANCELLED") EXCEPT
                         !.amount = event[e].budget])
    <3>1. /\ req'[s].op = "cancel" /\ req'[s].event = e /\ req'[s].pc = "refund"
          /\ req'[s].amount = event[e].budget
      BY <1>0, <2>3 DEF Start, Call, Idle
    <3>2. QED
      BY <1>0, <3>1 DEF MoneyKnown, Returning, Ev, Status
  <2>4. QED
    BY <2>1, <2>2, <2>3 DEF CancelRequest
<1>5. ASSUME NEW total \in Spending, NEW rest \in Remaining, BeginExpense(s, u, e, total, rest)
      PROVE  MoneyKnown(s)'
  <2>1. /\ req'[s].op = "expense" /\ req'[s].event = e /\ req'[s].pc = "expense"
        /\ req'[s].spent = total /\ req'[s].left = total /\ req'[s].amount = rest
    BY <1>0, <1>5 DEF BeginExpense, MayReport, Start, Call, Idle
  <2>2. paidOut[e] = event[e].budget /\ expenses[e] = 0
    BY <1>5 DEF BeginExpense, MayReport, Calm
  <2>3. Balanced(total, rest, event[e].budget) /\ total - total = 0
    <3>1. total \in Nat
      BY LifecycleAssumption
    <3>2. total - total = 0
      BY <3>1
    <3>3. QED
      BY <1>5, <3>2, Zenon DEF BeginExpense, MayReport
  <2>4. QED
    BY <1>0, <2>1, <2>2, <2>3 DEF MoneyKnown, Reporting, Balanced, Ev
<1>6. QED
  BY <1>1, <1>2, <1>3, <1>4, <1>5

\* What a slot's step for event e does to e is all there is to check.
LEMMA OwnMoneyIsAll ==
    ASSUME IInv, MoneyInv, NEW s \in Slot, NEW e \in Event, StepOf(s, e),
           req[s] # Idle => Ev(s) = e, MoneyKept(s, e)
    PROVE  MoneyInv'
<1>1. ASSUME NEW f \in Event, Quiet(f)' PROVE Calm(f)'
  <2>1. CASE f = e
    BY <1>1, <2>1 DEF MoneyKept, Quiet, Ev
  <2>2. CASE f # e
    <3>1. SameMoney(f)
      BY <2>2 DEF StepOf, SameEvent, SameMoney
    <3>2. Ev(s) # f
      BY <2>2, LifecycleAssumption DEF Ev, Idle
    <3>3. Quiet(f)
      BY <1>1, <3>2 DEF StepOf, Quiet, Ev
    <3>4. QED
      BY <3>1, <3>3, CalmStays DEF MoneyInv
  <2>3. QED
    BY <2>1, <2>2
<1>2. ASSUME NEW t \in Slot, req'[t] # Idle PROVE MoneyKnown(t)'
  <2>1. CASE t = s
    BY <1>2, <2>1 DEF MoneyKept
  <2>2. CASE t # s
    <3>1. req'[t] = req[t] /\ Ev(t) \in Event \ {e} /\ MoneyKnown(t)
      BY <1>2, <2>2 DEF StepOf, MoneyInv, IInv, HandlersInv, InFlight
    <3>2. SameMoney(Ev(t))
      BY <3>1 DEF StepOf, SameEvent, SameMoney
    <3>3. QED
      BY <3>1, <3>2, MoneyKnownStays
  <2>3. QED
    BY <2>1, <2>2
<1>3. QED
  BY <1>1, <1>2 DEF MoneyInv

\* Nothing but the clock or a new row: every handler and the money stay.
LEMMA StillMoney ==
    ASSUME IInv, MoneyInv, req' = req,
           \A f \in Event : Calm(f) /\ Quiet(f) => Calm(f)',
           \A f \in Event : ~Quiet(f) => SameMoney(f)
    PROVE  MoneyInv'
<1>1. \A f \in Event : Quiet(f)' => Calm(f)'
  BY DEF MoneyInv, Quiet, Ev
<1>2. ASSUME NEW t \in Slot, req'[t] # Idle PROVE MoneyKnown(t)'
  <2>1. Ev(t) \in Event /\ MoneyKnown(t) /\ ~Quiet(Ev(t))
    BY <1>2 DEF MoneyInv, IInv, HandlersInv, InFlight, Quiet
  <2>2. QED
    BY <2>1, MoneyKnownStays
<1>3. QED
  BY <1>1, <1>2 DEF MoneyInv

LEMMA MoneyStep ==
    ASSUME IInv, SerialInv, MoneyInv, OneByOne, OneByOne', NobodyDies, NobodyDies', [Next]_vars
    PROVE  MoneyInv'
<1>1. CASE UNCHANGED vars
  <2>1. \A f \in Event : SameMoney(f)
    BY <1>1 DEF vars, SameMoney, ledgerVars
  <2>2. QED
    BY <1>1, <2>1, CalmStays, StillMoney DEF vars
<1>2. ASSUME NEW e \in Event, EndDatePasses(e) PROVE MoneyInv'
  <2>1. \A f \in Event : SameMoney(f)
    BY <1>2, TablesTyped DEF EndDatePasses, EventRow, SameMoney, ledgerVars
  <2>2. QED
    BY <1>2, <2>1, CalmStays, StillMoney DEF EndDatePasses
<1>3. ASSUME NEW u \in User, NEW e \in Event, NEW b \in Budget, NEW late \in BOOLEAN,
             Create(u, e, b, late)
      PROVE  MoneyInv'
  <2>1. Status(e) = "ABSENT" /\ event'[e].status = "DRAFT"
        /\ req' = req /\ paidOut' = paidOut /\ expenses' = expenses
    BY <1>3, TablesTyped DEF Create, ledgerVars
  <2>2. \A f \in Event \ {e} : SameMoney(f)
    BY <1>3, TablesTyped DEF Create, SameMoney, ledgerVars
  <2>3. Quiet(e)
    BY <2>1, LifecycleAssumption DEF Quiet, IInv, HandlersInv, InFlight, Ev, Idle
  <2>4. Calm(e) => Calm(e)'
    BY <2>1 DEF Calm, Status
  <2>5. QED
    BY <2>1, <2>2, <2>3, <2>4, CalmStays, StillMoney
<1>4. ASSUME NEW s \in Slot, Begin(s) PROVE MoneyInv'
  <2>1. PICK u \in User, e \in Event :
          \/ \E b \in Budget : BeginUpdate(s, u, e, b)
          \/ BeginDelete(s, u, e) \/ BeginSubmit(s, u, e)
          \/ \E v \in ApprovalStatus : BeginApprove(s, u, e, v)
          \/ BeginCancel(s, u, e)
          \/ \E total \in Spending, rest \in Remaining : BeginExpense(s, u, e, total, rest)
          \/ BeginExtend(s, u, e) \/ BeginSettle(s, u, e) \/ BeginView(s, u, e)
    BY <1>4 DEF Begin
  <2>2. Started(s, u, e) /\ StepOf(s, e)
    BY <2>1, BeginIsStart, StartedStep
  <2>3. UNCHANGED <<eventVars, aborts, ledgerVars>> /\ req[s] = Idle
    BY <2>2 DEF Started
  <2>4. Quiet(e)
    BY <2>2, <2>3, LifecycleAssumption DEF Quiet, StepOf, Ev, Idle
  <2>5. Calm(e) /\ Calm(e)'
    BY <2>3, <2>4, CalmStays DEF MoneyInv, SameMoney, eventVars, ledgerVars
  <2>6. MoneyKnown(s)'
    BY <2>1, <2>3, <2>5, BeginMoney
  <2>7. req'[s].event = e
    BY <2>2, TablesTyped DEF Started
  <2>8. QED
    BY <2>2, <2>3, <2>5, <2>6, <2>7, OwnMoneyIsAll DEF MoneyKept
<1>5. ASSUME NEW s \in Slot, Continue(s) PROVE MoneyInv'
  <2>1. PICK e \in Event : e = Ev(s)
    BY <1>5, ContinueStepOf DEF IInv, HandlersInv, InFlight
  <2>2. StepOf(s, e) /\ MoneyKept(s, e)
    BY <1>5, <2>1, ContinueStepOf, ContinueMoney
  <2>3. QED
    BY <2>1, <2>2, OwnMoneyIsAll
<1>6. ASSUME NEW s \in Slot, Abort(s) PROVE FALSE
  BY <1>6 DEF Abort, NobodyDies
<1>7. QED
  BY <1>1, <1>2, <1>3, <1>4, <1>5, <1>6 DEF Next, Environment

LEMMA MoneyInitially == Init => MoneyInv
  BY DEF Init, LedgerInit, MoneyInv, Calm, Status

LEMMA MoneyHolds == Spec /\ []OneByOne /\ []NobodyDies => [](IInv /\ SerialInv /\ MoneyInv)
<1>1. Init => IInv /\ SerialInv /\ MoneyInv
  BY Initially, SerialInitially, MoneyInitially
<1>2. IInv /\ SerialInv /\ MoneyInv /\ OneByOne /\ OneByOne' /\ NobodyDies /\ NobodyDies'
        /\ [Next]_vars => (IInv /\ SerialInv /\ MoneyInv)'
  BY Step, SerialStep, MoneyStep
<1>3. QED
  BY <1>1, <1>2, PTL DEF Spec

(***************************************************************************)
(* While the handlers of an event run one after the other and come to their *)
(* end, the money follows the status: none is out before the event is       *)
(* funded, exactly its budget once it is, none left after it is cancelled.  *)
(***************************************************************************)
THEOREM StatusTellsTheMoney ==
    Spec /\ []OneByOne /\ []NobodyDies => []MoneyFollowsStatus
<1>1. MoneyInv => MoneyFollowsStatus
  BY DEF MoneyInv, Calm, MoneyFollowsStatus
<1>2. QED
  BY <1>1, MoneyHolds, PTL

(***************************************************************************)
(* Under the same conditions the verified items of a report cover what is   *)
(* still out after it, up to the rounding it accepts, and budgetActual is   *)
(* their sum, however many items are inserted one by one.                   *)
(***************************************************************************)
THEOREM ReportAccountsForMoney ==
    Spec /\ []OneByOne /\ []NobodyDies => []ReportSettlesMoney
<1>1. MoneyInv => ReportSettlesMoney
  BY DEF MoneyInv, Calm, ReportSettlesMoney
<1>2. QED
  BY <1>1, MoneyHolds, PTL

-----------------------------------------------------------------------------
(* Refunds *)

\* No cancellation reaches the refund of an event that has begun.
OngoingStays == \A s \in Slot : At(s, "cancel", "refund") => Status(Ev(s)) # "ONGOING"

LEMMA RefundIsCovered ==
    ASSUME IInv, SerialInv, MoneyInv, OngoingStays, Tolerance <= 1, NEW s \in Slot,
           NEW e \in Event, e = Ev(s), Refund(s)
    PROVE  paidOut'[e] >= 0
<1>1. /\ req[s] \in Request /\ req[s].pc = "refund" /\ Knows(s) /\ Running(s)
  BY RunningMoney, RunningKnows DEF Refund
<1>2. paidOut'[e] = paidOut[e] - req[s].amount
  BY TablesTyped DEF Refund, CreditForEvent
<1>3. CASE req[s].op = "cancel"
  <2>1. Returning(s) /\ Status(e) = "FUNDED"
    BY <1>1, <1>3, RunningMoney DEF Cancels, OngoingStays, At
  <2>2. paidOut[e] = event[e].budget /\ req[s].amount = event[e].budget
    BY <1>1, <2>1 DEF Returning, Calm
  <2>3. QED
    BY <1>2, <2>2, MoneyTyped
<1>4. CASE req[s].op # "cancel"
  <2>1. Reporting(s)
    BY <1>1, <1>4, RunningMoney
        DEF Knows, Edits, Deletes, Submits, Approves, Cancels, Extends, Settles, Views, Reports
  <2>2. /\ paidOut[e] = event[e].budget /\ req[s].spent \in Nat \ {0} /\ req[s].amount \in Int
        /\ Balanced(req[s].spent, req[s].amount, event[e].budget)
    BY <1>1, <2>1, LifecycleAssumption DEF Reporting, Request, RequestOf
  <2>3. req[s].amount <= event[e].budget
    BY <2>2, MoneyTyped DEF Balanced
  <2>4. QED
    BY <1>2, <2>2, <2>3, MoneyTyped
<1>5. QED
  BY <1>3, <1>4

LEMMA RefundsStep ==
    ASSUME IInv, SerialInv, MoneyInv, RefundsWithinPayments, OngoingStays, Tolerance <= 1,
           [Next]_vars
    PROVE  RefundsWithinPayments'
<1>1. ASSUME UNCHANGED paidOut PROVE RefundsWithinPayments'
  BY <1>1 DEF RefundsWithinPayments
<1>2. ASSUME NEW s \in Slot, Refund(s) PROVE RefundsWithinPayments'
  <2>1. PICK e \in Event : e = Ev(s)
    BY <1>2, RunningMoney DEF Refund
  <2>2. \A f \in Event \ {e} : paidOut'[f] = paidOut[f]
    BY <1>2, <2>1, ContinueLeavesEvents DEF Continue, SameEvent
  <2>3. QED
    BY <1>2, <2>1, <2>2, RefundIsCovered DEF RefundsWithinPayments
<1>3. ASSUME NEW s \in Slot, Disburse(s) PROVE RefundsWithinPayments'
  <2>1. PICK e \in Event : e = Ev(s)
    BY <1>3, RunningMoney DEF Disburse
  <2>2. req[s].budget \in Nat
    BY <1>3, RunningMoney DEF Disburse, Request, RequestOf
  <2>3. paidOut'[e] = paidOut[e] + req[s].budget
    BY <1>3, <2>1, TablesTyped DEF Disburse, DebitForEvent
  <2>4. \A f \in Event \ {e} : paidOut'[f] = paidOut[f]
    BY <1>3, <2>1, ContinueLeavesEvents DEF Continue, SameEvent
  <2>5. QED
    BY <2>2, <2>3, <2>4, MoneyTyped DEF RefundsWithinPayments
<1>4. ASSUME NEW s \in Slot, Begin(s) \/ Abort(s) PROVE UNCHANGED paidOut
  BY <1>4, BeginReads DEF Abort, ledgerVars
<1>5. ASSUME NEW s \in Slot, Continue(s), ~Refund(s), ~Disburse(s) PROVE UNCHANGED paidOut
  BY <1>5 DEF Continue, WriteUpdate, WriteExtend, LockEvent, WriteDelete, ReadWorkflow, ClearApprovals,
              InsertApproval, ReadForHistory, WriteStatus, Decide, CheckFunds, CommitFunded,
              Reread, InsertExpense, WriteActual, FailOnDeleted, Deadlock, TimesOut, ledgerVars
<1>6. Environment \/ UNCHANGED vars => UNCHANGED paidOut
  BY DEF Environment, Create, EndDatePasses, vars, ledgerVars
<1>7. QED
  BY <1>1, <1>2, <1>3, <1>4, <1>5, <1>6 DEF Next

(***************************************************************************)
(* Under the same conditions, with the tolerance of the code (a report may  *)
(* miss the budget by one unit) and while no event that has begun is        *)
(* cancelled, refunds stay within what was paid out for the event.          *)
(***************************************************************************)
THEOREM RefundsAreCovered ==
    ASSUME Tolerance <= 1
    PROVE  Spec /\ []OneByOne /\ []NobodyDies /\ []OngoingStays => []RefundsWithinPayments
<1>1. Init => RefundsWithinPayments
  BY DEF Init, LedgerInit, RefundsWithinPayments
<1>2. IInv /\ SerialInv /\ MoneyInv /\ RefundsWithinPayments /\ OngoingStays /\ [Next]_vars
        => RefundsWithinPayments'
  BY RefundsStep
<1>3. QED
  BY <1>1, <1>2, MoneyHolds, PTL DEF Spec

=============================================================================
