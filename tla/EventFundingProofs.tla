-------------------------- MODULE EventFundingProofs --------------------------
(***************************************************************************)
(* What holds of the fund requests of EventFunding for every organization   *)
(* and every number of requests and of handlers in flight: first of the     *)
(* treasurers' decisions, whatever other handlers do at the same time; then *)
(* of reviews and the job, while no two handlers work on one event.         *)
(***************************************************************************)
EXTENDS EventPages, SumProofs

HandlerFields == {"op", "pc", "user", "event", "budget", "target", "prior", "amount", "spent",
                  "left", "rows", "verdict", "gone"}
EventFields == {"status", "creator", "budget", "actual", "ended"}

\* A treasurer's approval or rejection of a fund request.
Deciding(s) == req[s].op \in {"approvefund", "rejectfund"}

ApprovePc == {"openApprove", "checkDisburse", "transferFund", "readEvent", "commitFund"}
RejectPc == {"openReject", "takeover", "commitReject"}

\* An approval that has paid, and has not yet marked its request.
Paid(s) == req[s].op = "approvefund" /\ req[s].pc \in {"readEvent", "commitFund"}

\* A handler of the events module, or one that asks for more.
Ordinary(r) ==
    /\ DOMAIN r = HandlerFields
    /\ r.op \in AllOps \cup {"askfund"}
    /\ r.target \in EventStatus
    /\ r.event \in Event /\ Status(r.event) # "ABSENT"
    /\ r.op = "askfund" => r.amount \in Nat

\* A decision holds a request addressed to the treasurer who decides; it was open.
Decides(s) ==
    /\ DOMAIN req[s] = HandlerFields
    /\ req[s].target \in EventStatus
    /\ fundOf[s] \in FundRequest /\ fund[fundOf[s]].status # "ABSENT"
    /\ req[s].user \in HoldersOf("TREASURER", Target(fundOf[s]))
    /\ \/ req[s].op = "approvefund" /\ req[s].pc \in ApprovePc
                                    /\ req[s].amount = fund[fundOf[s]].amount
       \/ req[s].op = "rejectfund" /\ req[s].pc \in RejectPc
                                   /\ (req[s].pc = "takeover" => Ev(s) # NoEvent)
    /\ Deleted(Ev(s)) \/ fund[fundOf[s]].event = Ev(s)
    /\ InFundTx(s) => ~Deleted(Ev(s))

DecisionsInv ==
    /\ DOMAIN req = Slot /\ DOMAIN fundOf = Slot
    /\ \A s \in Slot : req[s] = Idle \/ Ordinary(req[s]) \/ (Deciding(s) /\ Decides(s))

EventsInv ==
    /\ DOMAIN event = Event
    /\ \A e \in Event : /\ DOMAIN event[e] = EventFields /\ Status(e) \in RowStatus
                        /\ Status(e) # "ABSENT" => event[e].creator \in User

\* A deletion takes the event out of its requests.
RequestsInv ==
    /\ fund \in [FundRequest -> FundRow] /\ job = IdleJob
    /\ \A f \in FundRequest : fund[f].event # NoEvent => Exists(fund[f].event)

\* Paid for, marked or about to be.
Done(f) == fund[f].status = "APPROVED" \/ \E s \in Slot : Paid(s) /\ fundOf[s] = f
Settled(g) == {f \in FundRequest : Target(f) = g /\ Done(f)}

GrantsInv ==
    /\ DOMAIN balance = Group
    /\ \A g \in Group : ParentOf[g] = NoGroup =>
          balance[g] \in Int /\ balance[g] <= Opening[g] - SumFunctionOnSet(AmountOf, Settled(g))

GrantInv == DecisionsInv /\ EventsInv /\ RequestsInv /\ GrantsInv

-----------------------------------------------------------------------------
(* What the theorem assumes of the organization and of a behaviour *)

\* The events are those of groups that have a parent to ask.
RootsOrganizeNothing ==
    \A e \in Event : Status(e) # "ABSENT" => ParentOf[GroupOfEvent(e)] # NoGroup

-----------------------------------------------------------------------------
(* Handlers of the events module *)

LEMMA IdleIs ==
    /\ DOMAIN Idle = HandlerFields /\ Idle.op = "none" /\ Idle.pc = "idle"
    /\ Idle.user = NoUser /\ Idle.target = "DRAFT"
  BY DEF Idle, HandlerFields

LEMMA OneSlot ==
    ASSUME DOMAIN req = Slot, NEW s \in Slot, NEW n, req' = [req EXCEPT ![s] = n]
    PROVE  /\ DOMAIN req' = Slot /\ req'[s] = n
           /\ \A t \in Slot : t # s => req'[t] = req[t]
  OBVIOUS

\* The handler goes on with the same call.
Follows(r, n) ==
    /\ DOMAIN n = HandlerFields
    /\ n.op = r.op /\ n.event = r.event /\ n.target \in EventStatus
    /\ n.op = "askfund" => n.amount = r.amount

LEMMA PcFollows ==
    ASSUME NEW r, Ordinary(r), NEW pc, NEW x
    PROVE  /\ Follows(r, r)
           /\ Follows(r, [r EXCEPT !.pc = pc])
           /\ Follows(r, [r EXCEPT !.gone = x])
           /\ Follows(r, [r EXCEPT !.rows = x, !.pc = pc])
           /\ Follows(r, [r EXCEPT !.prior = x, !.pc = pc])
           /\ Follows(r, [r EXCEPT !.left = x, !.pc = pc])
  BY DEF Follows, Ordinary, HandlerFields

\* What the next step of an ordinary handler makes of the handlers.
Goes(s) ==
    /\ DOMAIN req' = Slot
    /\ req'[s] = Idle \/ Follows(req[s], req'[s])
    /\ \A t \in Slot : t # s => \/ req'[t] = req[t]
                                \/ req[t].op = "approve" /\ req'[t] = [req[t] EXCEPT !.gone = TRUE]

LEMMA OneGoes ==
    ASSUME DOMAIN req = Slot, NEW s \in Slot, NEW n, req' = [req EXCEPT ![s] = n],
           n = Idle \/ Follows(req[s], n)
    PROVE  Goes(s)
  BY OneSlot DEF Goes

LEMMA FinishGoes ==
    ASSUME DOMAIN req = Slot, NEW s \in Slot, Finish(s)
    PROVE  Goes(s)
  BY OneGoes DEF Finish

LEMMA GotoGoes ==
    ASSUME DOMAIN req = Slot, NEW s \in Slot, Ordinary(req[s]), NEW pc, Goto(s, pc)
    PROVE  Goes(s)
<1>1. req' = [req EXCEPT ![s] = [req[s] EXCEPT !.pc = pc]]
  BY DEF Goto
<1>2. Follows(req[s], [req[s] EXCEPT !.pc = pc])
  BY PcFollows
<1>3. QED
  BY <1>1, <1>2, OneGoes

LEMMA ForgetGoes ==
    ASSUME DOMAIN req = Slot, NEW s \in Slot, NEW e, NEW n, ForgetRows(s, e, n),
           n = Idle \/ Follows(req[s], n)
    PROVE  Goes(s)
<1>1. DOMAIN req' = Slot /\ req'[s] = n
  BY DEF ForgetRows
<1>2. \A t \in Slot : t # s => \/ req'[t] = req[t]
                               \/ req[t].op = "approve" /\ req'[t] = [req[t] EXCEPT !.gone = TRUE]
  BY DEF ForgetRows
<1>3. QED
  BY <1>1, <1>2 DEF Goes

LEMMA CancelFollows ==
    ASSUME NEW u, NEW e, NEW r, r.op = "cancel", r.event = e
    PROVE  Follows(r, CancelRequest(u, e))
  BY DEF CancelRequest, Call, Idle, Follows, HandlerFields, EventStatus

LEMMA OrdinaryGoes ==
    ASSUME DOMAIN req = Slot, NEW s \in Slot, Ordinary(req[s]), Continue(s)
    PROVE  Goes(s)
<1>1. ASSUME NEW late, WriteUpdate(s, late) PROVE Goes(s)
  BY <1>1, FinishGoes DEF WriteUpdate
<1>2. ASSUME NEW late, WriteExtend(s, late) PROVE Goes(s)
  BY <1>2, GotoGoes DEF WriteExtend
<1>3. CASE WriteDelete(s)
  BY <1>3, ForgetGoes DEF WriteDelete
<1>4. CASE ReadWorkflow(s)
  <2>1. ASSUME NEW w, req' = [req EXCEPT ![s].rows = w, ![s].pc = "clear"]
        PROVE  Goes(s)
    <3>1. req' = [req EXCEPT ![s] = [req[s] EXCEPT !.rows = w, !.pc = "clear"]]
      BY <2>1
    <3>2. Follows(req[s], [req[s] EXCEPT !.rows = w, !.pc = "clear"])
      BY PcFollows
    <3>3. QED
      BY <3>1, <3>2, OneGoes
  <2>2. QED
    BY <1>4, <2>1, FinishGoes DEF ReadWorkflow
<1>5. CASE ClearApprovals(s)
  <2>1. Follows(req[s], [req[s] EXCEPT !.pc = "insert"])
    BY PcFollows
  <2>2. ForgetRows(s, Ev(s), [req[s] EXCEPT !.pc = "insert"])
    BY <1>5 DEF ClearApprovals
  <2>3. QED
    BY <2>1, <2>2, ForgetGoes
<1>6. CASE InsertApproval(s)
  <2>1. ASSUME NEW w, NEW pc, req' = [req EXCEPT ![s].rows = w, ![s].pc = pc]
        PROVE  Goes(s)
    <3>1. req' = [req EXCEPT ![s] = [req[s] EXCEPT !.rows = w, !.pc = pc]]
      BY <2>1
    <3>2. Follows(req[s], [req[s] EXCEPT !.rows = w, !.pc = pc])
      BY PcFollows
    <3>3. QED
      BY <3>1, <3>2, OneGoes
  <2>2. QED
    BY <1>6, <2>1, FinishGoes DEF InsertApproval
<1>7. CASE ReadForHistory(s)
  <2>1. req' = [req EXCEPT ![s] = [req[s] EXCEPT !.prior = Status(Ev(s)), !.pc = "set"]]
    BY <1>7 DEF ReadForHistory
  <2>2. Follows(req[s], [req[s] EXCEPT !.prior = Status(Ev(s)), !.pc = "set"])
    BY PcFollows
  <2>3. QED
    BY <2>1, <2>2, OneGoes
<1>8. CASE WriteStatus(s)
  <2>1. req' = [req EXCEPT ![s] = AfterStatus(req[s])]
    BY <1>8 DEF WriteStatus
  <2>2. \A pc : Follows(req[s], [req[s] EXCEPT !.pc = pc])
    BY PcFollows
  <2>3. AfterStatus(req[s]) = Idle \/ Follows(req[s], AfterStatus(req[s]))
    BY <2>2 DEF AfterStatus
  <2>4. QED
    BY <2>1, <2>3, OneGoes
<1>9. CASE Decide(s)
  BY <1>9, FinishGoes, GotoGoes DEF Decide
<1>10. CASE CheckFunds(s)
  BY <1>10, FinishGoes, GotoGoes DEF CheckFunds
<1>11. CASE Disburse(s)
  BY <1>11, GotoGoes DEF Disburse
<1>12. CASE CommitFunded(s)
  BY <1>12, FinishGoes DEF CommitFunded
<1>13. CASE Reread(s)
  <2>1. \/ req' = [req EXCEPT ![s] = CancelRequest(req[s].user, Ev(s))]
        \/ req' = [req EXCEPT ![s] = Idle]
    BY <1>13 DEF Reread
  <2>2. Follows(req[s], CancelRequest(req[s].user, Ev(s)))
    BY <1>13, CancelFollows DEF Reread, At, Ev
  <2>3. QED
    BY <2>1, <2>2, OneGoes
<1>14. CASE Refund(s)
  BY <1>14, FinishGoes, GotoGoes DEF Refund
<1>15. CASE InsertExpense(s)
  <2>1. PICK a, pc : req' = [req EXCEPT ![s].left = @ - a, ![s].pc = pc]
    BY <1>15 DEF InsertExpense
  <2>2. PICK x : x = req[s].left - a
    OBVIOUS
  <2>3. req' = [req EXCEPT ![s] = [req[s] EXCEPT !.left = x, !.pc = pc]]
    BY <2>1, <2>2
  <2>4. Follows(req[s], [req[s] EXCEPT !.left = x, !.pc = pc])
    BY PcFollows
  <2>5. QED
    BY <2>3, <2>4, OneGoes
<1>16. CASE WriteActual(s)
  BY <1>16, GotoGoes DEF WriteActual
<1>17. CASE FailOnDeleted(s) \/ Deadlock(s) \/ TimesOut(s)
  BY <1>17, FinishGoes DEF FailOnDeleted, Deadlock, TimesOut
<1>a. CASE LockEvent(s)
  BY <1>a, GotoGoes DEF LockEvent
<1>18. QED
  BY <1>1, <1>2, <1>3, <1>4, <1>5, <1>6, <1>7, <1>8, <1>9, <1>10, <1>11, <1>12, <1>13,
     <1>14, <1>15, <1>16, <1>17, <1>a DEF Continue

\* A decision in flight takes no step of an events handler, but fails on a deleted event.
LEMMA DecisionsWait ==
    ASSUME DOMAIN req = Slot, NEW s \in Slot, Deciding(s), Decides(s), Continue(s)
    PROVE  FailOnDeleted(s)
<1>1. /\ req[s].op \in {"approvefund", "rejectfund"}
      /\ req[s].pc \in ApprovePc \cup RejectPc
  BY DEF Deciding, Decides
<1>2. ~At(s, "update", "write") /\ ~At(s, "extend", "write") /\ req[s].op # "delete"
      /\ req[s].op \notin {"submit", "approve", "cancel", "expense"}
      /\ req[s].pc \notin {"mark", "set", "refund"}
  BY <1>1 DEF At, ApprovePc, RejectPc
<1>3. QED
  BY <1>2, Zenon
     DEF Continue, WriteUpdate, WriteExtend, LockEvent, WriteDelete, ReadWorkflow, ClearApprovals,
         InsertApproval, ReadForHistory, WriteStatus, Decide, CheckFunds, Disburse, CommitFunded,
         Reread, Refund, InsertExpense, WriteActual, Deadlock, Deadlocked, NeedsEvent, TimesOut, At

\* A call of the events module begins.
LEMMA BeginIs ==
    ASSUME NEW s \in Slot, Begin(s)
    PROVE  /\ req[s] = Idle /\ UNCHANGED <<eventVars, aborts, ledgerVars>>
           /\ \E n : Ordinary(n) /\ req' = [req EXCEPT ![s] = n]
<1>1. PICK u \in User, e \in Event :
        \/ \E b \in Budget : BeginUpdate(s, u, e, b)
        \/ BeginDelete(s, u, e)
        \/ BeginSubmit(s, u, e)
        \/ \E v \in ApprovalStatus : BeginApprove(s, u, e, v)
        \/ BeginCancel(s, u, e)
        \/ \E total \in Spending, rest \in Remaining : BeginExpense(s, u, e, total, rest)
        \/ BeginExtend(s, u, e)
        \/ BeginSettle(s, u, e)
        \/ BeginView(s, u, e)
  BY DEF Begin
<1>2. ASSUME NEW op \in AllOps, NEW pc, NEW target \in EventStatus,
             NEW w, NEW x, NEW y, NEW z, Exists(e)
      PROVE  /\ Ordinary(Call(op, u, e, pc, target))
             /\ Ordinary([Call(op, u, e, pc, target) EXCEPT !.budget = w])
             /\ Ordinary([Call(op, u, e, pc, target) EXCEPT !.amount = w])
             /\ Ordinary([Call(op, u, e, pc, target) EXCEPT !.rows = w, !.verdict = x])
             /\ Ordinary([Call(op, u, e, pc, target) EXCEPT !.spent = w, !.left = x, !.amount = y])
  <2>1. op # "askfund" /\ Status(e) # "ABSENT"
    BY <1>2 DEF AllOps, Exists, EventStatus
  <2>2. QED
    BY <2>1 DEF Call, Idle, Ordinary, HandlerFields
<1>3. Exists(e) /\ req[s] = Idle
  BY <1>1, Zenon
     DEF MayCall, BeginUpdate, MayUpdate, BeginDelete, MayDelete, BeginSubmit, MaySubmit,
         BeginApprove, MayApprove, NextStepOf, BeginCancel, MayCancel, BeginExpense, MayReport,
         BeginExtend, MayExtend, BeginSettle, MaySettle, BeginView
<1>4. UNCHANGED <<eventVars, aborts, ledgerVars>>
  BY <1>1, Zenon
     DEF BeginUpdate, MayUpdate, BeginDelete, MayDelete, BeginSubmit, MaySubmit, BeginApprove,
         MayApprove, NextStepOf, BeginCancel, MayCancel, BeginExpense, MayReport,
         BeginExtend, MayExtend, BeginSettle, MaySettle, BeginView
<1>5. \E n : Ordinary(n) /\ req' = [req EXCEPT ![s] = n]
  <2>1. ASSUME NEW b \in Budget, BeginUpdate(s, u, e, b)
        PROVE  \E n : Ordinary(n) /\ req' = [req EXCEPT ![s] = n]
    BY <1>2, <1>3, <2>1 DEF BeginUpdate, MayUpdate, Start, AllOps, EventStatus
  <2>2. ASSUME BeginDelete(s, u, e)
        PROVE  \E n : Ordinary(n) /\ req' = [req EXCEPT ![s] = n]
    BY <1>2, <1>3, <2>2 DEF BeginDelete, MayDelete, Start, AllOps, EventStatus
  <2>3. ASSUME BeginSubmit(s, u, e)
        PROVE  \E n : Ordinary(n) /\ req' = [req EXCEPT ![s] = n]
    BY <1>2, <1>3, <2>3 DEF BeginSubmit, MaySubmit, Start, AllOps, EventStatus
  <2>4. ASSUME NEW v \in ApprovalStatus, BeginApprove(s, u, e, v)
        PROVE  \E n : Ordinary(n) /\ req' = [req EXCEPT ![s] = n]
    <3>1. \E r, t : /\ t \in EventStatus
                    /\ Start(s, [Call("approve", u, e, "decide", t)
                                 EXCEPT !.rows = {r}, !.verdict = v])
      <4>1. \A pending, r : (IF v = "REJECTED" THEN "REJECTED"
                             ELSE IF v = "APPROVED" /\ pending = {r} THEN "FUNDED"
                             ELSE "SUBMITTED") \in EventStatus
        BY DEF EventStatus
      <4>2. QED
        BY <2>4, <4>1, Zenon DEF BeginApprove, MayApprove, NextStepOf
    <3>2. PICK r, t : /\ t \in EventStatus
                      /\ Start(s, [Call("approve", u, e, "decide", t)
                                   EXCEPT !.rows = {r}, !.verdict = v])
      BY <3>1
    <3>3. QED
      BY <1>2, <1>3, <3>2 DEF Start, AllOps
  <2>5. ASSUME BeginCancel(s, u, e)
        PROVE  \E n : Ordinary(n) /\ req' = [req EXCEPT ![s] = n]
    <3>1. Ordinary(CancelRequest(u, e))
      BY <1>2, <1>3 DEF CancelRequest, AllOps, EventStatus
    <3>2. QED
      BY <1>2, <1>3, <2>5, <3>1 DEF BeginCancel, MayCancel, Start, AllOps, EventStatus
  <2>6. ASSUME NEW total \in Spending, NEW rest \in Remaining, BeginExpense(s, u, e, total, rest)
        PROVE  \E n : Ordinary(n) /\ req' = [req EXCEPT ![s] = n]
    BY <1>2, <1>3, <2>6 DEF BeginExpense, MayReport, Start, AllOps, EventStatus
  <2>7. ASSUME BeginExtend(s, u, e) \/ BeginSettle(s, u, e) \/ BeginView(s, u, e)
        PROVE  \E n : Ordinary(n) /\ req' = [req EXCEPT ![s] = n]
    BY <1>2, <1>3, <2>7 DEF BeginExtend, MayExtend, BeginSettle, MaySettle, BeginView, Start,
       AllOps, EventStatus
  <2>8. QED
    BY <1>1, <2>1, <2>2, <2>3, <2>4, <2>5, <2>6, <2>7
<1>6. QED
  BY <1>3, <1>4, <1>5

-----------------------------------------------------------------------------
(* What a step of the events module leaves alone *)

\* An id once used stays used, its row's owner is for good, and so is a deletion.
EventsKept ==
    \A e \in Event :
        /\ Status(e) # "ABSENT" => Status(e)' # "ABSENT" /\ event'[e].creator = event[e].creator
        /\ Status(e) = "DELETED" => Status(e)' = "DELETED"

\* No wallet of a group without a parent changes.
RootsKept ==
    /\ DOMAIN balance' = Group
    /\ \A g \in Group : ParentOf[g] = NoGroup => balance'[g] = balance[g]

LEMMA RowWritten ==
    ASSUME EventsInv, NEW e \in Event, NEW row, event' = [event EXCEPT ![e] = row],
           DOMAIN row = EventFields, row.status \in RowStatus \ {"ABSENT"}, Status(e) # "DELETED",
           IF Status(e) = "ABSENT" THEN row.creator \in User ELSE row.creator = event[e].creator
    PROVE  EventsInv' /\ EventsKept
<1>1. /\ DOMAIN event' = Event /\ event'[e] = row
      /\ \A other \in Event : other # e => event'[other] = event[other]
  BY DEF EventsInv
<1>2. EventsInv'
  BY <1>1 DEF EventsInv, Status
<1>3. EventsKept
  BY <1>1 DEF EventsInv, EventsKept, Status
<1>4. QED
  BY <1>2, <1>3

LEMMA EventsStay ==
    ASSUME EventsInv, UNCHANGED event
    PROVE  EventsInv' /\ EventsKept
  BY DEF EventsInv, EventsKept, Status

\* The row of a running handler is written, its owner and its existence apart.
LEMMA RunningWrites ==
    ASSUME EventsInv, NEW s \in Slot, Ordinary(req[s]), Running(s), NEW x, NEW y
    PROVE  /\ event' = [event EXCEPT ![Ev(s)].budget = x, ![Ev(s)].ended = y]
                => EventsInv' /\ EventsKept
           /\ event' = [event EXCEPT ![Ev(s)].ended = y] => EventsInv' /\ EventsKept
           /\ event' = [event EXCEPT ![Ev(s)].actual = y] => EventsInv' /\ EventsKept
           /\ event' = [event EXCEPT ![Ev(s)].status = x] /\ x \in RowStatus \ {"ABSENT"}
                => EventsInv' /\ EventsKept
<1> DEFINE e == Ev(s)
<1>1. e \in Event /\ Status(e) # "ABSENT" /\ Status(e) # "DELETED" /\ DOMAIN event[e] = EventFields
  BY DEF Ordinary, Running, Deleted, Ev, EventsInv
<1> HIDE DEF e
<1>2. PICK row : row = event[e]
  OBVIOUS
<1>3. ASSUME NEW new \in {[row EXCEPT !.budget = x, !.ended = y], [row EXCEPT !.ended = y],
                          [row EXCEPT !.actual = y], [row EXCEPT !.status = x]},
             new.status \in RowStatus \ {"ABSENT"}, event' = [event EXCEPT ![e] = new]
      PROVE  EventsInv' /\ EventsKept
  <2>1. DOMAIN new = EventFields /\ new.creator = row.creator
    BY <1>1, <1>2 DEF EventFields
  <2>2. QED
    BY <1>1, <1>2, <1>3, <2>1, RowWritten
<1>4. row.status \in RowStatus \ {"ABSENT"} /\ DOMAIN row = EventFields
  BY <1>1, <1>2 DEF Status, EventsInv
<1>5. /\ [row EXCEPT !.budget = x, !.ended = y].status = row.status
      /\ [row EXCEPT !.ended = y].status = row.status
      /\ [row EXCEPT !.actual = y].status = row.status
      /\ [row EXCEPT !.status = x].status = x
  BY <1>4 DEF EventFields
<1>6. event' = [event EXCEPT ![e].budget = x, ![e].ended = y]
        => event' = [event EXCEPT ![e] = [row EXCEPT !.budget = x, !.ended = y]]
  BY <1>2
<1>7. QED
  BY <1>2, <1>3, <1>4, <1>5, <1>6 DEF e

LEMMA ContinueKeepsRows ==
    ASSUME EventsInv, NEW s \in Slot, Ordinary(req[s]), Continue(s)
    PROVE  EventsInv' /\ EventsKept
<1>1. ASSUME NEW late, WriteUpdate(s, late) PROVE EventsInv' /\ EventsKept
  BY <1>1, RunningWrites DEF WriteUpdate
<1>2. ASSUME NEW late, WriteExtend(s, late) PROVE EventsInv' /\ EventsKept
  BY <1>2, RunningWrites DEF WriteExtend
<1>3. CASE WriteDelete(s)
  <2>1. "DELETED" \in RowStatus \ {"ABSENT"}
    BY DEF RowStatus, EventStatus
  <2>2. Running(s) /\ event' = [event EXCEPT ![Ev(s)].status = "DELETED"]
    BY <1>3 DEF WriteDelete
  <2>3. QED
    BY <2>1, <2>2, RunningWrites
<1>4. CASE WriteActual(s)
  BY <1>4, RunningWrites DEF WriteActual
<1>5. ASSUME NEW prev, NEW new \in EventStatus, Running(s), SetStatus(Ev(s), prev, new)
      PROVE  EventsInv' /\ EventsKept
  BY <1>5, RunningWrites DEF SetStatus, EventStatus, RowStatus
<1>6. CASE WriteStatus(s)
  BY <1>5, <1>6 DEF WriteStatus, Ordinary
<1>7. CASE CommitFunded(s)
  BY <1>5, <1>7 DEF CommitFunded, EventStatus
<1>8. CASE Decide(s)
  BY <1>5, <1>8, EventsStay DEF Decide, EventStatus, eventVars
<1>9. CASE \/ ReadWorkflow(s) \/ ClearApprovals(s) \/ InsertApproval(s) \/ ReadForHistory(s)
           \/ CheckFunds(s) \/ Disburse(s) \/ Reread(s) \/ Refund(s) \/ InsertExpense(s)
           \/ LockEvent(s) \/ FailOnDeleted(s) \/ Deadlock(s) \/ TimesOut(s)
  BY <1>9, EventsStay
     DEF ReadWorkflow, ClearApprovals, InsertApproval, ReadForHistory, CheckFunds, Disburse,
         Reread, Refund, InsertExpense, LockEvent, FailOnDeleted, Deadlock, TimesOut, eventVars
<1>10. QED
  BY <1>1, <1>2, <1>3, <1>4, <1>6, <1>7, <1>8, <1>9 DEF Continue

LEMMA OtherWallet ==
    ASSUME DOMAIN balance = Group, NEW h, ParentOf[h] # NoGroup, NEW a,
           balance' = [balance EXCEPT ![h] = a]
    PROVE  RootsKept
  BY DEF RootsKept

LEMMA ContinueKeepsRoots ==
    ASSUME DOMAIN balance = Group, RootsOrganizeNothing,
           NEW s \in Slot, Ordinary(req[s]), Continue(s)
    PROVE  RootsKept
<1>1. ParentOf[GroupOfEvent(Ev(s))] # NoGroup
  BY DEF RootsOrganizeNothing, Ordinary, Ev
<1>2. CASE Disburse(s)
  BY <1>1, <1>2, OtherWallet DEF Disburse, DebitForEvent
<1>3. CASE Refund(s)
  BY <1>1, <1>3, OtherWallet DEF Refund, CreditForEvent
<1>4. CASE ~Disburse(s) /\ ~Refund(s)
  <2>1. UNCHANGED balance
    BY <1>4
       DEF Continue, WriteUpdate, WriteExtend, LockEvent, WriteDelete, ReadWorkflow, ClearApprovals,
           InsertApproval, ReadForHistory, WriteStatus, Decide, CheckFunds, CommitFunded,
           Reread, InsertExpense, WriteActual, FailOnDeleted, Deadlock, TimesOut, ledgerVars
  <2>2. QED
    BY <2>1 DEF RootsKept
<1>5. QED
  BY <1>2, <1>3, <1>4

-----------------------------------------------------------------------------
(* A step of the events module, whatever it is *)

\* An ordinary handler goes on, or begins; any ends; a decision waits.
Advances(s) ==
    \/ ~Deciding(s) /\ Ordinary(req[s])'
    \/ req'[s] = Idle
    \/ Deciding(s) /\ req'[s] = req[s]

StepEffect ==
    /\ EventsInv' /\ EventsKept /\ RootsKept
    /\ DOMAIN req' = Slot /\ \A s \in Slot : Advances(s)

LEMMA FollowsOrdinary ==
    ASSUME NEW s \in Slot, Ordinary(req[s]), EventsKept,
           Follows(req[s], req'[s]) \/ req'[s] = req[s]
    PROVE  Ordinary(req[s])' /\ ~Deciding(s)
  BY DEF Ordinary, Follows, EventsKept, Status, Deciding, AllOps

LEMMA IdleAdvances ==
    ASSUME NEW s \in Slot, req[s] = Idle, req'[s] = Idle
    PROVE  Advances(s)
  BY IdleIs DEF Advances, Deciding

LEMMA Waits ==
    ASSUME DecisionsInv, EventsKept, NEW s \in Slot, req'[s] = req[s]
    PROVE  Advances(s)
<1>1. CASE req[s] = Idle
  BY <1>1, IdleAdvances
<1>2. CASE Ordinary(req[s])
  BY <1>2, FollowsOrdinary DEF Advances
<1>3. CASE Deciding(s)
  BY <1>3 DEF Advances
<1>4. QED
  BY <1>1, <1>2, <1>3 DEF DecisionsInv

LEMMA NextEffect ==
    ASSUME GrantInv, RootsOrganizeNothing, Next
    PROVE  StepEffect
<1> USE DEF GrantInv
<1>0. DOMAIN req = Slot /\ DOMAIN balance = Group
  BY DEF DecisionsInv, GrantsInv
<1>1. CASE Environment
  <2>1. UNCHANGED <<req, ledgerVars>>
    BY <1>1 DEF Environment, Create, EndDatePasses
  <2>2. ASSUME NEW u \in User, NEW e \in Event, NEW b, NEW late, Create(u, e, b, late)
        PROVE  EventsInv' /\ EventsKept
    <3>1. PICK row : row = [status |-> "DRAFT", creator |-> u, budget |-> b, actual |-> 0,
                            ended |-> late]
      OBVIOUS
    <3>2. DOMAIN row = EventFields /\ row.status = "DRAFT" /\ row.creator = u
      BY <3>1 DEF EventFields
    <3>3. event' = [event EXCEPT ![e] = row] /\ Status(e) = "ABSENT"
      BY <2>2, <3>1 DEF Create
    <3>4. QED
      BY <3>2, <3>3, RowWritten DEF RowStatus, EventStatus
  <2>3. ASSUME NEW e \in Event, EndDatePasses(e)
        PROVE  EventsInv' /\ EventsKept
    <3>1. event' = [event EXCEPT ![e] = [event[e] EXCEPT !.ended = TRUE]] /\ Exists(e)
      BY <2>3 DEF EndDatePasses
    <3>2. DOMAIN event[e] = EventFields /\ Status(e) # "ABSENT" /\ Status(e) # "DELETED"
      BY <3>1 DEF EventsInv, Exists, EventStatus
    <3>3. PICK row : row = [event[e] EXCEPT !.ended = TRUE]
      OBVIOUS
    <3>4. DOMAIN row = EventFields /\ row.status = event[e].status
          /\ row.creator = event[e].creator
      BY <3>2, <3>3 DEF EventFields
    <3>5. QED
      BY <3>1, <3>2, <3>3, <3>4, RowWritten DEF Status, EventsInv
  <2>4. EventsInv' /\ EventsKept
    BY <1>1, <2>2, <2>3 DEF Environment
  <2>5. QED
    BY <1>0, <2>1, <2>4, Waits DEF StepEffect, RootsKept, ledgerVars
<1>2. ASSUME NEW s \in Slot, Begin(s)
      PROVE  StepEffect
  <2>1. /\ req[s] = Idle /\ UNCHANGED <<eventVars, aborts, ledgerVars>>
        /\ \E n : Ordinary(n) /\ req' = [req EXCEPT ![s] = n]
    BY <1>2, BeginIs
  <2>2. PICK n : Ordinary(n) /\ req' = [req EXCEPT ![s] = n]
    BY <2>1
  <2>3. /\ DOMAIN req' = Slot /\ req'[s] = n
        /\ \A t \in Slot : t # s => req'[t] = req[t]
    BY <1>0, <2>2, OneSlot
  <2>4. EventsInv' /\ EventsKept /\ RootsKept
    BY <1>0, <2>1, EventsStay DEF eventVars, ledgerVars, RootsKept
  <2>5. Ordinary(req[s])' /\ ~Deciding(s)
    BY <2>1, <2>2, <2>3, IdleIs DEF Ordinary, Status, eventVars, Deciding
  <2>6. QED
    BY <2>3, <2>4, <2>5, Waits DEF StepEffect, Advances
<1>3. ASSUME NEW s \in Slot, Continue(s), Ordinary(req[s])
      PROVE  StepEffect
  <2>1. EventsInv' /\ EventsKept /\ RootsKept
    BY <1>0, <1>3, ContinueKeepsRows, ContinueKeepsRoots
  <2>2. Goes(s)
    BY <1>0, <1>3, OrdinaryGoes
  <2>3. Advances(s)
    BY <1>3, <2>1, <2>2, FollowsOrdinary DEF Goes, Advances, Ordinary, Deciding, AllOps
  <2>4. ASSUME NEW t \in Slot, t # s PROVE Advances(t)
    <3>1. CASE req'[t] = req[t]
      BY <2>1, <3>1, Waits
    <3>2. CASE req[t].op = "approve" /\ req'[t] = [req[t] EXCEPT !.gone = TRUE]
      <4>1. Ordinary(req[t])
        BY <3>2, IdleIs DEF DecisionsInv, Deciding
      <4>2. Follows(req[t], req'[t])
        <5>1. Follows(req[t], [req[t] EXCEPT !.gone = TRUE])
          BY <4>1, PcFollows
        <5>2. QED
          BY <3>2, <5>1
      <4>3. QED
        BY <2>1, <4>1, <4>2, FollowsOrdinary DEF Advances
    <3>3. QED
      BY <2>2, <2>4, <3>1, <3>2 DEF Goes
  <2>5. QED
    BY <2>1, <2>2, <2>3, <2>4 DEF StepEffect, Goes
<1>4. ASSUME NEW s \in Slot, FailOnDeleted(s) \/ Abort(s)
      PROVE  StepEffect
  <2>1. /\ DOMAIN req' = Slot /\ req'[s] = Idle
        /\ \A t \in Slot : t # s => req'[t] = req[t]
    BY <1>0, <1>4, OneSlot DEF FailOnDeleted, Abort, Finish
  <2>2. EventsInv' /\ EventsKept /\ RootsKept
    BY <1>0, <1>4, EventsStay DEF FailOnDeleted, Abort, eventVars, ledgerVars, RootsKept
  <2>3. QED
    BY <2>1, <2>2, Waits DEF StepEffect, Advances
<1>5. ASSUME NEW s \in Slot, Continue(s)
      PROVE  Ordinary(req[s]) \/ FailOnDeleted(s)
  <2>1. CASE req[s] = Idle
    <3>1. ~At(s, "delete", "cascade") /\ ~Running(s)
      BY <2>1, IdleIs DEF At, Running
    <3>2. FALSE
      BY <1>5, <2>1, <3>1, Zenon
         DEF Continue, WriteUpdate, WriteExtend, LockEvent, WriteDelete, ReadWorkflow,
             ClearApprovals, InsertApproval, ReadForHistory, WriteStatus, Decide, CheckFunds,
             Disburse, CommitFunded, Reread, Refund, InsertExpense, WriteActual, FailOnDeleted,
             Deadlock, Deadlocked, TimesOut
    <3>3. QED
      BY <3>2
  <2>2. CASE Deciding(s) /\ Decides(s)
    BY <1>0, <1>5, <2>2, DecisionsWait
  <2>3. QED
    BY <2>1, <2>2 DEF DecisionsInv
<1>6. QED
  BY <1>1, <1>2, <1>3, <1>4, <1>5 DEF Next

-----------------------------------------------------------------------------
(* What becomes of the decisions in a step *)

\* In the slot stands no call, an ordinary one, or a decision.
SlotInv(s) == req[s] = Idle \/ Ordinary(req[s]) \/ (Deciding(s) /\ Decides(s))

\* A request is left alone, but for its status and its event.
LeftOpen(f) ==
    /\ fund[f].status # "ABSENT" => fund'[f].status # "ABSENT"
    /\ fund'[f].amount = fund[f].amount /\ fund'[f].from = fund[f].from

LEMMA KeepsDeciding ==
    ASSUME NEW s \in Slot, Deciding(s), Decides(s), EventsKept,
           fundOf'[s] = fundOf[s], LeftOpen(fundOf[s]),
           DOMAIN req'[s] = HandlerFields,
           req'[s].op = req[s].op, req'[s].user = req[s].user, req'[s].event = req[s].event,
           req'[s].target = req[s].target, req'[s].amount = req[s].amount,
           IF req[s].op = "approvefund" THEN req'[s].pc \in ApprovePc
           ELSE req'[s].pc \in RejectPc /\ (req'[s].pc = "takeover" => Ev(s) # NoEvent),
           fund'[fundOf[s]].event = fund[fundOf[s]].event \/ Deleted(Ev(s))',
           InFundTx(s)' => ~Deleted(Ev(s))'
    PROVE  Deciding(s)' /\ Decides(s)'
<1>1. Deciding(s)'
  BY DEF Deciding
<1>2. /\ fundOf'[s] \in FundRequest /\ fund'[fundOf'[s]].status # "ABSENT"
      /\ req'[s].user \in HoldersOf("TREASURER", ParentOf[fund'[fundOf'[s]].from])
      /\ req'[s].target \in EventStatus
  BY DEF Decides, LeftOpen, Target
<1>3. \/ req'[s].op = "approvefund" /\ req'[s].pc \in ApprovePc
                                    /\ req'[s].amount = fund'[fundOf'[s]].amount
      \/ req'[s].op = "rejectfund" /\ req'[s].pc \in RejectPc
                                   /\ (req'[s].pc = "takeover" => req'[s].event # NoEvent)
  BY DEF Deciding, Decides, LeftOpen, Ev
<1>4. Deleted(Ev(s))' \/ fund'[fundOf'[s]].event = Ev(s)'
  BY DEF Decides, Deleted, Ev, EventsKept, Status
<1>5. QED
  BY <1>1, <1>2, <1>3, <1>4 DEF Decides, Target, HoldersOf, Ev

\* It may have been decided, and no more.
Stays(f) == LeftOpen(f) /\ fund'[f].event = fund[f].event

NothingDeleted == \A e \in Event : Status(e)' = "DELETED" => Status(e) = "DELETED"

LEMMA SlotStays ==
    ASSUME NEW s \in Slot, SlotInv(s), EventsKept, NothingDeleted, req'[s] = req[s],
           Deciding(s) => fundOf'[s] = fundOf[s] /\ Stays(fundOf[s])
    PROVE  SlotInv(s)'
<1>1. CASE req[s] = Idle
  BY <1>1 DEF SlotInv, Idle
<1>2. CASE Ordinary(req[s])
  BY <1>2, FollowsOrdinary DEF SlotInv
<1>3. CASE Deciding(s) /\ Decides(s)
  <2>1. IF req[s].op = "approvefund" THEN req'[s].pc \in ApprovePc
        ELSE req'[s].pc \in RejectPc /\ (req'[s].pc = "takeover" => Ev(s) # NoEvent)
    BY <1>3 DEF Decides
  <2>2. InFundTx(s)' => ~Deleted(Ev(s))'
    BY <1>3 DEF Decides, InFundTx, Deleted, Ev, NothingDeleted, Status
  <2>3. QED
    BY <1>3, <2>1, <2>2, KeepsDeciding DEF SlotInv, Stays, Decides
<1>4. QED
  BY <1>1, <1>2, <1>3 DEF SlotInv

\* One slot moves.
LEMMA OneSlotMoves ==
    ASSUME DecisionsInv, EventsKept, NothingDeleted, NEW s \in Slot, NEW n,
           req' = [req EXCEPT ![s] = n], DOMAIN fundOf' = Slot, SlotInv(s)',
           \A t \in Slot : t # s /\ Deciding(t) => fundOf'[t] = fundOf[t] /\ Stays(fundOf[t])
    PROVE  DecisionsInv'
<1>1. /\ DOMAIN req' = Slot /\ req'[s] = n
      /\ \A t \in Slot : t # s => req'[t] = req[t]
  BY OneSlot DEF DecisionsInv
<1>2. \A t \in Slot : SlotInv(t)'
  BY <1>1, SlotStays DEF DecisionsInv, SlotInv
<1>3. QED
  BY <1>1, <1>2 DEF DecisionsInv, SlotInv

LEMMA SlotsAre == DecisionsInv => \A s \in Slot : SlotInv(s)
  BY DEF DecisionsInv, SlotInv

LEMMA AllStay ==
    ASSUME UNCHANGED fund
    PROVE  \A f : Stays(f)
  BY DEF Stays, LeftOpen

-----------------------------------------------------------------------------
(* What has left the wallets of the groups without a parent *)

LEMMA SettledFinite ==
    ASSUME RequestsInv, NEW g
    PROVE  /\ IsFiniteSet(Settled(g)) /\ Settled(g) \subseteq FundRequest
           /\ \A f \in FundRequest : AmountOf[f] \in Nat
<1>1. IsFiniteSet(FundRequest)
  BY FundingAssumption, Zenon
<1>2. Settled(g) \in SUBSET FundRequest
  BY DEF Settled
<1>3. QED
  BY <1>1, <1>2, FS_Subset DEF RequestsInv, FundRow, AmountOf

\* No more is settled than was, and the wallets stay.
LEMMA GrantsStay ==
    ASSUME GrantsInv, RootsKept, RequestsInv, RequestsInv',
           \A f \in FundRequest : Done(f)' => /\ Done(f) /\ fund'[f].amount = fund[f].amount
                                              /\ fund'[f].from = fund[f].from
    PROVE  GrantsInv'
<1>1. DOMAIN balance' = Group
  BY DEF RootsKept
<1>2. ASSUME NEW g \in Group, ParentOf[g] = NoGroup
      PROVE  balance'[g] \in Int
             /\ balance'[g] <= Opening[g] - SumFunctionOnSet(AmountOf', Settled(g)')
  <2>1. PICK a, b, S, T : a = AmountOf /\ b = AmountOf' /\ S = Settled(g) /\ T = Settled(g)'
    OBVIOUS
  <2>2. T \in SUBSET S /\ T \subseteq FundRequest
    BY <2>1 DEF Settled, Target
  <2>3. \A f \in T : b[f] = a[f]
    BY <2>1, <2>2 DEF Settled, AmountOf
  <2>4. IsFiniteSet(S) /\ IsFiniteSet(T) /\ \A f \in S : a[f] \in Nat
    BY <2>1, <2>2, SettledFinite, FS_Subset
  <2>5. Sum(b, T) = Sum(a, T) /\ Sum(a, T) <= Sum(a, S)
    BY <2>2, <2>3, <2>4, SumSame, SumLess
  <2>6. Sum(a, T) \in Int /\ Sum(a, S) \in Int /\ Opening[g] \in Int
    BY <2>2, <2>4, SumInt, LedgerAssumption
  <2>7. balance'[g] = balance[g] /\ balance[g] \in Int /\ balance[g] <= Opening[g] - Sum(a, S)
    BY <1>2, <2>1 DEF RootsKept, GrantsInv, Sum
  <2>8. balance'[g] <= Opening[g] - Sum(b, T)
    BY <2>5, <2>6, <2>7
  <2>9. QED
    BY <2>1, <2>7, <2>8 DEF Sum
<1>3. QED
  BY <1>1, <1>2 DEF GrantsInv

\* One more request is paid, or one that was paid already once more.
LEMMA GrantsGrow ==
    ASSUME GrantsInv, RequestsInv, UNCHANGED fund, NEW f \in FundRequest,
           \A h \in FundRequest : Done(h)' => Done(h) \/ h = f,
           DOMAIN balance' = Group,
           \A g \in Group : ParentOf[g] = NoGroup =>
              balance'[g] = IF g = Target(f) THEN balance[g] - fund[f].amount ELSE balance[g]
    PROVE  GrantsInv'
<1>1. ASSUME NEW g \in Group, ParentOf[g] = NoGroup
      PROVE  balance'[g] \in Int
             /\ balance'[g] <= Opening[g] - SumFunctionOnSet(AmountOf', Settled(g)')
  <2>1. AmountOf' = AmountOf /\ \A h \in FundRequest : AmountOf[h] = fund[h].amount
    BY DEF AmountOf
  <2>2. PICK a, S, T : a = AmountOf /\ S = Settled(g) /\ T = Settled(g)'
    OBVIOUS
  <2>3. /\ balance[g] \in Int /\ balance[g] <= Opening[g] - Sum(a, S) /\ Opening[g] \in Int
        /\ IsFiniteSet(S) /\ S \subseteq FundRequest /\ \A x \in FundRequest : a[x] \in Nat
        /\ T \subseteq FundRequest
    BY <1>1, <2>2, SettledFinite, LedgerAssumption DEF GrantsInv, Sum, Settled
  <2>4. IsFiniteSet(S \cup {f}) /\ Sum(a, S) \in Int /\ Sum(a, S \cup {f}) \in Int
    BY <2>3, FS_AddElement, SumInt
  <2>5. CASE g = Target(f)
    <3>1. T \in SUBSET (S \cup {f})
      BY <2>2, <2>5 DEF Settled, Target
    <3>2. Sum(a, T) <= Sum(a, S \cup {f}) /\ Sum(a, T) \in Int
      BY <2>3, <2>4, <3>1, SumLess, SumInt, FS_Subset
    <3>3. Sum(a, S \cup {f}) <= a[f] + Sum(a, S)
      <4>1. CASE f \in S
        <5>1. S \cup {f} = S /\ a[f] \in Nat
          BY <2>3, <4>1
        <5>2. Sum(a, S \cup {f}) = Sum(a, S)
          BY <5>1, Zenon
        <5>3. QED
          BY <2>4, <5>1, <5>2
      <4>2. CASE f \notin S
        BY <2>3, <2>4, <4>2, SumAdd
      <4>3. QED
        BY <4>1, <4>2
    <3>4. balance'[g] = balance[g] - a[f] /\ a[f] \in Int
      BY <1>1, <2>1, <2>2, <2>3, <2>5
    <3>5. balance'[g] \in Int /\ balance'[g] <= Opening[g] - Sum(a, T)
      BY <2>3, <2>4, <3>2, <3>3, <3>4
    <3>6. QED
      BY <2>1, <2>2, <3>5 DEF Sum
  <2>6. CASE g # Target(f)
    <3>1. T \in SUBSET S
      BY <2>2, <2>6 DEF Settled, Target
    <3>2. Sum(a, T) <= Sum(a, S) /\ Sum(a, T) \in Int
      BY <2>3, <3>1, SumLess, SumInt, FS_Subset
    <3>3. balance'[g] \in Int /\ balance'[g] <= Opening[g] - Sum(a, T)
      BY <1>1, <2>3, <2>4, <2>6, <3>2
    <3>4. QED
      BY <2>1, <2>2, <3>3 DEF Sum
  <2>7. QED
    BY <2>5, <2>6
<1>2. QED
  BY <1>1 DEF GrantsInv

-----------------------------------------------------------------------------
(* The steps of the events module, with what they do to the fund requests *)

LEMMA DecidesWhen ==
    ASSUME DecisionsInv, NEW s \in Slot, Deciding(s)
    PROVE  Decides(s) /\ req[s] # Idle
  BY IdleIs DEF DecisionsInv, Deciding, Ordinary, AllOps

LEMMA ComposedStep ==
    ASSUME GrantInv, StepEffect, Composed
    PROVE  GrantInv'
<1> USE DEF GrantInv
<1>1. /\ \A f \in FundRequest :
            fund'[f] = IF fund[f].event # NoEvent /\ event'[fund[f].event].status = "DELETED"
                       THEN [fund[f] EXCEPT !.event = NoEvent] ELSE fund[f]
      /\ DOMAIN fund' = FundRequest
      /\ \A s \in Slot : fundOf'[s] = IF req'[s] = Idle THEN NoRequest ELSE fundOf[s]
      /\ DOMAIN fundOf' = Slot /\ job' = job
  BY DEF Composed
<1>2. \A f \in FundRequest : /\ LeftOpen(f) /\ fund'[f] \in FundRow
                             /\ \/ fund'[f].event = fund[f].event
                                \/ /\ fund[f].event # NoEvent /\ fund'[f].event = NoEvent
                                   /\ event'[fund[f].event].status = "DELETED"
  BY <1>1 DEF RequestsInv, FundRow, LeftOpen
<1>3. RequestsInv'
  <2>1. fund' \in [FundRequest -> FundRow] /\ job' = IdleJob
    <3>1. fund' = [f \in FundRequest |-> fund'[f]]
      BY DEF Composed
    <3>2. QED
      BY <1>1, <1>2, <3>1 DEF RequestsInv
  <2>2. ASSUME NEW f \in FundRequest, fund'[f].event # NoEvent
        PROVE  Exists(fund[f].event)'
    <3>1. fund[f].event # NoEvent /\ fund'[f].event = fund[f].event /\ fund[f].event \in Event
      BY <1>2, <2>2 DEF RequestsInv, FundRow
    <3>2. event'[fund[f].event].status # "DELETED"
      BY <1>1, <2>2, <3>1 DEF RequestsInv, FundRow
    <3>3. Status(fund[f].event) # "ABSENT"
      BY <3>1 DEF RequestsInv, Exists, EventStatus
    <3>4. event'[fund[f].event].status \in RowStatus \ {"ABSENT", "DELETED"}
      BY <3>1, <3>2, <3>3 DEF StepEffect, EventsInv, EventsKept, Status
    <3>5. QED
      BY <3>1, <3>4 DEF Exists, Status, RowStatus
  <2>3. QED
    BY <2>1, <2>2 DEF RequestsInv
<1>4. ASSUME NEW s \in Slot, Deciding(s), req'[s] = req[s]
      PROVE  Deciding(s)' /\ Decides(s)' /\ fundOf'[s] = fundOf[s]
  <2>1. Decides(s) /\ fundOf'[s] = fundOf[s] /\ fundOf[s] \in FundRequest
    BY <1>1, <1>4, DecidesWhen DEF Decides
  <2>2. fund'[fundOf[s]].event = fund[fundOf[s]].event \/ Deleted(Ev(s))'
    <3>1. Deleted(Ev(s)) => Deleted(Ev(s))'
      BY <1>4 DEF Deleted, Ev, StepEffect, EventsKept
    <3>2. ASSUME fund[fundOf[s]].event = Ev(s), fund[fundOf[s]].event # NoEvent,
                 event'[fund[fundOf[s]].event].status = "DELETED"
          PROVE  Deleted(Ev(s))'
      BY <1>4, <2>1, <3>2 DEF Deleted, Ev, Status, RequestsInv, FundRow
    <3>3. QED
      BY <1>2, <2>1, <3>1, <3>2 DEF Decides
  <2>3. ASSUME InFundTx(s)', Deleted(Ev(s))'
        PROVE  FALSE
    <3>1. InFundTx(s) /\ fund[fundOf[s]].event = Ev(s) /\ Ev(s) \in Event
      BY <1>4, <2>1, <2>3 DEF InFundTx, Decides, Deleted, Ev
    <3>2. Ev(s) # NoEvent /\ Exists(Ev(s))
      BY <2>1, <3>1, LifecycleAssumption DEF RequestsInv
    <3>3. ~FundRowFree(fundOf[s])
      BY <3>1 DEF FundRowFree
    <3>4. event'[Ev(s)].status # "DELETED"
      BY <2>1, <3>1, <3>2, <3>3 DEF Composed
    <3>5. QED
      BY <1>4, <2>3, <3>4 DEF Deleted, Ev, Status
  <2>4. IF req[s].op = "approvefund" THEN req'[s].pc \in ApprovePc
        ELSE req'[s].pc \in RejectPc /\ (req'[s].pc = "takeover" => Ev(s) # NoEvent)
    BY <1>4, <2>1 DEF Decides
  <2>5. EventsKept /\ LeftOpen(fundOf[s])
    BY <1>2, <2>1 DEF StepEffect
  <2>6. DOMAIN req'[s] = HandlerFields
    BY <1>4, <2>1 DEF Decides
  <2>7. QED
    BY <1>4, <2>1, <2>2, <2>3, <2>4, <2>5, <2>6, KeepsDeciding
<1>5. ASSUME NEW s \in Slot, Deciding(s)'
      PROVE  Deciding(s) /\ req'[s] = req[s]
  BY <1>5, IdleIs DEF StepEffect, Advances, Deciding, Ordinary, AllOps
<1>6. DecisionsInv'
  <2>1. \A s \in Slot : SlotInv(s)'
    BY <1>4, IdleIs DEF StepEffect, Advances, SlotInv, Idle
  <2>2. QED
    BY <1>1, <2>1 DEF DecisionsInv, SlotInv, StepEffect
<1>7. ASSUME NEW s \in Slot, Paid(s)'
      PROVE  Paid(s) /\ fundOf'[s] = fundOf[s]
  <2>1. Deciding(s) /\ req'[s] = req[s]
    BY <1>5, <1>7 DEF Paid, Deciding
  <2>2. QED
    BY <1>4, <1>7, <2>1 DEF Paid
<1>8. GrantsInv'
  <2>1. \A f \in FundRequest : Done(f)' => Done(f)
    <3>1. \A f \in FundRequest : fund'[f].status = fund[f].status
      BY <1>1 DEF RequestsInv, FundRow
    <3>2. QED
      BY <1>7, <3>1 DEF Done
  <2>2. QED
    BY <1>2, <1>3, <2>1, GrantsStay DEF StepEffect, LeftOpen
<1>9. QED
  BY <1>3, <1>6, <1>8 DEF StepEffect

-----------------------------------------------------------------------------
(* The steps of the fund requests *)

\* A step of one slot that touches neither a request nor a wallet of its target.
LEMMA QuietStep ==
    ASSUME GrantInv, NEW s \in Slot, NEW n, req' = [req EXCEPT ![s] = n],
           UNCHANGED <<event, fund, job>>, RootsKept,
           DOMAIN fundOf' = Slot, \A t \in Slot : t # s => fundOf'[t] = fundOf[t],
           SlotInv(s)', Paid(s)' => Paid(s) /\ fundOf'[s] = fundOf[s]
    PROVE  GrantInv'
<1> USE DEF GrantInv
<1>1. EventsInv' /\ EventsKept /\ NothingDeleted
  BY EventsStay DEF NothingDeleted, Status
<1>2. RequestsInv'
  BY DEF RequestsInv, Exists, Status
<1>3. DecisionsInv'
  BY <1>1, AllStay, OneSlotMoves
<1>4. \A t \in Slot : Paid(t)' => Paid(t) /\ fundOf'[t] = fundOf[t]
  BY OneSlot DEF Paid, DecisionsInv
<1>5. \A f \in FundRequest : Done(f)' => Done(f)
  BY <1>4 DEF Done
<1>6. GrantsInv'
  BY <1>2, <1>5, GrantsStay
<1>7. QED
  BY <1>1, <1>2, <1>3, <1>6

\* The same, of an ordinary handler or an empty slot.
LEMMA OrdinaryStep ==
    ASSUME GrantInv, NEW s \in Slot, NEW n, req' = [req EXCEPT ![s] = n],
           n = Idle \/ Ordinary(n), ~Deciding(s), UNCHANGED <<event, fund, fundOf, job, balance>>
    PROVE  GrantInv'
<1>1. req'[s] = n /\ DOMAIN fundOf = Slot /\ DOMAIN balance = Group
  BY OneSlot DEF GrantInv, DecisionsInv, GrantsInv
<1>2. n.op \notin {"approvefund", "rejectfund"}
  BY IdleIs DEF Ordinary, AllOps
<1>3. SlotInv(s)'
  BY <1>1 DEF SlotInv, Ordinary, Idle, Status
<1>4. ~Paid(s) /\ ~Paid(s)'
  BY <1>1, <1>2 DEF Paid, Deciding
<1>5. RootsKept
  BY <1>1 DEF RootsKept
<1>6. QED
  BY <1>1, <1>2, <1>3, <1>4, <1>5, QuietStep

\* A decision goes on, or is given up before it has paid.
LEMMA DecisionStep ==
    ASSUME GrantInv, NEW s \in Slot, Deciding(s), Running(s), NEW n,
           req' = [req EXCEPT ![s] = n], UNCHANGED <<event, fund, fundOf, job>>, RootsKept,
           DOMAIN n = HandlerFields, n.op = req[s].op, n.user = req[s].user,
           n.event = req[s].event, n.target = req[s].target, n.amount = req[s].amount,
           IF req[s].op = "approvefund" THEN n.pc \in ApprovePc
           ELSE n.pc \in RejectPc /\ (n.pc = "takeover" => Ev(s) # NoEvent),
           n.pc \in {"readEvent", "commitFund"} <=> req[s].pc \in {"readEvent", "commitFund"}
    PROVE  GrantInv'
<1>1. req'[s] = n /\ DOMAIN fundOf = Slot /\ Decides(s)
  BY OneSlot, DecidesWhen DEF GrantInv, DecisionsInv
<1>2. EventsKept
  BY EventsStay DEF GrantInv
<1>3. ~Deleted(Ev(s))'
  BY <1>1 DEF Running, Deleted, Ev, Status
<1>4. Deciding(s)' /\ Decides(s)'
  BY <1>1, <1>2, <1>3, KeepsDeciding DEF LeftOpen
<1>5. Paid(s)' <=> Paid(s)
  BY <1>1 DEF Paid
<1>6. QED
  BY <1>1, <1>4, <1>5, QuietStep DEF SlotInv

LEMMA GivenUp ==
    ASSUME GrantInv, NEW s \in Slot, FinishFund(s), UNCHANGED <<event, fund, job, balance>>
    PROVE  GrantInv'
<1>1. req'[s] = Idle /\ DOMAIN fundOf' = Slot /\ DOMAIN balance = Group
      /\ \A t \in Slot : t # s => fundOf'[t] = fundOf[t]
  BY OneSlot DEF GrantInv, DecisionsInv, GrantsInv, FinishFund, Finish
<1>2. ~Paid(s)' /\ SlotInv(s)'
  BY <1>1, IdleIs DEF Paid, SlotInv, Idle
<1>3. RootsKept
  BY <1>1 DEF RootsKept
<1>4. QED
  BY <1>1, <1>2, <1>3, QuietStep, IdleIs DEF FinishFund, Finish

LEMMA StatusSet ==
    ASSUME EventsInv, NEW e \in Event, Exists(e), NEW prev, NEW new \in EventStatus,
           SetStatus(e, prev, new)
    PROVE  /\ EventsInv' /\ EventsKept /\ NothingDeleted
           /\ \A x \in Event : Exists(x) => Exists(x)'
<1>1. PICK row : row = [event[e] EXCEPT !.status = new]
  OBVIOUS
<1>2. DOMAIN row = EventFields /\ row.status = new /\ row.creator = event[e].creator
  BY <1>1 DEF EventsInv, EventFields
<1>3. event' = [event EXCEPT ![e] = row]
  BY <1>1 DEF SetStatus
<1>4. Status(e) # "ABSENT" /\ Status(e) # "DELETED" /\ new \in RowStatus \ {"ABSENT"}
      /\ new # "DELETED"
  BY DEF Exists, EventStatus, RowStatus
<1>5. EventsInv' /\ EventsKept
  BY <1>2, <1>3, <1>4, RowWritten
<1>6. event'[e] = row /\ \A x \in Event : x # e => event'[x] = event[x]
  BY <1>3 DEF EventsInv
<1>7. QED
  BY <1>2, <1>4, <1>5, <1>6 DEF NothingDeleted, Exists, Status

\* The decision is written; an approval has paid.
LEMMA DecisionWritten ==
    ASSUME GrantInv, NEW s \in Slot, Deciding(s),
           NEW verdict \in {"APPROVED", "REJECTED"}, verdict = "APPROVED" => Paid(s),
           fund' = [fund EXCEPT ![fundOf[s]].status = verdict], FinishFund(s),
           EventsInv', EventsKept, NothingDeleted, \A x \in Event : Exists(x) => Exists(x)',
           UNCHANGED <<balance, job>>
    PROVE  GrantInv'
<1> USE DEF GrantInv
<1>1. PICK f \in FundRequest : f = fundOf[s]
  BY DecidesWhen DEF Decides
<1>2. /\ req' = [req EXCEPT ![s] = Idle] /\ req'[s] = Idle
      /\ DOMAIN fundOf' = Slot
      /\ \A t \in Slot : t # s => req'[t] = req[t] /\ fundOf'[t] = fundOf[t]
  BY OneSlot DEF DecisionsInv, FinishFund, Finish
<1>3. /\ fund' = [fund EXCEPT ![f] = [fund[f] EXCEPT !.status = verdict]]
      /\ fund' \in [FundRequest -> FundRow]
      /\ \A h \in FundRequest : h # f => fund'[h] = fund[h]
      /\ fund'[f].status = verdict
      /\ fund'[f].amount = fund[f].amount /\ fund'[f].from = fund[f].from
      /\ fund'[f].event = fund[f].event
  BY <1>1 DEF RequestsInv, FundRow
<1>4. RequestsInv'
  BY <1>3 DEF RequestsInv, FundRow
<1>5. \A h \in FundRequest : Stays(h)
  BY <1>3 DEF Stays, LeftOpen
<1>6. DecisionsInv'
  <2>1. SlotInv(s)'
    BY <1>2 DEF SlotInv, Idle
  <2>2. \A t \in Slot : t # s /\ Deciding(t) => fundOf'[t] = fundOf[t] /\ Stays(fundOf[t])
    BY <1>2, <1>5, DecidesWhen DEF Decides
  <2>3. QED
    BY <1>2, <2>1, <2>2, OneSlotMoves
<1>7. \A t \in Slot : Paid(t)' => Paid(t) /\ fundOf'[t] = fundOf[t]
  BY <1>2, IdleIs DEF Paid
<1>8. \A h \in FundRequest : Done(h)' => Done(h)
  BY <1>1, <1>3, <1>7 DEF Done
<1>9. GrantsInv'
  <2>1. RootsKept
    BY DEF RootsKept, GrantsInv
  <2>2. QED
    BY <1>4, <1>5, <1>8, <2>1, GrantsStay DEF Stays, LeftOpen
<1>10. QED
  BY <1>4, <1>6, <1>9

\* A request is created: nobody decides it yet.
LEMMA NewRequest ==
    ASSUME GrantInv, NEW f \in Unused, NEW g \in Group, NEW e \in Event \cup {NoEvent},
           e # NoEvent => Exists(e), NEW a \in Nat, NewFund(f, g, e, a),
           UNCHANGED <<event, balance, fundOf, job>>,
           \A t \in Slot : Paid(t)' <=> Paid(t)
    PROVE  /\ RequestsInv' /\ GrantsInv'
           /\ \A t \in Slot : Deciding(t) => Stays(fundOf[t])
<1> USE DEF GrantInv
<1>1. f \in FundRequest /\ fund[f].status = "ABSENT"
  BY DEF Unused
<1>2. PICK row \in FundRow : row = [status |-> "PENDING", event |-> e, from |-> g, amount |-> a,
                                    approved |-> 0]
  BY DEF FundRow
<1>3. fund' = [fund EXCEPT ![f] = row] /\ fund'[f] = row
      /\ \A h \in FundRequest : h # f => fund'[h] = fund[h]
  BY <1>1, <1>2 DEF NewFund, RequestsInv
<1>4. RequestsInv'
  BY <1>2, <1>3 DEF RequestsInv, Exists, Status
<1>5. \A t \in Slot : Deciding(t) => fundOf[t] # f /\ fundOf[t] \in FundRequest
  BY <1>1, DecidesWhen DEF Decides
<1>6. ~Done(f) /\ ~Done(f)'
  BY <1>1, <1>2, <1>3, <1>5 DEF Done, Paid, Deciding
<1>7. \A h \in FundRequest : h # f => (Done(h)' <=> Done(h))
  BY <1>3 DEF Done
<1>8. RootsKept
  BY DEF RootsKept, GrantsInv
<1>9. GrantsInv'
  BY <1>3, <1>4, <1>6, <1>7, <1>8, GrantsStay
<1>10. QED
  BY <1>3, <1>4, <1>5, <1>9 DEF Stays, LeftOpen

LEMMA CreateRequestStep ==
    ASSUME GrantInv, NEW u \in User, NEW e \in Event \cup {NoEvent}, NEW a \in FundAmount,
           CreateRequest(u, e, a)
    PROVE  GrantInv'
<1> USE DEF GrantInv
<1>1. /\ GroupOf[u] \in Group /\ a \in Nat /\ (e # NoEvent => Exists(e))
      /\ \E f \in Unused : NewFund(f, GroupOf[u], e, a)
      /\ UNCHANGED <<eventVars, req, ledgerVars, fundOf, job>>
  <2>1. FundAmount \subseteq Nat \ {0}
    BY FundingAssumption, Zenon
  <2>2. QED
    BY <2>1, OrganizationAssumption DEF CreateRequest
<1>2. RequestsInv' /\ GrantsInv'
      /\ \A t \in Slot : Deciding(t) => Stays(fundOf[t])
  BY <1>1, NewRequest DEF eventVars, ledgerVars, Paid
<1>3. EventsInv' /\ EventsKept /\ NothingDeleted
  BY <1>1, EventsStay DEF eventVars, NothingDeleted, Status
<1>4. \A s \in Slot : SlotInv(s)'
  BY <1>1, <1>2, <1>3, SlotsAre, SlotStays
<1>5. DecisionsInv'
  BY <1>1, <1>4 DEF DecisionsInv, SlotInv, Deciding
<1>6. QED
  BY <1>2, <1>3, <1>5

LEMMA AskerIs ==
    ASSUME DecisionsInv, NEW s \in Slot, req[s].op = "askfund"
    PROVE  Ordinary(req[s]) /\ ~Deciding(s)
  BY IdleIs DEF DecisionsInv, Deciding

LEMMA GotoStep ==
    ASSUME GrantInv, NEW s \in Slot, Ordinary(req[s]), NEW pc, Goto(s, pc),
           UNCHANGED <<event, fund, fundOf, job, balance>>
    PROVE  GrantInv'
<1>1. req' = [req EXCEPT ![s] = [req[s] EXCEPT !.pc = pc]]
  BY DEF Goto
<1>2. PICK n : n = [req[s] EXCEPT !.pc = pc]
  OBVIOUS
<1>3. Ordinary(n) /\ ~Deciding(s)
  BY <1>2 DEF Ordinary, Deciding, AllOps, HandlerFields
<1>4. QED
  BY <1>1, <1>2, <1>3, OrdinaryStep

LEMMA AskStep ==
    ASSUME GrantInv, NEW s \in Slot,
           \/ \E u \in User, e \in Event, a \in FundAmount : BeginAsk(s, u, e, a)
           \/ CheckPending(s) \/ CreateFund(s)
    PROVE  GrantInv'
<1> USE DEF GrantInv
<1>1. ASSUME NEW u \in User, NEW e \in Event, NEW a \in FundAmount, BeginAsk(s, u, e, a)
      PROVE  GrantInv'
  <2>1. a \in Nat /\ Exists(e) /\ Status(e) # "ABSENT"
    <3>1. FundAmount \subseteq Nat \ {0}
      BY FundingAssumption, Zenon
    <3>2. QED
      BY <1>1, <3>1 DEF BeginAsk, MayAskFund, Exists, EventStatus
  <2>2. PICK n : n = [Call("askfund", u, e, "checkPending", "UNDER_REVIEW") EXCEPT !.amount = a]
    OBVIOUS
  <2>3. Ordinary(n)
    BY <2>1, <2>2 DEF Call, Idle, Ordinary, HandlerFields, EventStatus
  <2>4. req' = [req EXCEPT ![s] = n] /\ req[s] = Idle
    BY <1>1, <2>2 DEF BeginAsk, MayAskFund, Start, MayCallFund
  <2>5. ~Deciding(s) /\ UNCHANGED <<event, fund, fundOf, job, balance>>
    BY <1>1, <2>4, IdleIs DEF BeginAsk, MayAskFund, Deciding, eventVars, ledgerVars, fundVars
  <2>6. QED
    BY <2>3, <2>4, <2>5, OrdinaryStep
<1>2. CASE CheckPending(s)
  <2>1. Ordinary(req[s]) /\ ~Deciding(s)
    BY <1>2, AskerIs DEF CheckPending, At
  <2>2. UNCHANGED <<event, fund, fundOf, job, balance>>
    BY <1>2 DEF CheckPending, eventVars, ledgerVars, fundVars
  <2>3. Finish(s) => GrantInv'
    BY <2>1, <2>2, OrdinaryStep DEF Finish
  <2>4. Goto(s, "createFund") => GrantInv'
    BY <2>1, <2>2, GotoStep
  <2>5. QED
    BY <1>2, <2>3, <2>4 DEF CheckPending
<1>3. CASE CreateFund(s)
  <2>1. Ordinary(req[s]) /\ ~Deciding(s) /\ req[s].op = "askfund"
    BY <1>3, AskerIs DEF CreateFund, At
  <2>2. Ev(s) \in Event /\ Exists(Ev(s)) /\ GroupOfEvent(Ev(s)) \in Group /\ req[s].amount \in Nat
    <3>1. Ev(s) \in Event /\ Status(Ev(s)) \notin {"ABSENT", "DELETED"} /\ req[s].amount \in Nat
      BY <1>3, <2>1 DEF Ordinary, Ev, CreateFund, Running, Deleted
    <3>2. Exists(Ev(s)) /\ event[Ev(s)].creator \in User
      BY <3>1 DEF EventsInv, Exists, RowStatus
    <3>3. QED
      BY <3>1, <3>2, OrganizationAssumption DEF GroupOfEvent
  <2>3. PICK f \in Unused : NewFund(f, GroupOfEvent(Ev(s)), Ev(s), req[s].amount)
    BY <1>3 DEF CreateFund
  <2>4. PICK n : n = [req[s] EXCEPT !.pc = "mark"]
    OBVIOUS
  <2>5. req' = [req EXCEPT ![s] = n] /\ UNCHANGED <<event, balance, fundOf, job>>
    BY <1>3, <2>4 DEF CreateFund, Goto, eventVars, ledgerVars
  <2>6. Ordinary(n) /\ n.op = "askfund"
    BY <2>1, <2>4 DEF Ordinary, HandlerFields
  <2>7. /\ DOMAIN req' = Slot /\ req'[s] = n
        /\ \A t \in Slot : t # s => req'[t] = req[t]
    BY <2>5, OneSlot DEF DecisionsInv
  <2>8. \A t \in Slot : Paid(t)' <=> Paid(t)
    BY <2>1, <2>6, <2>7 DEF Paid
  <2>9. /\ RequestsInv' /\ GrantsInv'
        /\ \A t \in Slot : Deciding(t) => Stays(fundOf[t])
    BY <2>2, <2>3, <2>5, <2>8, NewRequest
  <2>10. EventsInv' /\ EventsKept /\ NothingDeleted
    BY <2>5, EventsStay DEF NothingDeleted, Status
  <2>11. SlotInv(s)'
    BY <2>5, <2>6, <2>7 DEF SlotInv, Ordinary, Status
  <2>12. DecisionsInv'
    <3>1. DOMAIN fundOf' = Slot
      BY <2>5 DEF DecisionsInv
    <3>2. QED
      BY <2>5, <2>6, <2>9, <2>10, <2>11, <3>1, OneSlotMoves
  <2>13. QED
    BY <2>9, <2>10, <2>12
<1>4. QED
  BY <1>1, <1>2, <1>3

\* A treasurer takes up an open request.
LEMMA DecisionBegins ==
    ASSUME GrantInv, NEW s \in Slot, NEW u \in User, NEW f \in FundRequest, NEW op,
           MayCallFund(s, op, u), MayDecide(u, f), NEW n, StartFund(s, n, f),
           UNCHANGED <<event, balance, fund, job>>,
           DOMAIN n = HandlerFields, n.user = u, n.event = fund[f].event, n.target \in EventStatus,
           \/ n.op = "approvefund" /\ n.pc = "openApprove" /\ n.amount = fund[f].amount
           \/ n.op = "rejectfund" /\ n.pc = "openReject"
    PROVE  GrantInv'
<1> USE DEF GrantInv
<1>1. /\ req[s] = Idle
      /\ req' = [req EXCEPT ![s] = n] /\ req'[s] = n
      /\ DOMAIN fundOf' = Slot /\ fundOf'[s] = f /\ \A t \in Slot : t # s => fundOf'[t] = fundOf[t]
  BY OneSlot DEF MayCallFund, StartFund, Start, DecisionsInv
<1>2. u \in HoldersOf("TREASURER", Target(f)) /\ fund[f].status = "PENDING"
  BY DEF MayDecide, HoldersOf
<1>3. Deciding(s)' /\ Decides(s)'
  BY <1>1, <1>2 DEF Deciding, Decides, ApprovePc, RejectPc, InFundTx, Ev, Target, HoldersOf
<1>4. ~Paid(s) /\ ~Paid(s)'
  BY <1>1, IdleIs DEF Paid
<1>5. RootsKept
  BY DEF RootsKept, GrantsInv
<1>6. QED
  BY <1>1, <1>3, <1>4, <1>5, QuietStep DEF SlotInv

LEMMA DecisionBeginStep ==
    ASSUME GrantInv, NEW s \in Slot, NEW u \in User, NEW f \in FundRequest,
           \/ BeginApproveFund(s, u, f)
           \/ \E d \in {"CANCELLED", "FUNDED"} : BeginRejectFund(s, u, f, d)
    PROVE  GrantInv'
<1>1. CASE BeginApproveFund(s, u, f)
  <2>1. PICK n : n = [Idle EXCEPT !.op = "approvefund", !.user = u, !.event = fund[f].event,
                                  !.pc = "openApprove", !.amount = fund[f].amount]
    OBVIOUS
  <2>2. /\ DOMAIN n = HandlerFields /\ n.user = u /\ n.event = fund[f].event
        /\ n.target \in EventStatus
        /\ n.op = "approvefund" /\ n.pc = "openApprove" /\ n.amount = fund[f].amount
    BY <2>1 DEF Idle, HandlerFields, EventStatus
  <2>3. /\ MayCallFund(s, "approvefund", u) /\ MayDecide(u, f) /\ StartFund(s, n, f)
        /\ UNCHANGED <<event, balance, fund, job>>
    BY <1>1, <2>1 DEF BeginApproveFund, eventVars, ledgerVars
  <2>4. QED
    BY <2>2, <2>3, DecisionBegins
<1>2. ASSUME NEW d \in {"CANCELLED", "FUNDED"}, BeginRejectFund(s, u, f, d)
      PROVE  GrantInv'
  <2>1. PICK e, r : /\ e = fund[f].event
                    /\ r = [Idle EXCEPT !.op = "rejectfund", !.user = u, !.event = e,
                                        !.pc = "openReject", !.target = d]
    OBVIOUS
  <2>2. PICK n : n = IF e = NoEvent THEN r
                     ELSE [r EXCEPT !.prior = Status(e), !.budget = event[e].budget]
    OBVIOUS
  <2>3. /\ DOMAIN r = HandlerFields /\ r.user = u /\ r.event = fund[f].event
        /\ r.target \in EventStatus /\ r.op = "rejectfund" /\ r.pc = "openReject"
    BY <2>1 DEF Idle, HandlerFields, EventStatus
  <2>4. /\ DOMAIN n = HandlerFields /\ n.user = u /\ n.event = fund[f].event
        /\ n.target \in EventStatus /\ n.op = "rejectfund" /\ n.pc = "openReject"
    BY <2>2, <2>3 DEF HandlerFields
  <2>5. /\ MayCallFund(s, "rejectfund", u) /\ MayDecide(u, f) /\ StartFund(s, n, f)
        /\ UNCHANGED <<event, balance, fund, job>>
    BY <1>2, <2>1, <2>2 DEF BeginRejectFund, eventVars, ledgerVars
  <2>6. QED
    BY <2>4, <2>5, DecisionBegins
<1>3. QED
  BY <1>1, <1>2

LEMMA DecisionGoto ==
    ASSUME GrantInv, NEW s \in Slot, Deciding(s), Running(s), NEW pc, Goto(s, pc),
           UNCHANGED <<event, fund, fundOf, job>>, RootsKept,
           IF req[s].op = "approvefund" THEN pc \in ApprovePc
           ELSE pc \in RejectPc /\ (pc = "takeover" => Ev(s) # NoEvent),
           pc \in {"readEvent", "commitFund"} <=> req[s].pc \in {"readEvent", "commitFund"}
    PROVE  GrantInv'
<1>1. PICK n : n = [req[s] EXCEPT !.pc = pc]
  OBVIOUS
<1>2. DOMAIN req[s] = HandlerFields
  BY DecidesWhen DEF GrantInv, Decides
<1>3. /\ DOMAIN n = HandlerFields /\ n.op = req[s].op /\ n.user = req[s].user /\ n.pc = pc
      /\ n.event = req[s].event /\ n.target = req[s].target /\ n.amount = req[s].amount
  BY <1>1, <1>2 DEF HandlerFields
<1>4. req' = [req EXCEPT ![s] = n]
  BY <1>1 DEF Goto
<1>5. QED
  BY <1>3, <1>4, DecisionStep

\* The event of a running decision is one that exists, if it has one.
LEMMA DecisionEvent ==
    ASSUME GrantInv, NEW s \in Slot, Deciding(s), Running(s), Ev(s) # NoEvent
    PROVE  Ev(s) \in Event /\ Exists(Ev(s))
<1>1. fundOf[s] \in FundRequest /\ fund[fundOf[s]].event = Ev(s)
  BY DecidesWhen DEF GrantInv, Decides, Running
<1>2. QED
  BY <1>1 DEF GrantInv, RequestsInv, FundRow

LEMMA RejectStep ==
    ASSUME GrantInv, NEW s \in Slot, Deciding(s), Running(s),
           req[s].op = "rejectfund", RejectInTx(s), UNCHANGED <<balance, job>>
    PROVE  GrantInv'
<1>1. ~Paid(s) /\ req[s].target \in EventStatus
  BY DecidesWhen DEF GrantInv, Decides, Paid
<1>2. EventsInv' /\ EventsKept /\ NothingDeleted /\ \A x \in Event : Exists(x) => Exists(x)'
  <2>1. CASE Ev(s) = NoEvent
    BY <2>1, EventsStay DEF RejectInTx, GrantInv, NothingDeleted, Status, Exists
  <2>2. CASE Ev(s) # NoEvent
    BY <1>1, <2>2, DecisionEvent, StatusSet DEF RejectInTx, GrantInv
  <2>3. QED
    BY <2>1, <2>2
<1>3. QED
  BY <1>1, <1>2, DecisionWritten DEF RejectInTx, FinishFund

LEMMA CommitStep ==
    ASSUME GrantInv, NEW s \in Slot, CommitFund(s)
    PROVE  GrantInv'
<1>1. Deciding(s) /\ Paid(s) /\ Running(s)
  BY DEF CommitFund, At, Deciding, Paid
<1>2. EventsInv' /\ EventsKept /\ NothingDeleted /\ \A x \in Event : Exists(x) => Exists(x)'
  <2>1. CASE UNCHANGED event
    BY <2>1, EventsStay DEF GrantInv, NothingDeleted, Status, Exists
  <2>2. CASE Ev(s) # NoEvent /\ SetStatus(Ev(s), req[s].prior, "FUNDED")
    BY <1>1, <2>2, DecisionEvent, StatusSet DEF GrantInv, EventStatus
  <2>3. QED
    BY <2>1, <2>2 DEF CommitFund
<1>3. QED
  BY <1>1, <1>2, DecisionWritten DEF CommitFund, FinishFund, ledgerVars

LEMMA TransferStep ==
    ASSUME GrantInv, NEW s \in Slot, TransferFund(s)
    PROVE  GrantInv'
<1> USE DEF GrantInv
<1>1. Deciding(s) /\ Running(s) /\ req[s].op = "approvefund" /\ Decides(s)
  BY DecidesWhen DEF TransferFund, At, Deciding
<1>2. PICK f \in FundRequest : f = fundOf[s]
  BY <1>1 DEF Decides
<1>3. PICK pc \in {"readEvent", "commitFund"} : Goto(s, pc)
  BY DEF TransferFund
<1>4. PICK n : n = [req[s] EXCEPT !.pc = pc]
  OBVIOUS
<1>5. /\ DOMAIN n = HandlerFields /\ n.op = req[s].op /\ n.user = req[s].user /\ n.pc = pc
      /\ n.event = req[s].event /\ n.target = req[s].target /\ n.amount = req[s].amount
  BY <1>1, <1>4 DEF HandlerFields, Decides
<1>6. /\ req' = [req EXCEPT ![s] = n] /\ UNCHANGED <<event, fund, fundOf, job>>
      /\ req'[s] = n /\ \A t \in Slot : t # s => req'[t] = req[t]
  <2>1. req' = [req EXCEPT ![s] = n] /\ UNCHANGED <<event, fund, fundOf, job>>
    BY <1>3, <1>4 DEF Goto, TransferFund, eventVars, fundVars
  <2>2. QED
    BY <2>1, OneSlot DEF DecisionsInv
<1>7. EventsInv' /\ EventsKept /\ NothingDeleted /\ RequestsInv'
  BY <1>6, EventsStay DEF NothingDeleted, Status, RequestsInv, Exists
<1>8. Deciding(s)' /\ Decides(s)'
  <2>1. ~Deleted(Ev(s))'
    BY <1>1, <1>5, <1>6 DEF Running, Deleted, Ev, Status
  <2>2. pc \in ApprovePc
    BY DEF ApprovePc
  <2>3. QED
    BY <1>1, <1>5, <1>6, <1>7, <2>1, <2>2, KeepsDeciding DEF LeftOpen
<1>9. DecisionsInv'
  <2>1. DOMAIN fundOf' = Slot
    BY <1>6 DEF DecisionsInv
  <2>2. QED
    BY <1>5, <1>6, <1>7, <1>8, <2>1, AllStay, OneSlotMoves DEF SlotInv
<1>10. GrantsInv'
  <2>1. \A h \in FundRequest : Done(h)' => Done(h) \/ h = f
    <3>1. \A t \in Slot : Paid(t)' => t = s \/ Paid(t)
      BY <1>6 DEF Paid
    <3>2. QED
      BY <1>2, <1>6, <3>1 DEF Done
  <2>2. /\ Target(f) \in Group /\ fund[f].from \in Group /\ ParentOf[fund[f].from] = Target(f)
        /\ req[s].amount = fund[f].amount
    BY <1>1, <1>2, OrganizationAssumption DEF Decides, HoldersOf, Target, RequestsInv, FundRow
  <2>3. ParentOf[fund[f].from] # NoGroup
    BY <2>2, OrganizationAssumption
  <2>4. DOMAIN balance = Group
    BY DEF GrantsInv
  <2>5. DOMAIN balance' = Group
        /\ \A g \in Group : ParentOf[g] = NoGroup =>
             balance'[g] = IF g = Target(f) THEN balance[g] - fund[f].amount ELSE balance[g]
    <3>1. CASE Ev(s) = NoEvent
      <4>1. balance' = [balance EXCEPT ![Target(f)] = @ - fund[f].amount,
                                       ![fund[f].from] = @ + fund[f].amount]
        BY <1>2, <2>2, <3>1 DEF TransferFund, TransferBetween
      <4>2. QED
        BY <2>2, <2>3, <2>4, <4>1
    <3>2. CASE Ev(s) # NoEvent
      <4>1. balance' = [balance EXCEPT ![Target(f)] = @ - fund[f].amount]
        BY <1>2, <2>2, <3>2 DEF TransferFund, DebitForEvent
      <4>2. QED
        BY <2>2, <2>4, <4>1
    <3>3. QED
      BY <3>1, <3>2
  <2>6. QED
    BY <1>2, <1>6, <2>1, <2>5, GrantsGrow
<1>11. QED
  BY <1>7, <1>9, <1>10

LEMMA ApproveStep ==
    ASSUME GrantInv, NEW s \in Slot,
           OpenApprove(s) \/ CheckDisburse(s) \/ ReadEvent(s)
    PROVE  GrantInv'
<1>1. Deciding(s) /\ Running(s) /\ req[s].op = "approvefund" /\ RootsKept
  BY DEF OpenApprove, CheckDisburse, ReadEvent, At, Deciding, ledgerVars, RootsKept, GrantInv,
         GrantsInv
<1>2. CASE OpenApprove(s)
  <2>1. Goto(s, "checkDisburse") /\ req[s].pc = "openApprove"
        /\ UNCHANGED <<event, fund, fundOf, job>>
    BY <1>2 DEF OpenApprove, At, eventVars, fundVars
  <2>2. QED
    BY <1>1, <2>1, DecisionGoto DEF ApprovePc
<1>3. CASE CheckDisburse(s)
  <2>1. req[s].pc = "checkDisburse" /\ UNCHANGED <<event, fund, job, balance>>
    BY <1>3 DEF CheckDisburse, At, eventVars, ledgerVars
  <2>2. CASE FinishFund(s)
    BY <2>1, <2>2, GivenUp
  <2>3. CASE Goto(s, "transferFund") /\ UNCHANGED fundOf
    BY <1>1, <2>1, <2>3, DecisionGoto DEF ApprovePc
  <2>4. QED
    BY <1>3, <2>2, <2>3 DEF CheckDisburse
<1>4. CASE ReadEvent(s)
  <2>1. PICK n : n = [req[s] EXCEPT !.prior = Status(Ev(s)), !.pc = "commitFund"]
    OBVIOUS
  <2>2. req' = [req EXCEPT ![s] = n] /\ req[s].pc = "readEvent"
        /\ UNCHANGED <<event, fund, fundOf, job>>
    BY <1>4, <2>1 DEF ReadEvent, At, eventVars, fundVars
  <2>3. DOMAIN req[s] = HandlerFields
    BY <1>1, DecidesWhen DEF GrantInv, Decides
  <2>4. /\ DOMAIN n = HandlerFields /\ n.op = req[s].op /\ n.user = req[s].user
        /\ n.pc = "commitFund"
        /\ n.event = req[s].event /\ n.target = req[s].target /\ n.amount = req[s].amount
    BY <2>1, <2>3 DEF HandlerFields
  <2>5. QED
    BY <1>1, <2>2, <2>4, DecisionStep DEF ApprovePc
<1>5. QED
  BY <1>2, <1>3, <1>4

LEMMA RejectionStep ==
    ASSUME RootsOrganizeNothing, GrantInv, NEW s \in Slot,
           OpenReject(s) \/ TakeoverRefund(s) \/ CommitReject(s)
    PROVE  GrantInv'
<1>1. Deciding(s) /\ Running(s) /\ req[s].op = "rejectfund"
  BY DEF OpenReject, TakeoverRefund, CommitReject, At, Deciding
<1>2. CASE OpenReject(s)
  <2>1. req[s].pc = "openReject" /\ UNCHANGED <<job, balance>>
    BY <1>2 DEF OpenReject, At, ledgerVars
  <2>2. CASE TakesOver(s) /\ Goto(s, "takeover") /\ UNCHANGED <<event, trail, fund, fundOf>>
    <3>1. Ev(s) # NoEvent /\ RootsKept
      BY <2>1, <2>2 DEF TakesOver, RootsKept, GrantInv, GrantsInv
    <3>2. QED
      BY <1>1, <2>1, <2>2, <3>1, DecisionGoto DEF RejectPc
  <2>3. CASE RejectInTx(s)
    BY <1>1, <2>1, <2>3, RejectStep
  <2>4. QED
    BY <1>2, <2>2, <2>3 DEF OpenReject
<1>3. CASE TakeoverRefund(s)
  <2>1. req[s].pc = "takeover" /\ Goto(s, "commitReject") /\ UNCHANGED <<event, fund, fundOf, job>>
    BY <1>3 DEF TakeoverRefund, At, eventVars, fundVars
  <2>2. Ev(s) # NoEvent
    BY <1>1, <2>1, DecidesWhen DEF GrantInv, Decides
  <2>3. Status(Ev(s)) # "ABSENT" /\ Ev(s) \in Event
    BY <1>1, <2>2, DecisionEvent DEF Exists, EventStatus
  <2>4. ParentOf[GroupOfEvent(Ev(s))] # NoGroup
    BY <2>3 DEF RootsOrganizeNothing
  <2>5. RootsKept
    BY <1>3, <2>4, OtherWallet DEF TakeoverRefund, CreditForEvent, GrantInv, GrantsInv
  <2>6. QED
    BY <1>1, <2>1, <2>5, DecisionGoto DEF RejectPc
<1>4. CASE CommitReject(s)
  BY <1>1, <1>4, RejectStep DEF CommitReject, ledgerVars
<1>5. QED
  BY <1>2, <1>3, <1>4

LEMMA FundStep ==
    ASSUME "review" \notin FundOp, RootsOrganizeNothing,
           GrantInv, NEW s \in Slot, FundBegin(s) \/ FundContinue(s)
    PROVE  GrantInv'
<1>1. req[s].op # "review"
  BY IdleIs DEF GrantInv, DecisionsInv, Ordinary, Deciding, AllOps
<1>2. CASE FundBegin(s)
  <2>1. \A u \in User, e \in Event, yes \in BOOLEAN, a \in FundAmount \cup {0} :
          ~BeginReview(s, u, e, yes, a)
    BY DEF BeginReview, MayReview, MayCallFund
  <2>2. QED
    BY <1>2, <2>1, AskStep, DecisionBeginStep DEF FundBegin
<1>3. CASE FundContinue(s)
  <2>1. /\ ~FindFund(s) /\ ~CheckTransfer(s) /\ ~Transfer(s) /\ ~MarkApproved(s)
        /\ ~RaiseBudget(s) /\ ~Refuse(s)
    BY <1>1, Zenon DEF FindFund, CheckTransfer, Transfer, MarkApproved, RaiseBudget, Refuse, At
  <2>2. FundDeadlock(s) \/ FundTimesOut(s) => GrantInv'
    BY GivenUp DEF FundDeadlock, FundTimesOut, eventVars, ledgerVars
  <2>3. QED
    BY <1>3, <2>1, <2>2, AskStep, ApproveStep, TransferStep, CommitStep, RejectionStep
       DEF FundContinue
<1>4. QED
  BY <1>2, <1>3

LEMMA GrantInitially == FundingInit => GrantInv
<1> SUFFICES ASSUME FundingInit PROVE GrantInv
  OBVIOUS
<1>1. DecisionsInv
  BY DEF FundingInit, Init, DecisionsInv
<1>2. EventsInv
  BY DEF FundingInit, Init, EventsInv, EventFields, Status, RowStatus
<1>3. RequestsInv
  <2>1. PICK row : row = [status |-> "ABSENT", event |-> NoEvent, from |-> CHOOSE g \in Group : TRUE,
                          amount |-> 0, approved |-> 0]
    OBVIOUS
  <2>2. row \in FundRow
    <3>1. Group # {}
      BY FundingAssumption, Zenon
    <3>2. (CHOOSE g \in Group : TRUE) \in Group
      BY <3>1
    <3>3. QED
      BY <2>1, <3>2 DEF FundRow
  <2>3. QED
    BY <2>1, <2>2 DEF FundingInit, RequestsInv
<1>4. ASSUME NEW g \in Group
      PROVE  balance[g] \in Int /\ balance[g] <= Opening[g] - SumFunctionOnSet(AmountOf, Settled(g))
  <2>1. Settled(g) = {}
    BY IdleIs DEF FundingInit, Init, Settled, Done, Paid
  <2>2. SumFunctionOnSet(AmountOf, {}) = 0
    BY SumEmpty DEF Sum
  <2>3. balance[g] = Opening[g] /\ Opening[g] \in Int
    BY LedgerAssumption DEF FundingInit, Init, LedgerInit
  <2>4. QED
    BY <2>1, <2>2, <2>3
<1>5. DOMAIN balance = Group
  BY LedgerAssumption DEF FundingInit, Init, LedgerInit
<1>6. QED
  BY <1>1, <1>2, <1>3, <1>4, <1>5 DEF GrantInv, GrantsInv

LEMMA GrantStep ==
    ASSUME Scheduler = FALSE, "review" \notin FundOp,
           GrantInv, RootsOrganizeNothing, [FundingNext]_allVars
    PROVE  GrantInv'
<1>1. CASE Next /\ Composed
  BY <1>1, NextEffect, ComposedStep
<1>2. ASSUME NEW s \in Slot, FundBegin(s) \/ FundContinue(s)
      PROVE  GrantInv'
  BY <1>2, FundStep
<1>3. ASSUME NEW u \in User, NEW e \in Event \cup {NoEvent}, NEW a \in FundAmount,
             CreateRequest(u, e, a)
      PROVE  GrantInv'
  BY <1>3, CreateRequestStep
<1>4. ~JobStep /\ ~JobAborts
  <2>1. job.pc = "idle" /\ job.event = NoEvent
    BY DEF GrantInv, RequestsInv, IdleJob
  <2>2. QED
    BY <2>1, Zenon
       DEF JobStep, JobStarts, JobPicks, JobRefundsInitial, JobRefundsExtra, JobReadsStatus,
           JobCancels, JobFailsOnDeleted, JobRuns, JobAborts
<1>5. CASE UNCHANGED allVars
  <2>1. UNCHANGED <<event, balance, req, fund, fundOf, job>>
    BY <1>5 DEF allVars, vars, fundVars, ledgerVars
  <2>2. EventsInv' /\ EventsKept /\ NothingDeleted /\ RequestsInv' /\ RootsKept
    BY <2>1, EventsStay
       DEF GrantInv, NothingDeleted, Status, RequestsInv, Exists, RootsKept, GrantsInv
  <2>3. \A s \in Slot : SlotInv(s)'
    BY <2>1, <2>2, AllStay, SlotsAre, SlotStays DEF GrantInv
  <2>4. DecisionsInv'
    BY <2>1, <2>3 DEF GrantInv, DecisionsInv, SlotInv, Deciding
  <2>5. \A f \in FundRequest : Done(f)' <=> Done(f)
    BY <2>1 DEF Done, Paid
  <2>6. GrantsInv'
    BY <2>1, <2>2, <2>5, GrantsStay DEF GrantInv
  <2>7. QED
    BY <2>2, <2>4, <2>6 DEF GrantInv
<1>6. QED
  BY <1>1, <1>2, <1>3, <1>4, <1>5 DEF FundingNext

(***************************************************************************)
(* Every approved request has been paid out of the wallet of the group that *)
(* granted it, however many approvals and rejections, of one request too,   *)
(* run at the same time as any handlers of the events module, and wherever  *)
(* they die -- while a group without a parent has no events of its own,     *)
(* whose refunds could fill its wallet.  The review endpoint pays what it   *)
(* adjusts, and the job takes back what was granted: both are left out.     *)
(***************************************************************************)
THEOREM ApprovedRequestsArePaid ==
    ASSUME Scheduler = FALSE, "review" \notin FundOp
    PROVE  FundingSpec /\ []RootsOrganizeNothing => []ApprovedIsPaid
<1>1. GrantInv /\ RootsOrganizeNothing /\ [FundingNext]_allVars => GrantInv'
  BY GrantStep
<1>2. GrantInv => ApprovedIsPaid
  <2> SUFFICES ASSUME GrantInv, NEW g \in Group, ParentOf[g] = NoGroup
               PROVE  Opening[g] - balance[g] >=
                        SumFunctionOnSet(AmountOf, {f \in FundRequest :
                            Target(f) = g /\ fund[f].status = "APPROVED"})
    BY DEF ApprovedIsPaid
  <2>1. PICK a, S, T : /\ a = AmountOf /\ S = Settled(g)
                       /\ T = {f \in FundRequest : Target(f) = g /\ fund[f].status = "APPROVED"}
    OBVIOUS
  <2>2. T \in SUBSET S
    BY <2>1 DEF Settled, Done
  <2>3. IsFiniteSet(S) /\ \A f \in S : a[f] \in Nat
    BY <2>1, SettledFinite DEF GrantInv
  <2>4. Sum(a, T) <= Sum(a, S) /\ Sum(a, T) \in Int /\ Sum(a, S) \in Int
    BY <2>2, <2>3, SumLess, SumInt, FS_Subset
  <2>5. balance[g] \in Int /\ Opening[g] \in Int /\ balance[g] <= Opening[g] - Sum(a, S)
    BY <2>1, LedgerAssumption DEF GrantInv, GrantsInv, Sum
  <2>6. Opening[g] - balance[g] >= Sum(a, T)
    BY <2>4, <2>5
  <2>7. QED
    BY <2>1, <2>6 DEF Sum
<1>3. QED
  BY <1>1, <1>2, GrantInitially, PTL DEF FundingSpec

-----------------------------------------------------------------------------
(* Additional funds on review and the job, one handler of an event at a time *)

NobodyDies == aborts = 0

\* No two handlers work on one event at the same time.
OneByOne == \A s, t \in Slot : req[s] # Idle /\ req[t] # Idle /\ Ev(s) = Ev(t) => s = t

\* Each parent group has a treasurer.
ParentsHaveTreasurer ==
    \A g \in Group : ParentOf[g] # NoGroup => HoldersOf("TREASURER", ParentOf[g]) # {}

FundsOf(e) == {f \in FundRequest : fund[f].event = e}

\* Fund requests are of events that were funded once.
FundedOnce == {"FUNDED", "UNDER_REVIEW", "ONGOING", "COMPLETED", "SETTLED", "CANCELLED"}
Unfunded == {"DRAFT", "SUBMITTED", "REJECTED"}

\* The budget is what was paid out and granted.
Even(e) == event[e].budget = paidOut[e] + GrantedAmount(e)

\* No report says that less than nothing is left.
NothingMissing == Remaining \subseteq Nat

\* What is out after a report is what it says was spent; rest: still to come back.
Reported(e, rest) ==
    /\ NothingMissing => paidOut[e] + GrantedAmount(e) - event[e].actual - rest \in -Tolerance..Tolerance
    /\ Left(e) <= event[e].budget

\* No more than x is out, and x itself if no more was asked for than the budget.
Owed(e, x) == Left(e) <= x /\ (AskedFor(e) <= event[e].budget => Left(e) = x)

\* Of every event, whoever works on it.
Sound(e) ==
    /\ DOMAIN event[e] = EventFields /\ event[e].budget \in Nat /\ event[e].actual \in Nat
    /\ paidOut[e] \in Int
    /\ Status(e) # "ABSENT" => event[e].creator \in User
    /\ Status(e) \in RowStatus \ {"APPROVED"}
    /\ Status(e) \notin FundedOnce => FundsOf(e) = {}

\* Of an event nobody works on.
Booked(e) ==
    /\ Status(e) \in Unfunded \cup {"ABSENT"} => paidOut[e] = 0
    /\ Status(e) = "FUNDED" => Even(e) /\ PendingFunds(e) = {}
    /\ Status(e) = "UNDER_REVIEW" => Even(e) /\ \E f \in FundRequest : PendingFunds(e) = {f}
    /\ Status(e) \in {"ONGOING", "COMPLETED", "SETTLED"} => Reported(e, 0)
    /\ Status(e) = "CANCELLED" => \/ trail[e].prev = "UNDER_REVIEW"
                                  \/ trail[e].prev = "ONGOING" /\ Left(e) <= 0
                                  \/ Owed(e, 0)

\* What the handlers know of their event, each at each of its awaits.
EditsEvent(s) ==
    LET e == Ev(s) IN
    /\ Booked(e)
    /\ \/ /\ req[s].op = "update" /\ req[s].pc = "write" /\ req[s].budget \in Nat
          /\ Status(e) \in {"DRAFT", "REJECTED"}
       \/ req[s].op = "delete" /\ req[s].pc \in {"write", "cascade"} /\ Status(e) = "DRAFT"
       \/ /\ req[s].op = "submit" /\ req[s].pc \in {"rows", "clear", "insert", "mark", "set"}
          /\ req[s].target = "SUBMITTED" /\ Status(e) \in {"DRAFT", "REJECTED"}

ApprovesEvent(s) ==
    LET e == Ev(s) IN
    /\ req[s].op = "approve" /\ req[s].budget = event[e].budget /\ Status(e) = "SUBMITTED"
    /\ \/ req[s].pc \in {"decide", "fund", "pay"} /\ Booked(e)
       \/ req[s].pc = "commit" /\ paidOut[e] = event[e].budget

CancelsEvent(s) ==
    LET e == Ev(s) IN
    /\ req[s].op = "cancel"
    /\ \/ /\ req[s].target = "CANCELLED" /\ req[s].pc = "refund"
          /\ Status(e) \in {"FUNDED", "ONGOING"} /\ Booked(e)
          /\ req[s].amount = event[e].budget
       \/ /\ req[s].target = "CANCELLED" /\ req[s].pc \in {"mark", "set"}
          /\ \/ /\ IF Status(e) = "FUNDED" THEN Owed(e, 0)
                   ELSE Status(e) = "ONGOING" /\ Left(e) <= 0
                /\ req[s].amount = event[e].budget
             \/ /\ Status(e) \in Unfunded \cup {"UNDER_REVIEW"} /\ Booked(e)
                /\ req[s].amount = 0
       \/ /\ req[s].target = "COMPLETED" /\ req[s].amount = 0 /\ Booked(e)
          /\ \/ req[s].pc \in {"mark", "set"} /\ Status(e) = "ONGOING"
             \/ req[s].pc = "reread" /\ Status(e) = "COMPLETED"

ReportsEvent(s) ==
    LET e == Ev(s) IN
    /\ req[s].op = "expense" /\ req[s].target = "ONGOING"
    /\ req[s].spent \in Nat /\ req[s].amount \in Int /\ (NothingMissing => req[s].amount >= 0)
    /\ \/ /\ Status(e) = "FUNDED" /\ Booked(e)
          /\ req[s].spent + req[s].amount - event[e].budget \in -Tolerance..Tolerance
          /\ \/ req[s].pc \in {"expense", "actual"}
             \/ req[s].pc \in {"mark", "set"} /\ event[e].actual = req[s].spent
       \/ /\ Status(e) = "ONGOING" /\ req[s].pc = "refund" /\ req[s].amount > 0
          /\ Reported(e, req[s].amount)

MovesEvent(s) ==
    LET e == Ev(s) IN
    /\ Booked(e)
    /\ \/ /\ req[s].op = "extend" /\ req[s].target = "ONGOING"
          /\ req[s].pc \in {"write", "mark", "set"} /\ Status(e) = "ONGOING"
       \/ /\ req[s].op = "settle" /\ req[s].target = "SETTLED"
          /\ req[s].pc \in {"mark", "set"} /\ Status(e) = "COMPLETED"
       \/ /\ req[s].op = "view" /\ req[s].target = "COMPLETED"
          /\ req[s].pc \in {"mark", "set"} /\ Status(e) = "ONGOING"

AsksForMore(s) ==
    LET e == Ev(s) IN
    /\ req[s].op = "askfund" /\ req[s].target = "UNDER_REVIEW"
    /\ Status(e) = "FUNDED" /\ req[s].amount \in Nat
    /\ ParentOf[GroupOfEvent(e)] # NoGroup
    /\ \/ req[s].pc = "checkPending" /\ Booked(e)
       \/ req[s].pc = "createFund" /\ Booked(e)
       \/ req[s].pc \in {"mark", "set"} /\ Even(e) /\ \E f \in FundRequest : PendingFunds(e) = {f}

ReviewsFunds(s) ==
    LET e == Ev(s) IN
    /\ req[s].op = "review" /\ req[s].target = "FUNDED"
    /\ Status(e) = "UNDER_REVIEW" /\ req[s].amount \in Nat
    /\ req[s].pc \in {"mark", "set"} \/ req[s].budget = event[e].budget
    /\ \/ req[s].pc = "findFund" /\ Booked(e)
       \/ /\ req[s].pc \in {"checkTransfer", "transfer", "markApproved", "refuse"} /\ Even(e)
          /\ PendingFunds(e) = {fundOf[s]}
       \/ /\ req[s].pc = "raise" /\ PendingFunds(e) = {}
          /\ event[e].budget + req[s].amount = paidOut[e] + GrantedAmount(e)
       \/ req[s].pc \in {"mark", "set"} /\ Even(e) /\ PendingFunds(e) = {}

Informed(s) ==
    /\ DOMAIN req[s] = HandlerFields /\ Ev(s) \in Event
    /\ \/ EditsEvent(s) \/ ApprovesEvent(s) \/ CancelsEvent(s) \/ ReportsEvent(s)
       \/ MovesEvent(s) \/ AsksForMore(s) \/ ReviewsFunds(s)
    /\ req[s].pc = "set" => req[s].prior = Status(Ev(s))

\* The tables as they are typed, and what holds of their rows at any time.
TablesInv ==
    /\ DOMAIN event = Event /\ DOMAIN paidOut = Event /\ DOMAIN trail = Event
    /\ DOMAIN req = Slot /\ DOMAIN fundOf = Slot
    /\ fund \in [FundRequest -> FundRow]
    /\ \A f \in FundRequest : IF fund[f].status = "ABSENT" THEN fund[f].event = NoEvent
                              ELSE ParentOf[fund[f].from] # NoGroup
    /\ \A e \in Event : Sound(e)

\* The job works alone, on what its query has returned.
Expects(e) ==
    job.list[e] # NotExpired =>
        /\ job.list[e].status = Status(e) /\ Status(e) \in AutoCancelable
        /\ job.list[e].budget = event[e].budget
        /\ job.list[e].extra = Granted(e)

JobKnows ==
    LET e == job.event IN
    /\ e \in Event /\ job.list[e] # NotExpired /\ job.initial \in Int
    /\ \/ /\ job.pc = "initial" /\ Status(e) = "FUNDED" /\ job.extra \subseteq Granted(e)
          /\ job.initial \in Nat
          /\ Owed(e, job.initial + SumFunctionOnSet(AmountOf, job.extra))
       \/ /\ job.pc = "extra" /\ Status(e) = "FUNDED" /\ job.extra \subseteq Granted(e)
          /\ Owed(e, SumFunctionOnSet(AmountOf, job.extra))
       \/ /\ job.pc \in {"mark", "set"}
          /\ IF Status(e) = "FUNDED" THEN Owed(e, 0) ELSE Booked(e)
          /\ job.pc = "set" => job.prior = Status(e)

JobInv ==
    \/ job = IdleJob
    \/ /\ \A s \in Slot : req[s] = Idle
       /\ DOMAIN job = {"pc", "event", "prior", "initial", "extra", "list"}
       /\ DOMAIN job.list = Event
       /\ \A e \in Event : Expects(e)
       /\ (job.pc = "next" /\ job.event = NoEvent) \/ JobKnows

\* Nobody works on e.
Alone(e) == job.event # e /\ \A s \in Slot : req[s] # Idle => Ev(s) # e

ReviewInv ==
    /\ TablesInv /\ JobInv
    /\ \A s \in Slot : req[s] # Idle => Informed(s)
    /\ \A e \in Event : Alone(e) => Booked(e)

-----------------------------------------------------------------------------
(* What is known of an event holds as long as its rows are the same *)

SameFunds(e) ==
    /\ FundsOf(e)' = FundsOf(e)
    /\ \A f \in FundsOf(e) : fund'[f] = fund[f]

\* Whether its end has passed is left out.
SameMoney(e) ==
    /\ DOMAIN event'[e] = DOMAIN event[e]
    /\ event'[e].status = event[e].status /\ event'[e].creator = event[e].creator
    /\ event'[e].budget = event[e].budget /\ event'[e].actual = event[e].actual
    /\ paidOut'[e] = paidOut[e] /\ trail'[e] = trail[e]
    /\ SameFunds(e)

FundsTyped == fund \in [FundRequest -> FundRow]

ApprovedOf == [f \in FundRequest |-> fund[f].approved]

LEMMA SubFinite == ASSUME NEW S \in SUBSET FundRequest PROVE IsFiniteSet(S)
  BY FundingAssumption, FS_Subset

LEMMA GrantedNat ==
    ASSUME FundsTyped, NEW e
    PROVE  GrantedAmount(e) \in Nat /\ GrantedAmount(e) = Sum(ApprovedOf, Granted(e))
<1> DEFINE zero == [f \in FundRequest |-> 0]
<1>1. Granted(e) \in SUBSET FundRequest /\ IsFiniteSet(Granted(e))
  BY SubFinite DEF Granted
<1>2. GrantedAmount(e) = Sum(ApprovedOf, Granted(e))
  BY DEF GrantedAmount, Sum, ApprovedOf
<1>3. \A f \in Granted(e) : ApprovedOf[f] \in Nat
  BY DEF FundsTyped, FundRow, Granted, ApprovedOf
<1>4. Sum(zero, Granted(e)) = 0 * Cardinality(Granted(e))
  BY <1>1, SumOfConstant
<1>5. Sum(zero, Granted(e)) <= Sum(ApprovedOf, Granted(e))
  BY <1>1, <1>3, SumMonotone
<1>6. Sum(ApprovedOf, Granted(e)) \in Int
  BY <1>1, <1>3, SumInt
<1>7. Cardinality(Granted(e)) \in Nat
  BY <1>1, FS_CardinalityType
<1>8. QED
  BY <1>2, <1>4, <1>5, <1>6, <1>7

\* What went out of the group's own wallet is not more than what went out.
LEMMA PaidWithin ==
    ASSUME FundsTyped, NEW e, paidOut[e] \in Int, NEW x \in Int, Left(e) <= x
    PROVE  paidOut[e] <= x
  BY GrantedNat DEF Left

LEMMA NothingAsked ==
    ASSUME NEW e, FundsOf(e) = {}
    PROVE  Granted(e) = {} /\ GrantedAmount(e) = 0 /\ AskedFor(e) = 0
<1>1. Granted(e) = {}
  BY DEF Granted, FundsOf
<1>2. GrantedAmount(e) = Sum(ApprovedOf, {}) /\ AskedFor(e) = Sum(AmountOf, {})
  BY <1>1 DEF GrantedAmount, AskedFor, Sum, ApprovedOf
<1>3. QED
  BY <1>1, <1>2, SumEmpty

LEMMA FundsSame ==
    ASSUME FundsTyped, NEW e, SameFunds(e)
    PROVE  /\ PendingFunds(e)' = PendingFunds(e) /\ Granted(e)' = Granted(e)
           /\ GrantedAmount(e)' = GrantedAmount(e) /\ AskedFor(e)' = AskedFor(e)
<1>1. \A f \in FundRequest : \/ fund[f].event = e /\ fund'[f] = fund[f]
                             \/ fund[f].event # e /\ fund'[f].event # e
  BY DEF SameFunds, FundsOf
<1>2. PendingFunds(e)' = PendingFunds(e) /\ Granted(e)' = Granted(e)
  BY <1>1 DEF PendingFunds, Granted
<1>3. GrantedAmount(e)' = Sum([f \in FundRequest |-> fund'[f].approved], Granted(e))
  BY <1>2 DEF GrantedAmount, Sum
<1>4. Sum([f \in FundRequest |-> fund'[f].approved], Granted(e)) = Sum(ApprovedOf, Granted(e))
  <2>1. IsFiniteSet(Granted(e))
    BY SubFinite DEF Granted
  <2>2. \A f \in Granted(e) : ApprovedOf[f] \in Int
                              /\ [g \in FundRequest |-> fund'[g].approved][f] = ApprovedOf[f]
    BY <1>1 DEF FundsTyped, FundRow, Granted, ApprovedOf
  <2>3. QED
    BY <2>1, <2>2, SumSame
<1>5. AskedFor(e)' = AskedFor(e)
  <2>1. PICK a, b, T : a = AmountOf /\ b = [f \in FundRequest |-> fund'[f].amount] /\ T = Granted(e)
    OBVIOUS
  <2>2. IsFiniteSet(T)
    BY <2>1, SubFinite DEF Granted
  <2>3. \A f \in T : a[f] \in Int /\ b[f] = a[f]
    BY <1>1, <2>1 DEF FundsTyped, FundRow, Granted, AmountOf
  <2>4. Sum(b, T) = Sum(a, T)
    BY <2>2, <2>3, SumSame
  <2>5. AskedFor(e) = Sum(a, T)
    BY <2>1 DEF AskedFor, Sum
  <2>6. AskedFor(e)' = Sum(b, T)
    BY <1>2, <2>1 DEF AskedFor, AmountOf, Sum
  <2>7. QED
    BY <2>4, <2>5, <2>6
<1>6. QED
  BY <1>2, <1>3, <1>4, <1>5, GrantedNat

LEMMA SoundSame ==
    ASSUME NEW e, Sound(e), SameMoney(e)
    PROVE  Sound(e)'
  BY DEF Sound, SameMoney, SameFunds, Status

LEMMA BookedSame ==
    ASSUME FundsTyped, NEW e, Booked(e), SameMoney(e)
    PROVE  Booked(e)'
<1>1. /\ PendingFunds(e)' = PendingFunds(e) /\ GrantedAmount(e)' = GrantedAmount(e)
      /\ AskedFor(e)' = AskedFor(e)
      /\ Status(e)' = Status(e) /\ event'[e].budget = event[e].budget
      /\ event'[e].actual = event[e].actual /\ paidOut'[e] = paidOut[e]
      /\ trail'[e] = trail[e]
  BY FundsSame DEF SameMoney, Status
<1>2. /\ Left(e)' = Left(e)
      /\ Even(e)' <=> Even(e)
      /\ Reported(e, 0)' <=> Reported(e, 0)
      /\ Owed(e, 0)' <=> Owed(e, 0)
  BY <1>1 DEF Even, Reported, Left, Owed
<1>3. QED
  BY <1>1, <1>2 DEF Booked

LEMMA InformedSame ==
    ASSUME FundsTyped, NEW s \in Slot, Informed(s), SameMoney(Ev(s)), req'[s] = req[s],
           fundOf'[s] = fundOf[s]
    PROVE  Informed(s)'
<1>0. PICK e : e = Ev(s)
  OBVIOUS
<1>1. /\ PendingFunds(e)' = PendingFunds(e) /\ GrantedAmount(e)' = GrantedAmount(e)
      /\ AskedFor(e)' = AskedFor(e)
      /\ Status(e)' = Status(e) /\ event'[e].budget = event[e].budget
      /\ event'[e].actual = event[e].actual /\ event'[e].creator = event[e].creator
      /\ paidOut'[e] = paidOut[e] /\ Ev(s)' = e
  BY <1>0, FundsSame DEF SameMoney, Status, Ev
<1>2. /\ Booked(e) => Booked(e)'
      /\ Even(e) => Even(e)'
      /\ Reported(e, req[s].amount) => Reported(e, req[s].amount)'
      /\ GroupOfEvent(e)' = GroupOfEvent(e) /\ Left(e)' = Left(e)
      /\ Owed(e, 0)' <=> Owed(e, 0)
  BY <1>0, <1>1, BookedSame DEF Even, Reported, GroupOfEvent, Left, Owed
<1>4. EditsEvent(s) => EditsEvent(s)'
  BY <1>1, <1>2, <1>0 DEF EditsEvent
<1>5. ApprovesEvent(s) => ApprovesEvent(s)'
  BY <1>1, <1>2, <1>0 DEF ApprovesEvent
<1>6. CancelsEvent(s) => CancelsEvent(s)'
  BY <1>1, <1>2, <1>0 DEF CancelsEvent
<1>7. ReportsEvent(s) => ReportsEvent(s)'
  BY <1>1, <1>2, <1>0 DEF ReportsEvent
<1>8. MovesEvent(s) => MovesEvent(s)'
  BY <1>1, <1>2, <1>0 DEF MovesEvent
<1>9. AsksForMore(s) => AsksForMore(s)'
  BY <1>1, <1>2, <1>0 DEF AsksForMore
<1>10. ReviewsFunds(s) => ReviewsFunds(s)'
  BY <1>1, <1>2, <1>0 DEF ReviewsFunds
<1>11. QED
  BY <1>1, <1>0, <1>4, <1>5, <1>6, <1>7, <1>8, <1>9, <1>10 DEF Informed

-----------------------------------------------------------------------------
(* A step of one handler, for its own event *)

OtherSlots(s, e) ==
    \A t \in Slot \ {s} : req[t] # Idle \/ req'[t] # Idle =>
        req'[t] = req[t] /\ fundOf'[t] = fundOf[t] /\ Ev(t) # e

OtherEvents(e) ==
    \A f \in Event \ {e} :
        event'[f] = event[f] /\ paidOut'[f] = paidOut[f] /\ trail'[f] = trail[f]

\* A request of e is opened or changed, or none.
OtherFunds(e) ==
    \A f \in FundRequest :
        fund'[f] = fund[f] \/ (fund[f].event \in {e, NoEvent} /\ fund'[f].event = e)

DomainsKept ==
    /\ DOMAIN event' = Event /\ DOMAIN paidOut' = Event /\ DOMAIN trail' = Event
    /\ DOMAIN req' = Slot /\ DOMAIN fundOf' = Slot

FundRowsInv ==
    /\ FundsTyped
    /\ \A f \in FundRequest : IF fund[f].status = "ABSENT" THEN fund[f].event = NoEvent
                              ELSE ParentOf[fund[f].from] # NoGroup

LEMMA OtherSame ==
    ASSUME NEW e \in Event, OtherEvents(e), OtherFunds(e), NEW f \in Event, f # e
    PROVE  SameMoney(f)
<1>1. f # NoEvent
  BY LifecycleAssumption
<1>2. \A x \in FundRequest : \/ fund'[x] = fund[x]
                             \/ fund[x].event # f /\ fund'[x].event # f
  BY <1>1 DEF OtherFunds
<1>3. QED
  BY <1>2 DEF OtherEvents, SameMoney, SameFunds, FundsOf

LEMMA OwnStep ==
    ASSUME ReviewInv, NEW s \in Slot, NEW e \in Event, job = IdleJob, job' = job,
           OtherSlots(s, e), OtherEvents(e), OtherFunds(e), DomainsKept, FundRowsInv',
           req[s] = Idle \/ Ev(s) = e, Sound(e)',
           \/ req'[s] = Idle /\ Booked(e)'
           \/ Informed(s)' /\ Ev(s)' = e
    PROVE  ReviewInv'
<1>1. \A f \in Event \ {e} : SameMoney(f)
  BY OtherSame
<1>2. FundsTyped
  BY DEF ReviewInv, TablesInv, FundsTyped
<1>3. \A f \in Event : Sound(f)'
  BY <1>1, SoundSame DEF ReviewInv, TablesInv
<1>4. TablesInv'
  BY <1>3 DEF TablesInv, DomainsKept, FundRowsInv, FundsTyped
<1>5. ASSUME NEW t \in Slot, req'[t] # Idle PROVE Informed(t)'
  <2>1. CASE t = s
    BY <1>5, <2>1
  <2>2. CASE t # s
    <3>1. req'[t] = req[t] /\ fundOf'[t] = fundOf[t] /\ Ev(t) # e
      BY <1>5, <2>2 DEF OtherSlots
    <3>2. Informed(t)
      BY <1>5, <3>1 DEF ReviewInv
    <3>3. SameMoney(Ev(t))
      BY <1>1, <3>1, <3>2 DEF Informed
    <3>4. QED
      BY <1>2, <3>1, <3>2, <3>3, InformedSame
  <2>3. QED
    BY <2>1, <2>2
<1>6. ASSUME NEW f \in Event, Alone(f)' PROVE Booked(f)'
  <2>1. CASE f = e
    <3>1. Informed(s)' => req'[s] # Idle
      BY IdleIs, Zenon DEF Informed, EditsEvent, ApprovesEvent, CancelsEvent, ReportsEvent,
            MovesEvent, AsksForMore, ReviewsFunds
    <3>2. QED
      BY <1>6, <2>1, <3>1 DEF Alone
  <2>2. CASE f # e
    <3>1. ASSUME NEW t \in Slot, req[t] # Idle PROVE Ev(t) # f
      <4>1. CASE t = s
        BY <2>2, <3>1, <4>1
      <4>2. CASE t # s
        BY <1>6, <3>1, <4>2 DEF OtherSlots, Alone, Ev
      <4>3. QED
        BY <4>1, <4>2
    <3>2. Alone(f)
      BY <1>6, <3>1 DEF Alone
    <3>3. QED
      BY <1>1, <1>2, <2>2, <3>2, BookedSame DEF ReviewInv
  <2>3. QED
    BY <2>1, <2>2
<1>7. JobInv'
  BY DEF JobInv, IdleJob
<1>8. QED
  BY <1>4, <1>5, <1>6, <1>7 DEF ReviewInv

-----------------------------------------------------------------------------
(* A step that writes no event and no fund request *)

TablesKept == UNCHANGED <<event, paidOut, trail, fund>>

FundOfKept(s) ==
    /\ DOMAIN fundOf' = Slot
    /\ \A t \in Slot \ {s} : req'[t] # Idle => fundOf'[t] = fundOf[t]

LEMMA TablesSame ==
    ASSUME TablesKept, NEW e
    PROVE  /\ event'[e] = event[e] /\ paidOut'[e] = paidOut[e]
           /\ Status(e)' = Status(e) /\ (Booked(e)' <=> Booked(e)) /\ (Even(e)' <=> Even(e))
           /\ PendingFunds(e)' = PendingFunds(e) /\ GrantedAmount(e)' = GrantedAmount(e)
           /\ GroupOfEvent(e)' = GroupOfEvent(e)
           /\ Left(e)' = Left(e)
           /\ \A x : Reported(e, x)' <=> Reported(e, x)
           /\ \A x : Owed(e, x)' <=> Owed(e, x)
<1>1. PendingFunds(e)' = PendingFunds(e) /\ Granted(e)' = Granted(e) /\ AmountOf' = AmountOf
  BY Zenon DEF TablesKept, PendingFunds, Granted, AmountOf
<1>2. GrantedAmount(e)' = GrantedAmount(e) /\ AskedFor(e)' = AskedFor(e)
  BY <1>1, Zenon DEF TablesKept, GrantedAmount, AskedFor
<1>3. Left(e)' = Left(e) /\ (Even(e)' <=> Even(e))
  BY <1>2, Zenon DEF TablesKept, Left, Even
<1>4. /\ \A x : Reported(e, x)' <=> Reported(e, x)
      /\ \A x : Owed(e, x)' <=> Owed(e, x)
  BY <1>2, <1>3, Zenon DEF TablesKept, Reported, Owed
<1>5. Booked(e)' <=> Booked(e)
  BY <1>1, <1>3, <1>4, Zenon DEF TablesKept, Status, Booked
<1>6. QED
  BY <1>1, <1>2, <1>3, <1>4, <1>5, Zenon DEF TablesKept, Status, GroupOfEvent

LEMMA ReadStep ==
    ASSUME ReviewInv, NEW s \in Slot, NEW e \in Event, job = IdleJob, job' = job,
           TablesKept, OtherSlots(s, e), DOMAIN req' = Slot, DOMAIN fundOf' = Slot,
           req[s] = Idle \/ Ev(s) = e,
           \/ req'[s] = Idle /\ Booked(e)
           \/ Informed(s)' /\ Ev(s)' = e
    PROVE  ReviewInv'
<1>1. OtherEvents(e) /\ OtherFunds(e) /\ DomainsKept /\ FundRowsInv'
  BY DEF TablesKept, OtherEvents, OtherFunds, DomainsKept, FundRowsInv, FundsTyped, ReviewInv,
         TablesInv
<1>2. SameMoney(e)
  BY DEF TablesKept, SameMoney, SameFunds, FundsOf
<1>3. Sound(e)'
  BY <1>2, SoundSame DEF ReviewInv, TablesInv
<1>4. Booked(e)' <=> Booked(e)
  BY TablesSame
<1>5. QED
  BY <1>1, <1>3, <1>4, OwnStep

-----------------------------------------------------------------------------
(* A call begins *)

\* s starts to work on e, with r.
Starts(s, e, r) ==
    /\ req[s] = Idle /\ req' = [req EXCEPT ![s] = r]
    /\ DOMAIN r = HandlerFields /\ r.event = e /\ r.op # "none"

LEMMA StartsAlone ==
    ASSUME ReviewInv, job = IdleJob, OneByOne', NEW s \in Slot, NEW e \in Event, NEW r,
           Starts(s, e, r), FundOfKept(s)
    PROVE  /\ Booked(e) /\ Sound(e) /\ OtherSlots(s, e) /\ DOMAIN req' = Slot
           /\ req'[s] = r /\ Ev(s)' = e
<1>1. /\ DOMAIN req' = Slot /\ req'[s] = r
      /\ \A t \in Slot : t # s => req'[t] = req[t]
  BY OneSlot DEF ReviewInv, TablesInv, Starts
<1>2. r # Idle /\ Ev(s)' = e
  BY <1>1, IdleIs DEF Starts, Ev
<1>3. \A t \in Slot \ {s} : req[t] # Idle => Ev(t) # e
  BY <1>1, <1>2 DEF OneByOne, Ev
<1>4. e # NoEvent
  BY LifecycleAssumption
<1>5. Alone(e)
  BY <1>3, <1>4 DEF Alone, Starts, IdleJob
<1>6. QED
  BY <1>1, <1>2, <1>3, <1>5 DEF ReviewInv, TablesInv, OtherSlots, FundOfKept

LEMMA StartsStep ==
    ASSUME ReviewInv, job = IdleJob, job' = job, OneByOne', NEW s \in Slot, NEW e \in Event,
           NEW r, Starts(s, e, r), FundOfKept(s), TablesKept, Informed(s)'
    PROVE  ReviewInv'
<1>1. /\ OtherSlots(s, e) /\ DOMAIN req' = Slot /\ DOMAIN fundOf' = Slot
      /\ req[s] = Idle /\ Ev(s)' = e
  BY StartsAlone DEF FundOfKept, Starts
<1>2. QED
  BY <1>1, ReadStep

LEMMA CallIs ==
    ASSUME NEW op, NEW u, NEW e, NEW pc, NEW target, NEW r, r = Call(op, u, e, pc, target)
    PROVE  /\ DOMAIN r = HandlerFields /\ r.op = op /\ r.event = e /\ r.pc = pc
           /\ r.target = target /\ r.budget = event[e].budget /\ r.amount = 0
  BY DEF Call, Idle, HandlerFields

LEMMA PlainBegins ==
    ASSUME ReviewInv, job = IdleJob, job' = job, OneByOne', NEW s \in Slot, NEW u,
           NEW e \in Event, FundOfKept(s), fund' = fund,
           BeginDelete(s, u, e) \/ BeginSubmit(s, u, e) \/ BeginExtend(s, u, e)
           \/ BeginSettle(s, u, e) \/ BeginView(s, u, e)
    PROVE  ReviewInv'
<1>0. req[s] = Idle /\ TablesKept
  BY DEF BeginDelete, MayDelete, BeginSubmit, MaySubmit, BeginExtend, MayExtend, BeginSettle,
     MaySettle, BeginView, MayCall, eventVars,
         ledgerVars, TablesKept
<1>1. PICK op, pc, target :
        /\ Start(s, Call(op, u, e, pc, target))
        /\ \/ op = "delete" /\ pc = "write" /\ target = "DRAFT" /\ Status(e) = "DRAFT"
           \/ /\ op = "submit" /\ pc = "rows" /\ target = "SUBMITTED"
              /\ Status(e) \in {"DRAFT", "REJECTED"}
           \/ op = "extend" /\ pc = "write" /\ target = "ONGOING" /\ Status(e) = "ONGOING"
           \/ op = "settle" /\ pc = "mark" /\ target = "SETTLED" /\ Status(e) = "COMPLETED"
           \/ op = "view" /\ pc = "mark" /\ target = "COMPLETED" /\ Status(e) = "ONGOING"
  BY DEF BeginDelete, MayDelete, BeginSubmit, MaySubmit, BeginExtend, MayExtend, BeginSettle,
     MaySettle, BeginView, submittableStatuses
<1>2. PICK r : r = Call(op, u, e, pc, target)
  OBVIOUS
<1>3. /\ DOMAIN r = HandlerFields /\ r.op = op /\ r.event = e /\ r.pc = pc
      /\ r.target = target
  BY <1>2, CallIs
<1>4. Starts(s, e, r)
  BY <1>0, <1>1, <1>2, <1>3 DEF Starts, Start
<1>5. Booked(e) /\ req'[s] = r /\ Ev(s)' = e
  BY <1>4, StartsAlone
<1>6. Status(e)' = Status(e) /\ Booked(e)'
  BY <1>0, <1>5, TablesSame
<1>7. EditsEvent(s)' \/ MovesEvent(s)'
  BY <1>1, <1>3, <1>5, <1>6 DEF EditsEvent, MovesEvent
<1>8. Informed(s)'
  BY <1>1, <1>3, <1>5, <1>7 DEF Informed
<1>9. QED
  BY <1>0, <1>4, <1>8, StartsStep

LEMMA UpdateBegins ==
    ASSUME ReviewInv, job = IdleJob, job' = job, OneByOne', NEW s \in Slot, NEW u,
           NEW e \in Event, FundOfKept(s), fund' = fund, NEW b \in Budget, BeginUpdate(s, u, e, b)
    PROVE  ReviewInv'
<1>0. req[s] = Idle /\ TablesKept
  BY DEF BeginUpdate, MayUpdate, MayCall, eventVars, ledgerVars, TablesKept
<1>1. PICK c : c = Call("update", u, e, "write", "DRAFT")
  OBVIOUS
<1>2. PICK r : r = [c EXCEPT !.budget = b]
  OBVIOUS
<1>3. /\ DOMAIN r = HandlerFields /\ r.op = "update" /\ r.event = e /\ r.pc = "write"
      /\ r.budget \in Nat
  BY <1>1, <1>2, CallIs, LifecycleAssumption DEF HandlerFields
<1>4. Starts(s, e, r) /\ Status(e) \in {"DRAFT", "REJECTED"}
  BY <1>0, <1>1, <1>2, <1>3 DEF Starts, Start, BeginUpdate, MayUpdate, editableStatuses
<1>5. Booked(e) /\ req'[s] = r /\ Ev(s)' = e
  BY <1>4, StartsAlone
<1>6. Status(e)' = Status(e) /\ Booked(e)'
  BY <1>0, <1>5, TablesSame
<1>7. EditsEvent(s)'
  BY <1>3, <1>4, <1>5, <1>6 DEF EditsEvent
<1>8. Informed(s)'
  BY <1>3, <1>5, <1>7 DEF Informed
<1>9. QED
  BY <1>0, <1>4, <1>8, StartsStep

LEMMA ApproveBegins ==
    ASSUME ReviewInv, job = IdleJob, job' = job, OneByOne', NEW s \in Slot, NEW u,
           NEW e \in Event, FundOfKept(s), fund' = fund, NEW v, BeginApprove(s, u, e, v)
    PROVE  ReviewInv'
<1>0. req[s] = Idle /\ TablesKept /\ Status(e) = "SUBMITTED"
  BY DEF BeginApprove, MayApprove, NextStepOf, MayCall, eventVars, ledgerVars, TablesKept
<1>1. PICK x, target : Start(s, [Call("approve", u, e, "decide", target) EXCEPT
                                  !.rows = {x}, !.verdict = v])
  BY Zenon DEF BeginApprove, MayApprove, NextStepOf
<1>2. PICK c : c = Call("approve", u, e, "decide", target)
  OBVIOUS
<1>3. PICK r : r = [c EXCEPT !.rows = {x}, !.verdict = v]
  OBVIOUS
<1>4. /\ DOMAIN r = HandlerFields /\ r.op = "approve" /\ r.event = e /\ r.pc = "decide"
      /\ r.budget = event[e].budget
  BY <1>2, <1>3, CallIs DEF HandlerFields
<1>5. Starts(s, e, r)
  BY <1>0, <1>1, <1>2, <1>3, <1>4 DEF Starts, Start
<1>6. Booked(e) /\ req'[s] = r /\ Ev(s)' = e
  BY <1>5, StartsAlone
<1>7. Status(e)' = Status(e) /\ Booked(e)' /\ event'[e] = event[e]
  BY <1>0, <1>6, TablesSame
<1>8. ApprovesEvent(s)'
  BY <1>0, <1>4, <1>6, <1>7 DEF ApprovesEvent
<1>9. Informed(s)'
  BY <1>4, <1>6, <1>8 DEF Informed
<1>10. QED
  BY <1>0, <1>5, <1>9, StartsStep

LEMMA CancelRequestIs ==
    ASSUME NEW u, NEW e, NEW r, r = CancelRequest(u, e)
    PROVE  /\ DOMAIN r = HandlerFields /\ r.op = "cancel" /\ r.event = e
           /\ r.target = "CANCELLED"
           /\ IF Status(e) \in {"FUNDED", "ONGOING"}
              THEN r.pc = "refund" /\ r.amount = event[e].budget
              ELSE r.pc = "mark" /\ r.amount = 0
<1>1. PICK pc : pc = IF Status(e) \in {"FUNDED", "ONGOING"} THEN "refund" ELSE "mark"
  OBVIOUS
<1>2. PICK c : c = Call("cancel", u, e, pc, "CANCELLED")
  OBVIOUS
<1>3. r = IF Status(e) \in {"FUNDED", "ONGOING"} THEN [c EXCEPT !.amount = event[e].budget] ELSE c
  BY <1>1, <1>2 DEF CancelRequest
<1>4. /\ DOMAIN c = HandlerFields /\ c.op = "cancel" /\ c.event = e /\ c.pc = pc
      /\ c.target = "CANCELLED" /\ c.amount = 0
  BY <1>2, CallIs
<1>5. QED
  BY <1>1, <1>3, <1>4 DEF HandlerFields

\* A cancellation knows the event that it has just read.
LEMMA CancelKnows ==
    ASSUME NEW s \in Slot, NEW u, NEW e \in Event, req'[s] = CancelRequest(u, e),
           TablesKept, Sound(e), Booked(e), Status(e) \in Cancelable
    PROVE  Informed(s)' /\ Ev(s)' = e
<1>1. PICK r : r = CancelRequest(u, e)
  OBVIOUS
<1>2. /\ DOMAIN r = HandlerFields /\ r.op = "cancel" /\ r.event = e /\ r.target = "CANCELLED"
      /\ IF Status(e) \in {"FUNDED", "ONGOING"}
         THEN r.pc = "refund" /\ r.amount = event[e].budget
         ELSE r.pc = "mark" /\ r.amount = 0
  BY <1>1, CancelRequestIs
<1>3. Status(e)' = Status(e) /\ Booked(e)' /\ event'[e] = event[e]
  BY TablesSame
<1>4. Ev(s)' = e /\ req'[s] = r
  BY <1>1, <1>2 DEF Ev
<1>5. Status(e) \in {"FUNDED", "ONGOING"} \cup Unfunded \cup {"UNDER_REVIEW"}
  BY DEF Cancelable, EventStatus, Sound, RowStatus, Unfunded
<1>6. CancelsEvent(s)'
  BY <1>2, <1>3, <1>4, <1>5 DEF CancelsEvent
<1>7. QED
  BY <1>2, <1>4, <1>6 DEF Informed

LEMMA CancelBegins ==
    ASSUME ReviewInv, job = IdleJob, job' = job, OneByOne', NEW s \in Slot, NEW u,
           NEW e \in Event, FundOfKept(s), fund' = fund, BeginCancel(s, u, e)
    PROVE  ReviewInv'
<1>0. req[s] = Idle /\ TablesKept
  BY DEF BeginCancel, MayCancel, MayCall, eventVars, ledgerVars, TablesKept
<1>1. CASE Status(e) = "ONGOING" /\ Start(s, Call("cancel", u, e, "mark", "COMPLETED"))
  <2>1. PICK r : r = Call("cancel", u, e, "mark", "COMPLETED")
    OBVIOUS
  <2>2. /\ DOMAIN r = HandlerFields /\ r.op = "cancel" /\ r.event = e /\ r.pc = "mark"
        /\ r.target = "COMPLETED" /\ r.amount = 0
    BY <2>1, CallIs
  <2>3. Starts(s, e, r)
    BY <1>0, <1>1, <2>1, <2>2 DEF Starts, Start
  <2>4. Booked(e) /\ req'[s] = r /\ Ev(s)' = e
    BY <2>3, StartsAlone
  <2>5. Status(e)' = Status(e) /\ Booked(e)'
    BY <1>0, <2>4, TablesSame
  <2>6. CancelsEvent(s)'
    BY <1>1, <2>2, <2>4, <2>5 DEF CancelsEvent
  <2>7. Informed(s)'
    BY <2>2, <2>4, <2>6 DEF Informed
  <2>8. QED
    BY <1>0, <2>3, <2>7, StartsStep
<1>2. CASE Status(e) \in Cancelable /\ Start(s, CancelRequest(u, e))
  <2>1. PICK r : r = CancelRequest(u, e)
    OBVIOUS
  <2>2. DOMAIN r = HandlerFields /\ r.op = "cancel" /\ r.event = e
    BY <2>1, CancelRequestIs
  <2>3. Starts(s, e, r)
    BY <1>0, <1>2, <2>1, <2>2 DEF Starts, Start
  <2>4. Booked(e) /\ Sound(e) /\ req'[s] = r
    BY <2>3, StartsAlone
  <2>5. Informed(s)'
    BY <1>0, <1>2, <2>1, <2>4, CancelKnows
  <2>6. QED
    BY <1>0, <2>3, <2>5, StartsStep
<1>3. QED
  BY <1>1, <1>2 DEF BeginCancel, MayCancel

LEMMA ExpenseBegins ==
    ASSUME ReviewInv, job = IdleJob, job' = job, OneByOne', NEW s \in Slot, NEW u,
           NEW e \in Event, FundOfKept(s), fund' = fund,
           NEW total \in Spending, NEW rest \in Remaining, BeginExpense(s, u, e, total, rest)
    PROVE  ReviewInv'
<1>0. /\ req[s] = Idle /\ TablesKept /\ Status(e) = "FUNDED"
      /\ total + rest - event[e].budget \in -Tolerance..Tolerance
  BY DEF BeginExpense, MayReport, MayCall, eventVars, ledgerVars, TablesKept, Balanced
<1>1. PICK c : c = Call("expense", u, e, "expense", "ONGOING")
  OBVIOUS
<1>2. PICK r : r = [c EXCEPT !.spent = total, !.left = total, !.amount = rest]
  OBVIOUS
<1>3. /\ DOMAIN r = HandlerFields /\ r.op = "expense" /\ r.event = e /\ r.pc = "expense"
      /\ r.target = "ONGOING" /\ r.spent = total /\ r.amount = rest
  BY <1>1, <1>2, CallIs DEF HandlerFields
<1>4. total \in Nat /\ rest \in Int /\ (NothingMissing => rest >= 0)
  BY LifecycleAssumption DEF NothingMissing
<1>5. Starts(s, e, r)
  BY <1>0, <1>1, <1>2, <1>3 DEF Starts, Start, BeginExpense, MayReport
<1>6. Booked(e) /\ req'[s] = r /\ Ev(s)' = e
  BY <1>5, StartsAlone
<1>7. Status(e)' = Status(e) /\ Booked(e)' /\ event'[e] = event[e]
  BY <1>0, <1>6, TablesSame
<1>8. ReportsEvent(s)'
  BY <1>0, <1>3, <1>4, <1>6, <1>7 DEF ReportsEvent, NothingMissing
<1>9. Informed(s)'
  BY <1>3, <1>6, <1>8 DEF Informed
<1>10. QED
  BY <1>0, <1>5, <1>9, StartsStep

LEMMA BeginKeeps ==
    ASSUME ReviewInv, job = IdleJob, job' = job, OneByOne', NEW s \in Slot, FundOfKept(s),
           fund' = fund, Begin(s)
    PROVE  ReviewInv'
<1>1. PICK u \in User, e \in Event :
        \/ \E b \in Budget : BeginUpdate(s, u, e, b)
        \/ BeginDelete(s, u, e)
        \/ BeginSubmit(s, u, e)
        \/ \E v \in ApprovalStatus : BeginApprove(s, u, e, v)
        \/ BeginCancel(s, u, e)
        \/ \E total \in Spending, rest \in Remaining : BeginExpense(s, u, e, total, rest)
        \/ BeginExtend(s, u, e)
        \/ BeginSettle(s, u, e)
        \/ BeginView(s, u, e)
  BY Zenon DEF Begin
<1>2. QED
  BY <1>1, PlainBegins, UpdateBegins, ApproveBegins, CancelBegins, ExpenseBegins

\* The two calls of additional funds.
LEMMA AskBegins ==
    ASSUME ReviewInv, job = IdleJob, job' = job, OneByOne', NEW s \in Slot, NEW u \in User,
           NEW e \in Event, NEW a \in FundAmount, BeginAsk(s, u, e, a)
    PROVE  ReviewInv'
<1>0. /\ req[s] = Idle /\ TablesKept /\ Status(e) = "FUNDED" /\ fundOf' = fundOf
      /\ ParentOf[GroupOfEvent(e)] # NoGroup
  BY DEF BeginAsk, MayAskFund, MayCallFund, eventVars, ledgerVars, fundVars, TablesKept
<1>1. PICK c : c = Call("askfund", u, e, "checkPending", "UNDER_REVIEW")
  OBVIOUS
<1>2. PICK r : r = [c EXCEPT !.amount = a]
  OBVIOUS
<1>3. /\ DOMAIN r = HandlerFields /\ r.op = "askfund" /\ r.event = e /\ r.pc = "checkPending"
      /\ r.target = "UNDER_REVIEW" /\ r.amount = a
  BY <1>1, <1>2, CallIs DEF HandlerFields
<1>4. a \in Nat /\ FundOfKept(s)
  BY <1>0, FundingAssumption DEF FundOfKept, ReviewInv, TablesInv
<1>5. Starts(s, e, r)
  BY <1>0, <1>1, <1>2, <1>3 DEF Starts, Start, BeginAsk, MayAskFund
<1>6. Booked(e) /\ req'[s] = r /\ Ev(s)' = e
  BY <1>4, <1>5, StartsAlone
<1>7. /\ Status(e)' = Status(e) /\ Booked(e)' /\ event'[e] = event[e]
      /\ GroupOfEvent(e)' = GroupOfEvent(e)
  BY <1>0, <1>6, TablesSame
<1>9. AsksForMore(s)'
  BY <1>0, <1>3, <1>4, <1>6, <1>7 DEF AsksForMore
<1>10. Informed(s)'
  BY <1>3, <1>6, <1>9 DEF Informed
<1>11. QED
  BY <1>0, <1>4, <1>5, <1>10, StartsStep

LEMMA ReviewBegins ==
    ASSUME ReviewInv, job = IdleJob, job' = job, OneByOne', NEW s \in Slot, NEW u \in User,
           NEW e \in Event, NEW yes, NEW a \in FundAmount \cup {0}, BeginReview(s, u, e, yes, a)
    PROVE  ReviewInv'
<1>0. req[s] = Idle /\ TablesKept /\ Status(e) = "UNDER_REVIEW" /\ fundOf' = fundOf
  BY DEF BeginReview, MayReview, MayCallFund, eventVars, ledgerVars, fundVars, TablesKept
<1>1. PICK c : c = Call("review", u, e, "findFund", "FUNDED")
  OBVIOUS
<1>2. PICK v : v = IF yes THEN "APPROVED" ELSE "REJECTED"
  OBVIOUS
<1>3. PICK r : r = [c EXCEPT !.amount = a, !.verdict = v]
  OBVIOUS
<1>4. /\ DOMAIN r = HandlerFields /\ r.op = "review" /\ r.event = e /\ r.pc = "findFund"
      /\ r.target = "FUNDED" /\ r.amount = a /\ r.budget = event[e].budget
  BY <1>1, <1>3, CallIs DEF HandlerFields
<1>5. a \in Nat /\ FundOfKept(s)
  BY <1>0, FundingAssumption DEF FundOfKept, ReviewInv, TablesInv
<1>6. Starts(s, e, r)
  BY <1>0, <1>1, <1>2, <1>3, <1>4 DEF Starts, Start, BeginReview, MayReview
<1>7. Booked(e) /\ req'[s] = r /\ Ev(s)' = e
  BY <1>5, <1>6, StartsAlone
<1>8. Status(e)' = Status(e) /\ Booked(e)' /\ event'[e] = event[e]
  BY <1>0, <1>7, TablesSame
<1>9. ReviewsFunds(s)'
  BY <1>0, <1>4, <1>5, <1>7, <1>8 DEF ReviewsFunds
<1>10. Informed(s)'
  BY <1>4, <1>7, <1>9 DEF Informed
<1>11. QED
  BY <1>0, <1>5, <1>6, <1>10, StartsStep

-----------------------------------------------------------------------------
(* A handler goes on *)

\* s, at work on e, goes on with n, and the handlers of other events wait.
Leaves(s, e, n) == OtherSlots(s, e) /\ DOMAIN req' = Slot /\ req'[s] = n

LEMMA SetLeaves ==
    ASSUME ReviewInv, OneByOne, NEW s \in Slot, req[s] # Idle, FundOfKept(s), NEW n,
           req' = [req EXCEPT ![s] = n]
    PROVE  Leaves(s, Ev(s), n)
<1>1. /\ DOMAIN req' = Slot /\ req'[s] = n
      /\ \A t \in Slot : t # s => req'[t] = req[t]
  BY OneSlot DEF ReviewInv, TablesInv
<1>2. QED
  BY <1>1 DEF Leaves, OtherSlots, OneByOne, FundOfKept

LEMMA ForgetLeaves ==
    ASSUME ReviewInv, OneByOne, NEW s \in Slot, req[s] # Idle, FundOfKept(s), NEW n,
           ForgetRows(s, Ev(s), n)
    PROVE  Leaves(s, Ev(s), n)
<1>1. DOMAIN req' = Slot /\ req'[s] = n
  BY DEF ForgetRows
<1>2. ASSUME NEW t \in Slot \ {s}
      PROVE  req'[t] = req[t] /\ (req[t] # Idle => Ev(t) # Ev(s))
  <2>1. ~(req[t].op = "approve" /\ Ev(t) = Ev(s))
    BY <1>2, IdleIs DEF OneByOne
  <2>2. req'[t] = req[t]
    BY <1>2, <2>1 DEF ForgetRows
  <2>3. QED
    BY <1>2, <2>2 DEF OneByOne
<1>3. QED
  BY <1>1, <1>2 DEF Leaves, OtherSlots, FundOfKept

\* What every step below starts from.
GoesOn(s, e) ==
    /\ ReviewInv /\ OneByOne /\ req[s] # Idle /\ Ev(s) = e /\ e \in Event
    /\ job = IdleJob /\ job' = job /\ FundOfKept(s)
    /\ Informed(s) /\ Sound(e) /\ FundsTyped

LEMMA StepReads ==
    ASSUME NEW s \in Slot, NEW e, GoesOn(s, e), TablesKept, NEW n, Leaves(s, e, n),
           \/ n = Idle /\ Booked(e)
           \/ Informed(s)' /\ n.event = e
    PROVE  ReviewInv'
<1>1. Ev(s)' = n.event
  BY DEF Leaves, Ev
<1>2. QED
  BY <1>1, ReadStep DEF GoesOn, Leaves, FundOfKept

LEMMA StepWrites ==
    ASSUME NEW s \in Slot, NEW e, GoesOn(s, e), fund' = fund, OtherEvents(e),
           DOMAIN event' = Event, DOMAIN paidOut' = Event, DOMAIN trail' = Event,
           Sound(e)', NEW n, Leaves(s, e, n),
           \/ n = Idle /\ Booked(e)'
           \/ Informed(s)' /\ n.event = e
    PROVE  ReviewInv'
<1>1. Ev(s)' = n.event
  BY DEF Leaves, Ev
<1>2. OtherFunds(e) /\ FundRowsInv' /\ DomainsKept
  BY DEF GoesOn, OtherFunds, FundRowsInv, FundsTyped, ReviewInv, TablesInv, DomainsKept, Leaves,
         FundOfKept
<1>3. QED
  BY <1>1, <1>2, OwnStep DEF GoesOn, Leaves

\* The budget-keeping facts when only the row's status, end, or the payments change.
LEMMA FundsFixed ==
    ASSUME fund' = fund, NEW e
    PROVE  /\ PendingFunds(e)' = PendingFunds(e) /\ Granted(e)' = Granted(e)
           /\ GrantedAmount(e)' = GrantedAmount(e) /\ FundsOf(e)' = FundsOf(e)
           /\ AskedFor(e)' = AskedFor(e)
  BY Zenon DEF PendingFunds, Granted, GrantedAmount, FundsOf, AskedFor, AmountOf

\* What the operation says of the handler.
LEMMA OpTells ==
    ASSUME NEW s, Informed(s)
    PROVE  /\ req[s].op \in {"update", "delete", "submit"} => EditsEvent(s)
           /\ req[s].op = "approve" => ApprovesEvent(s)
           /\ req[s].op = "cancel" => CancelsEvent(s)
           /\ req[s].op = "expense" => ReportsEvent(s)
           /\ req[s].op \in {"extend", "settle", "view"} => MovesEvent(s)
           /\ req[s].op = "askfund" => AsksForMore(s)
           /\ req[s].op = "review" => ReviewsFunds(s)
<1>1. /\ EditsEvent(s) => req[s].op \in {"update", "delete", "submit"}
      /\ ApprovesEvent(s) => req[s].op = "approve"
      /\ CancelsEvent(s) => req[s].op = "cancel"
      /\ ReportsEvent(s) => req[s].op = "expense"
      /\ MovesEvent(s) => req[s].op \in {"extend", "settle", "view"}
      /\ AsksForMore(s) => req[s].op = "askfund"
      /\ ReviewsFunds(s) => req[s].op = "review"
  BY DEF EditsEvent, ApprovesEvent, CancelsEvent, ReportsEvent, MovesEvent, AsksForMore,
         ReviewsFunds
<1>2. QED
  BY <1>1 DEF Informed

LEMMA NotDeleted ==
    ASSUME NEW s \in Slot, NEW e, GoesOn(s, e)
    PROVE  ~FailOnDeleted(s)
  BY DEF GoesOn, Informed, EditsEvent, ApprovesEvent, CancelsEvent, ReportsEvent, MovesEvent,
         AsksForMore, ReviewsFunds, FailOnDeleted, Deleted, Cancelable, Unfunded

\* One handler of an event cannot stand in the way of another one of it.
LEMMA NobodyBlocks ==
    ASSUME OneByOne, NEW s \in Slot
    PROVE  ~Deadlock(s) /\ ~TimesOut(s) /\ ~FundDeadlock(s)
  BY DEF OneByOne, Deadlock, Deadlocked, FundDeadlock, FundDeadlocked, NeedsEvent, TimesOut,
         NoDeletion, Running, At, Idle

-----------------------------------------------------------------------------
(* Editing, submitting *)

LEMMA EditStep ==
    ASSUME NEW s \in Slot, NEW e, GoesOn(s, e), fund' = fund,
           (\E late \in BOOLEAN : WriteUpdate(s, late)) \/ LockEvent(s) \/ WriteDelete(s)
    PROVE  ReviewInv'
<1>0. /\ DOMAIN event = Event /\ DOMAIN event[e] = EventFields /\ DOMAIN paidOut = Event
      /\ DOMAIN trail = Event
  BY DEF GoesOn, Sound, ReviewInv, TablesInv
<1>1. EditsEvent(s)
  BY OpTells DEF GoesOn, WriteUpdate, LockEvent, WriteDelete, At
<1>2. ASSUME NEW late \in BOOLEAN, WriteUpdate(s, late) PROVE ReviewInv'
  <2>1. /\ Booked(e) /\ req[s].budget \in Nat /\ Status(e) \in {"DRAFT", "REJECTED"}
        /\ paidOut' = paidOut /\ trail' = trail
    BY <1>1, <1>2 DEF EditsEvent, WriteUpdate, At, GoesOn, ledgerVars
  <2>2. event' = [event EXCEPT ![e].budget = req[s].budget, ![e].ended = late]
    BY <1>2 DEF WriteUpdate, GoesOn
  <2>3. /\ DOMAIN event' = Event /\ OtherEvents(e)
        /\ DOMAIN event'[e] = EventFields /\ event'[e].budget = req[s].budget
        /\ event'[e].status = event[e].status /\ event'[e].actual = event[e].actual
        /\ event'[e].creator = event[e].creator
    BY <1>0, <2>1, <2>2 DEF OtherEvents, EventFields, GoesOn
  <2>4. Sound(e)'
    BY <2>1, <2>3, FundsFixed DEF Sound, GoesOn, Status
  <2>5. Booked(e)'
    BY <2>1, <2>3 DEF Booked, Status, Unfunded
  <2>6. Leaves(s, e, Idle)
    BY <1>2, SetLeaves DEF GoesOn, WriteUpdate, Finish
  <2>7. QED
    BY <1>0, <2>1, <2>3, <2>4, <2>5, <2>6, StepWrites
<1>3. CASE WriteDelete(s)
  <2>1. /\ Status(e) = "DRAFT" /\ paidOut' = paidOut /\ trail' = trail
        /\ event' = [event EXCEPT ![e].status = "DELETED"]
    BY <1>1, <1>3 DEF EditsEvent, WriteDelete, At, GoesOn, ledgerVars
  <2>2. /\ DOMAIN event' = Event /\ OtherEvents(e)
        /\ DOMAIN event'[e] = EventFields /\ event'[e].budget = event[e].budget
        /\ event'[e].status = "DELETED" /\ event'[e].actual = event[e].actual
        /\ event'[e].creator = event[e].creator
    BY <1>0, <2>1 DEF OtherEvents, EventFields, GoesOn
  <2>3. FundsOf(e)' = FundsOf(e) /\ FundsOf(e) = {}
    BY <2>1, FundsFixed DEF GoesOn, Sound, FundedOnce
  <2>4. Sound(e)'
    BY <2>1, <2>2, <2>3 DEF Sound, GoesOn, Status, RowStatus, EventStatus
  <2>5. Booked(e)'
    BY <2>2 DEF Booked, Status, Unfunded
  <2>6. Leaves(s, e, Idle)
    BY <1>3, ForgetLeaves DEF GoesOn, WriteDelete
  <2>7. QED
    BY <1>0, <2>1, <2>2, <2>4, <2>5, <2>6, StepWrites
<1>4. CASE LockEvent(s)
  <2>0. TablesKept
    BY <1>4 DEF LockEvent, TablesKept, eventVars, ledgerVars
  <2>1. /\ req[s].op = "delete" /\ Status(e) = "DRAFT" /\ Booked(e)
        /\ DOMAIN req[s] = HandlerFields /\ req[s].event = e
    BY <1>1, <1>4 DEF EditsEvent, LockEvent, At, GoesOn, Informed, Ev
  <2>2. PICK n : n = [req[s] EXCEPT !.pc = "cascade"]
    OBVIOUS
  <2>3. DOMAIN n = HandlerFields /\ n.op = "delete" /\ n.event = e /\ n.pc = "cascade"
    BY <2>1, <2>2 DEF HandlerFields
  <2>4. Leaves(s, e, n)
    <3>1. req' = [req EXCEPT ![s] = n]
      BY <1>4, <2>2 DEF LockEvent, Goto
    <3>2. QED
      BY <3>1, SetLeaves DEF GoesOn
  <2>5. Status(e)' = Status(e) /\ Booked(e)' /\ Ev(s)' = e /\ req'[s] = n
    BY <2>0, <2>1, <2>3, <2>4, TablesSame DEF Leaves, Ev
  <2>6. EditsEvent(s)'
    BY <2>1, <2>3, <2>5 DEF EditsEvent
  <2>7. Informed(s)'
    BY <2>3, <2>5, <2>6 DEF Informed, GoesOn
  <2>8. QED
    BY <2>0, <2>3, <2>4, <2>7, StepReads
<1>5. QED
  BY <1>2, <1>3, <1>4

LEMMA SubmitStep ==
    ASSUME NEW s \in Slot, NEW e, GoesOn(s, e), fund' = fund,
           ReadWorkflow(s) \/ ClearApprovals(s) \/ InsertApproval(s)
    PROVE  ReviewInv'
<1>0. TablesKept /\ req[s].op = "submit" /\ req[s].pc \in {"rows", "clear", "insert"}
  BY DEF ReadWorkflow, ClearApprovals, InsertApproval, At, eventVars, ledgerVars, TablesKept
<1>1. /\ EditsEvent(s) /\ DOMAIN req[s] = HandlerFields
  BY <1>0, OpTells DEF GoesOn, Informed
<1>2. /\ req[s].target = "SUBMITTED" /\ Status(e) \in {"DRAFT", "REJECTED"} /\ Booked(e)
      /\ req[s].event = e
  BY <1>0, <1>1 DEF EditsEvent, GoesOn, Ev
<1>3. ASSUME NEW n, Leaves(s, e, n), DOMAIN n = HandlerFields, n.op = "submit", n.event = e,
             n.target = "SUBMITTED", n.pc \in {"clear", "insert", "mark"}
      PROVE  ReviewInv'
  <2>1. Status(e)' = Status(e) /\ Booked(e)' /\ Ev(s)' = e /\ req'[s] = n
    BY <1>0, <1>2, <1>3, TablesSame DEF Leaves, Ev
  <2>2. EditsEvent(s)'
    BY <1>2, <1>3, <2>1 DEF EditsEvent
  <2>3. Informed(s)'
    BY <1>3, <2>1, <2>2 DEF Informed, GoesOn
  <2>4. QED
    BY <1>0, <1>3, <2>3, StepReads
<1>4. ASSUME req' = [req EXCEPT ![s] = Idle] PROVE ReviewInv'
  <2>1. Leaves(s, e, Idle)
    BY <1>4, SetLeaves DEF GoesOn
  <2>2. QED
    BY <1>0, <1>2, <2>1, StepReads
<1>5. CASE ReadWorkflow(s)
  <2>1. CASE Finish(s)
    BY <1>4, <2>1 DEF Finish
  <2>2. ASSUME NEW w, req' = [req EXCEPT ![s].rows = w, ![s].pc = "clear"] PROVE ReviewInv'
    <3>1. PICK n : n = [req[s] EXCEPT !.rows = w, !.pc = "clear"]
      OBVIOUS
    <3>2. req' = [req EXCEPT ![s] = n]
      BY <2>2, <3>1
    <3>3. /\ DOMAIN n = HandlerFields /\ n.op = "submit" /\ n.event = e
          /\ n.target = "SUBMITTED" /\ n.pc = "clear"
      BY <1>0, <1>1, <1>2, <3>1 DEF HandlerFields
    <3>4. Leaves(s, e, n)
      BY <3>2, SetLeaves DEF GoesOn
    <3>5. QED
      BY <1>3, <3>3, <3>4
  <2>3. QED
    BY <1>5, <2>1, <2>2 DEF ReadWorkflow
<1>6. CASE ClearApprovals(s)
  <2>1. PICK n : n = [req[s] EXCEPT !.pc = "insert"]
    OBVIOUS
  <2>2. ForgetRows(s, Ev(s), n)
    BY <1>6, <2>1 DEF ClearApprovals
  <2>3. /\ DOMAIN n = HandlerFields /\ n.op = "submit" /\ n.event = e
        /\ n.target = "SUBMITTED" /\ n.pc = "insert"
    BY <1>0, <1>1, <1>2, <2>1 DEF HandlerFields
  <2>4. Leaves(s, e, n)
    BY <2>2, ForgetLeaves DEF GoesOn
  <2>5. QED
    BY <1>3, <2>3, <2>4
<1>7. CASE InsertApproval(s)
  <2>1. PICK rest, pc : /\ pc \in {"mark", "insert"}
                        /\ Finish(s) \/ req' = [req EXCEPT ![s].rows = rest, ![s].pc = pc]
    BY <1>7 DEF InsertApproval
  <2>2. CASE Finish(s)
    BY <1>4, <2>2 DEF Finish
  <2>3. CASE req' = [req EXCEPT ![s].rows = rest, ![s].pc = pc]
    <3>1. PICK n : n = [req[s] EXCEPT !.rows = rest, !.pc = pc]
      OBVIOUS
    <3>2. req' = [req EXCEPT ![s] = n]
      BY <2>3, <3>1
    <3>3. /\ DOMAIN n = HandlerFields /\ n.op = "submit" /\ n.event = e
          /\ n.target = "SUBMITTED" /\ n.pc = pc
      BY <1>0, <1>1, <1>2, <3>1 DEF HandlerFields
    <3>4. Leaves(s, e, n)
      BY <3>2, SetLeaves DEF GoesOn
    <3>5. QED
      BY <1>3, <2>1, <3>3, <3>4
  <2>4. QED
    BY <2>1, <2>2, <2>3
<1>8. QED
  BY <1>5, <1>6, <1>7

-----------------------------------------------------------------------------
(* updateEventStatus *)

LEMMA HistoryStep ==
    ASSUME NEW s \in Slot, NEW e, GoesOn(s, e), fund' = fund, ReadForHistory(s)
    PROVE  ReviewInv'
<1>0. TablesKept /\ req[s].pc = "mark" /\ DOMAIN req[s] = HandlerFields /\ Ev(s) = e
  BY DEF ReadForHistory, eventVars, ledgerVars, TablesKept, GoesOn, Informed
<1>1. PICK n : n = [req[s] EXCEPT !.prior = Status(e), !.pc = "set"]
  OBVIOUS
<1>2. /\ DOMAIN n = HandlerFields /\ n.op = req[s].op /\ n.event = e /\ n.target = req[s].target
      /\ n.budget = req[s].budget /\ n.amount = req[s].amount /\ n.spent = req[s].spent
      /\ n.prior = Status(e) /\ n.pc = "set"
  BY <1>0, <1>1 DEF HandlerFields, Ev
<1>3. Leaves(s, e, n)
  <2>1. req' = [req EXCEPT ![s] = n]
    BY <1>0, <1>1 DEF ReadForHistory
  <2>2. QED
    BY <2>1, SetLeaves DEF GoesOn
<1>4. Ev(s)' = e /\ req'[s] = n
  BY <1>2, <1>3 DEF Leaves, Ev
<1>5. /\ Status(e)' = Status(e) /\ event'[e] = event[e] /\ paidOut'[e] = paidOut[e]
      /\ Booked(e)' <=> Booked(e)
      /\ Even(e)' <=> Even(e)
      /\ PendingFunds(e)' = PendingFunds(e) /\ GroupOfEvent(e)' = GroupOfEvent(e)
      /\ Left(e)' = Left(e)
      /\ Owed(e, 0)' <=> Owed(e, 0)
  BY <1>0, TablesSame
<1>6. EditsEvent(s) => EditsEvent(s)'
  BY <1>0, <1>2, <1>4, <1>5 DEF EditsEvent
<1>7. ~ApprovesEvent(s)
  BY <1>0 DEF ApprovesEvent
<1>8. CancelsEvent(s) => CancelsEvent(s)'
  BY <1>0, <1>2, <1>4, <1>5 DEF CancelsEvent
<1>9. ReportsEvent(s) => ReportsEvent(s)'
  BY <1>0, <1>2, <1>4, <1>5 DEF ReportsEvent
<1>10. MovesEvent(s) => MovesEvent(s)'
  BY <1>0, <1>2, <1>4, <1>5 DEF MovesEvent
<1>11. AsksForMore(s) => AsksForMore(s)'
  BY <1>0, <1>2, <1>4, <1>5 DEF AsksForMore
<1>12. ReviewsFunds(s) => ReviewsFunds(s)'
  BY <1>0, <1>2, <1>4, <1>5 DEF ReviewsFunds
<1>13. Informed(s)'
  BY <1>2, <1>4, <1>5, <1>6, <1>7, <1>8, <1>9, <1>10, <1>11, <1>12 DEF Informed, GoesOn
<1>14. QED
  BY <1>0, <1>2, <1>3, <1>13, StepReads

\* The row of e gets another status; its money stays.
LEMMA StatusWritten ==
    ASSUME NEW s \in Slot, NEW e, GoesOn(s, e), fund' = fund, UNCHANGED paidOut, NEW p, NEW new,
           SetStatus(e, p, new), new \in RowStatus \ {"APPROVED", "ABSENT"},
           new \in FundedOnce \/ Status(e) \notin FundedOnce, Status(e) # "ABSENT"
    PROVE  /\ OtherEvents(e) /\ Sound(e)'
           /\ DOMAIN event' = Event /\ DOMAIN paidOut' = Event /\ DOMAIN trail' = Event
           /\ Status(e)' = new /\ trail'[e].prev = p
           /\ event'[e].budget = event[e].budget /\ event'[e].actual = event[e].actual
           /\ event'[e].creator = event[e].creator
           /\ Even(e)' <=> Even(e)
           /\ \A x : Reported(e, x)' <=> Reported(e, x)
           /\ \A x : Owed(e, x)' <=> Owed(e, x)
           /\ PendingFunds(e)' = PendingFunds(e) /\ GrantedAmount(e)' = GrantedAmount(e)
           /\ Left(e)' = Left(e)
<1>0. /\ DOMAIN event = Event /\ DOMAIN event[e] = EventFields /\ DOMAIN paidOut = Event
      /\ DOMAIN trail = Event /\ e \in Event
  BY DEF GoesOn, Sound, ReviewInv, TablesInv
<1>1. /\ event' = [event EXCEPT ![e].status = new]
      /\ trail' = [trail EXCEPT ![e] = [prev |-> p, new |-> new]]
  BY DEF SetStatus
<1>2. /\ OtherEvents(e)
      /\ DOMAIN event' = Event /\ DOMAIN paidOut' = Event /\ DOMAIN trail' = Event
      /\ Status(e)' = new /\ trail'[e].prev = p
      /\ DOMAIN event'[e] = EventFields
      /\ event'[e].budget = event[e].budget /\ event'[e].actual = event[e].actual
      /\ event'[e].creator = event[e].creator
  BY <1>0, <1>1 DEF OtherEvents, EventFields, Status
<1>3. /\ PendingFunds(e)' = PendingFunds(e) /\ GrantedAmount(e)' = GrantedAmount(e)
      /\ FundsOf(e)' = FundsOf(e) /\ AskedFor(e)' = AskedFor(e)
  BY FundsFixed
<1>4. /\ Even(e)' <=> Even(e)
      /\ \A x : Reported(e, x)' <=> Reported(e, x)
      /\ Left(e)' = Left(e)
      /\ \A x : Owed(e, x)' <=> Owed(e, x)
  BY <1>2, <1>3 DEF Even, Reported, Left, Owed
<1>5. Sound(e)'
  BY <1>2, <1>3 DEF Sound, GoesOn, Status
<1>6. QED
  BY <1>2, <1>3, <1>4, <1>5

LEMMA AfterStatusIs ==
    ASSUME NEW r, DOMAIN r = HandlerFields, NEW n, n = AfterStatus(r)
    PROVE  /\ r.op \notin {"expense", "cancel"} => n = Idle
           /\ r.op = "cancel" /\ r.target # "COMPLETED" => n = Idle
           /\ r.op = "expense" /\ ~(r.amount > 0) => n = Idle
           /\ (r.op = "expense" /\ r.amount > 0) \/ (r.op = "cancel" /\ r.target = "COMPLETED") =>
                /\ DOMAIN n = HandlerFields /\ n.op = r.op /\ n.event = r.event
                /\ n.target = r.target /\ n.amount = r.amount /\ n.spent = r.spent
                /\ n.pc = IF r.op = "expense" THEN "refund" ELSE "reread"
<1>1. CASE r.op = "expense" /\ r.amount > 0
  <2>1. n = [r EXCEPT !.pc = "refund"]
    BY <1>1 DEF AfterStatus
  <2>2. QED
    BY <1>1, <2>1 DEF HandlerFields
<1>2. CASE r.op = "cancel" /\ r.target = "COMPLETED"
  <2>1. n = [r EXCEPT !.pc = "reread"]
    BY <1>2 DEF AfterStatus
  <2>2. QED
    BY <1>2, <2>1 DEF HandlerFields
<1>3. CASE ~(r.op = "expense" /\ r.amount > 0) /\ ~(r.op = "cancel" /\ r.target = "COMPLETED")
  <2>1. n = Idle
    BY <1>3, Zenon DEF AfterStatus
  <2>2. QED
    BY <1>3, <2>1
<1>4. QED
  BY <1>1, <1>2, <1>3

LEMMA StatusStep ==
    ASSUME NEW s \in Slot, NEW e, GoesOn(s, e), fund' = fund, WriteStatus(s)
    PROVE  ReviewInv'
<1>0. /\ req[s].pc = "set" /\ req[s].prior = Status(e) /\ DOMAIN req[s] = HandlerFields
      /\ SetStatus(e, Status(e), req[s].target) /\ UNCHANGED paidOut /\ Ev(s) = e
      /\ req[s].event = e
  BY DEF WriteStatus, GoesOn, Informed, ledgerVars, Ev
<1>1. PICK n : n = AfterStatus(req[s])
  OBVIOUS
<1>2. Leaves(s, e, n)
  <2>1. req' = [req EXCEPT ![s] = n]
    BY <1>1 DEF WriteStatus
  <2>2. QED
    BY <2>1, SetLeaves DEF GoesOn
<1>3. /\ GrantedAmount(e) \in Nat /\ Tolerance \in Nat /\ event[e].budget \in Nat
      /\ paidOut[e] \in Int /\ event[e].actual \in Nat
  BY GrantedNat, LifecycleAssumption DEF GoesOn, Sound
<1> DEFINE Written(new) ==
      /\ OtherEvents(e) /\ Sound(e)'
      /\ DOMAIN event' = Event /\ DOMAIN paidOut' = Event /\ DOMAIN trail' = Event
      /\ Status(e)' = new /\ trail'[e].prev = Status(e)
      /\ event'[e].budget = event[e].budget /\ event'[e].actual = event[e].actual
      /\ event'[e].creator = event[e].creator
      /\ Even(e)' <=> Even(e)
      /\ \A x : Reported(e, x)' <=> Reported(e, x)
      /\ \A x : Owed(e, x)' <=> Owed(e, x)
      /\ PendingFunds(e)' = PendingFunds(e) /\ Left(e)' = Left(e)
<1>4. ASSUME req[s].target \in RowStatus \ {"APPROVED", "ABSENT"}, Status(e) # "ABSENT",
             req[s].target \in FundedOnce \/ Status(e) \notin FundedOnce
      PROVE  Written(req[s].target)
  BY <1>0, <1>4, StatusWritten
<1> HIDE DEF Written
<1>5. ASSUME NEW new, Written(new), n = Idle, Booked(e)' PROVE ReviewInv'
  BY <1>2, <1>5, StepWrites DEF Written
<1>6. ASSUME NEW new, Written(new), n.event = e, Informed(s)' PROVE ReviewInv'
  BY <1>2, <1>6, StepWrites DEF Written
<1>7. CASE EditsEvent(s)
  <2>1. /\ req[s].op = "submit" /\ req[s].target = "SUBMITTED" /\ Status(e) \in {"DRAFT", "REJECTED"}
        /\ Booked(e)
    BY <1>0, <1>7 DEF EditsEvent
  <2>2. Written("SUBMITTED")
    BY <1>4, <2>1 DEF RowStatus, EventStatus, FundedOnce
  <2>3. Booked(e)'
    BY <1>0, <2>1, <2>2 DEF Booked, Written, Unfunded
  <2>4. QED
    BY <1>0, <1>1, <1>5, <2>1, <2>2, <2>3, AfterStatusIs
<1>8. CASE CancelsEvent(s)
  <2>1. CASE req[s].target = "CANCELLED"
    <3>1. /\ req[s].op = "cancel" /\ Status(e) \in {"FUNDED", "ONGOING", "UNDER_REVIEW"} \cup Unfunded
          /\ \/ Status(e) = "UNDER_REVIEW" \/ Owed(e, 0)
             \/ Status(e) = "ONGOING" /\ Left(e) <= 0
      <4>1. ASSUME Booked(e), Status(e) \in Unfunded PROVE Owed(e, 0)
        <5>1. paidOut[e] = 0 /\ FundsOf(e) = {}
          BY <4>1 DEF Booked, Sound, GoesOn, Unfunded, FundedOnce
        <5>2. QED
          BY <5>1, NothingAsked DEF Owed, Left
      <4>2. QED
        BY <1>0, <1>8, <2>1, <4>1 DEF CancelsEvent
    <3>2. Written("CANCELLED")
      BY <1>4, <2>1, <3>1 DEF RowStatus, EventStatus, FundedOnce, Unfunded
    <3>3. Booked(e)'
      BY <1>0, <3>1, <3>2 DEF Booked, Written, Unfunded
    <3>4. QED
      BY <1>0, <1>1, <1>5, <2>1, <3>1, <3>2, <3>3, AfterStatusIs
  <2>2. CASE req[s].target = "COMPLETED"
    <3>1. /\ req[s].op = "cancel" /\ Status(e) = "ONGOING" /\ Booked(e) /\ req[s].amount = 0
      BY <1>0, <1>8, <2>2 DEF CancelsEvent
    <3>2. Written("COMPLETED")
      BY <1>4, <2>2, <3>1 DEF RowStatus, EventStatus, FundedOnce
    <3>3. Booked(e)'
      BY <1>0, <3>1, <3>2 DEF Booked, Written, Unfunded
    <3>4. /\ DOMAIN n = HandlerFields /\ n.op = "cancel" /\ n.event = e
          /\ n.target = "COMPLETED" /\ n.amount = 0 /\ n.pc = "reread"
      BY <1>0, <1>1, <2>2, <3>1, AfterStatusIs
    <3>5. Ev(s)' = e /\ req'[s] = n /\ Status(e)' = "COMPLETED"
      BY <1>2, <3>2, <3>4 DEF Leaves, Ev, Written
    <3>6. CancelsEvent(s)'
      BY <3>3, <3>4, <3>5 DEF CancelsEvent
    <3>7. Informed(s)'
      BY <3>4, <3>5, <3>6 DEF Informed, GoesOn
    <3>8. QED
      BY <1>6, <3>2, <3>4, <3>7
  <2>3. QED
    BY <1>8, <2>1, <2>2 DEF CancelsEvent
<1>9. CASE ReportsEvent(s)
  <2>1. /\ req[s].op = "expense" /\ req[s].target = "ONGOING" /\ Status(e) = "FUNDED" /\ Booked(e)
        /\ req[s].spent \in Nat /\ req[s].amount \in Int /\ (NothingMissing => req[s].amount >= 0)
        /\ req[s].spent + req[s].amount - event[e].budget \in -Tolerance..Tolerance
        /\ event[e].actual = req[s].spent
    BY <1>0, <1>9 DEF ReportsEvent
  <2>2. Written("ONGOING")
    BY <1>4, <2>1 DEF RowStatus, EventStatus, FundedOnce
  <2>3. event[e].budget = paidOut[e] + GrantedAmount(e)
    BY <2>1 DEF Booked, Even
  <2>4. Reported(e, req[s].amount)
    BY <1>3, <2>1, <2>3 DEF Reported, Left
  <2>5. CASE req[s].amount > 0
    <3>1. /\ DOMAIN n = HandlerFields /\ n.op = "expense" /\ n.event = e
          /\ n.target = "ONGOING" /\ n.amount = req[s].amount /\ n.spent = req[s].spent
          /\ n.pc = "refund"
      BY <1>0, <1>1, <2>1, <2>5, AfterStatusIs
    <3>2. Ev(s)' = e /\ req'[s] = n /\ Status(e)' = "ONGOING"
      BY <1>2, <2>2, <3>1 DEF Leaves, Ev, Written
    <3>3. Reported(e, n.amount)'
      BY <2>2, <2>4, <3>1 DEF Written
    <3>4. ReportsEvent(s)'
      BY <2>1, <2>5, <3>1, <3>2, <3>3 DEF ReportsEvent, NothingMissing
    <3>5. Informed(s)'
      BY <3>1, <3>2, <3>4 DEF Informed, GoesOn
    <3>6. QED
      BY <1>6, <2>2, <3>1, <3>5
  <2>6. CASE ~(req[s].amount > 0)
    <3>1. Reported(e, 0)
      BY <1>3, <2>1, <2>4, <2>6 DEF Reported
    <3>2. Booked(e)'
      BY <1>0, <2>2, <3>1 DEF Booked, Written, Unfunded
    <3>3. QED
      BY <1>0, <1>1, <1>5, <2>1, <2>2, <2>6, <3>2, AfterStatusIs
  <2>7. QED
    BY <2>5, <2>6
<1>10. CASE MovesEvent(s)
  <2>1. /\ req[s].op \in {"extend", "settle", "view"} /\ Booked(e)
        /\ req[s].target \in {"ONGOING", "COMPLETED", "SETTLED"}
        /\ Status(e) \in {"ONGOING", "COMPLETED"}
    BY <1>0, <1>10 DEF MovesEvent
  <2>2. Written(req[s].target)
    BY <1>4, <2>1 DEF RowStatus, EventStatus, FundedOnce
  <2>3. Booked(e)'
    BY <1>0, <2>1, <2>2 DEF Booked, Written, Unfunded
  <2>4. QED
    BY <1>0, <1>1, <1>5, <2>1, <2>2, <2>3, AfterStatusIs
<1>11. CASE AsksForMore(s)
  <2>1. /\ req[s].op = "askfund" /\ req[s].target = "UNDER_REVIEW" /\ Status(e) = "FUNDED"
        /\ Even(e) /\ \E f \in FundRequest : PendingFunds(e) = {f}
    BY <1>0, <1>11 DEF AsksForMore
  <2>2. Written("UNDER_REVIEW")
    BY <1>4, <2>1 DEF RowStatus, EventStatus, FundedOnce
  <2>3. Booked(e)'
    BY <1>0, <2>1, <2>2 DEF Booked, Written, Unfunded
  <2>4. QED
    BY <1>0, <1>1, <1>5, <2>1, <2>2, <2>3, AfterStatusIs
<1>12. CASE ReviewsFunds(s)
  <2>1. /\ req[s].op = "review" /\ req[s].target = "FUNDED" /\ Status(e) = "UNDER_REVIEW"
        /\ Even(e) /\ PendingFunds(e) = {}
    BY <1>0, <1>12 DEF ReviewsFunds
  <2>2. Written("FUNDED")
    BY <1>4, <2>1 DEF RowStatus, EventStatus, FundedOnce
  <2>3. Booked(e)'
    BY <1>0, <2>1, <2>2 DEF Booked, Written, Unfunded
  <2>4. QED
    BY <1>0, <1>1, <1>5, <2>1, <2>2, <2>3, AfterStatusIs
<1>13. ~ApprovesEvent(s)
  BY <1>0 DEF ApprovesEvent
<1>14. QED
  BY <1>7, <1>8, <1>9, <1>10, <1>11, <1>12, <1>13 DEF GoesOn, Informed

-----------------------------------------------------------------------------
(* Deciding and paying *)

\* An approval goes on with nothing written.
LEMMA ApprovalGoto ==
    ASSUME NEW s \in Slot, NEW e, GoesOn(s, e), TablesKept, req[s].op = "approve", Booked(e),
           Finish(s) \/ \E pc \in {"fund", "pay"} : Goto(s, pc)
    PROVE  ReviewInv'
<1>0. /\ ApprovesEvent(s) /\ DOMAIN req[s] = HandlerFields /\ req[s].event = e
  BY OpTells DEF GoesOn, Informed, Ev
<1>1. req[s].budget = event[e].budget /\ Status(e) = "SUBMITTED"
  BY <1>0 DEF ApprovesEvent, Ev
<1>2. CASE Finish(s)
  <2>1. Leaves(s, e, Idle)
    BY <1>2, SetLeaves DEF GoesOn, Finish
  <2>2. QED
    BY <2>1, StepReads
<1>3. ASSUME NEW pc \in {"fund", "pay"}, Goto(s, pc) PROVE ReviewInv'
  <2>1. PICK n : n = [req[s] EXCEPT !.pc = pc]
    OBVIOUS
  <2>2. /\ DOMAIN n = HandlerFields /\ n.op = "approve" /\ n.event = e
        /\ n.budget = event[e].budget /\ n.pc = pc
    BY <1>0, <1>1, <2>1 DEF HandlerFields
  <2>3. Leaves(s, e, n)
    <3>1. req' = [req EXCEPT ![s] = n]
      BY <1>3, <2>1 DEF Goto
    <3>2. QED
      BY <3>1, SetLeaves DEF GoesOn
  <2>4. Ev(s)' = e /\ req'[s] = n /\ Status(e)' = "SUBMITTED" /\ Booked(e)' /\ event'[e] = event[e]
    BY <1>1, <2>2, <2>3, TablesSame DEF Leaves, Ev
  <2>5. ApprovesEvent(s)'
    BY <2>2, <2>4 DEF ApprovesEvent
  <2>6. Informed(s)'
    BY <2>2, <2>4, <2>5 DEF Informed, GoesOn
  <2>7. QED
    BY <2>2, <2>3, <2>6, StepReads
<1>4. QED
  BY <1>2, <1>3

LEMMA DecideStep ==
    ASSUME NEW s \in Slot, NEW e, GoesOn(s, e), fund' = fund, Decide(s) \/ CheckFunds(s)
    PROVE  ReviewInv'
<1>0. /\ req[s].op = "approve" /\ req[s].pc \in {"decide", "fund"} /\ Ev(s) = e
      /\ UNCHANGED paidOut
  BY DEF Decide, CheckFunds, At, GoesOn, ledgerVars
<1>1. ApprovesEvent(s)
  BY <1>0, OpTells DEF GoesOn
<1>2. Status(e) = "SUBMITTED" /\ Booked(e)
  BY <1>0, <1>1 DEF ApprovesEvent
<1>3. CASE event' = event /\ trail' = trail /\ (Finish(s) \/ \E pc \in {"fund", "pay"} : Goto(s, pc))
  <2>1. TablesKept
    BY <1>0, <1>3 DEF TablesKept
  <2>2. QED
    BY <1>0, <1>2, <1>3, <2>1, ApprovalGoto
<1>4. CASE SetStatus(e, "SUBMITTED", "REJECTED") /\ Finish(s)
  <2>1. /\ OtherEvents(e) /\ Sound(e)'
        /\ DOMAIN event' = Event /\ DOMAIN paidOut' = Event /\ DOMAIN trail' = Event
        /\ Status(e)' = "REJECTED"
    BY <1>0, <1>2, <1>4, StatusWritten DEF RowStatus, EventStatus, FundedOnce
  <2>2. Booked(e)'
    BY <1>0, <1>2, <2>1 DEF Booked, Unfunded
  <2>3. Leaves(s, e, Idle)
    BY <1>4, SetLeaves DEF GoesOn, Finish
  <2>4. QED
    BY <2>1, <2>2, <2>3, StepWrites
<1>5. CASE /\ event' = event /\ Finish(s)
           /\ trail' = trail \/ trail' = [trail EXCEPT ![e] = [prev |-> "SUBMITTED", new |-> "SUBMITTED"]]
  <2>0. DOMAIN trail = Event /\ DOMAIN event = Event /\ DOMAIN paidOut = Event /\ e \in Event
    BY DEF GoesOn, ReviewInv, TablesInv
  <2>1. /\ OtherEvents(e) /\ DOMAIN event' = Event /\ DOMAIN paidOut' = Event
        /\ DOMAIN trail' = Event
    BY <1>0, <1>5, <2>0 DEF OtherEvents
  <2>2. Sound(e)'
    BY <1>0, <1>5, FundsFixed DEF GoesOn, Sound, Status
  <2>3. Booked(e)'
    BY <1>0, <1>2, <1>5 DEF Booked, Status, Unfunded
  <2>4. Leaves(s, e, Idle)
    BY <1>5, SetLeaves DEF GoesOn, Finish
  <2>5. QED
    BY <2>1, <2>2, <2>3, <2>4, StepWrites
<1>6. CASE CheckFunds(s)
  <2>1. Finish(s) \/ Goto(s, "pay")
    BY <1>6 DEF CheckFunds
  <2>2. QED
    BY <1>3, <1>6, <2>1 DEF CheckFunds, eventVars
<1>7. CASE Decide(s)
  BY <1>0, <1>3, <1>4, <1>5, <1>7 DEF Decide, eventVars
<1>8. QED
  BY <1>6, <1>7

LEMMA PayStep ==
    ASSUME NEW s \in Slot, NEW e, GoesOn(s, e), fund' = fund, Disburse(s)
    PROVE  ReviewInv'
<1>0. /\ req[s].op = "approve" /\ req[s].pc = "pay" /\ req[s].event = e /\ UNCHANGED <<event, trail>>
      /\ paidOut' = [paidOut EXCEPT ![e] = @ + req[s].budget] /\ Goto(s, "commit")
      /\ DOMAIN req[s] = HandlerFields
  BY DEF Disburse, At, GoesOn, DebitForEvent, eventVars, Ev, Informed
<1>1. Status(e) = "SUBMITTED" /\ Booked(e) /\ req[s].budget = event[e].budget
  BY <1>0, OpTells DEF ApprovesEvent, GoesOn
<1>2. DOMAIN trail = Event /\ DOMAIN event = Event /\ DOMAIN paidOut = Event /\ e \in Event
  BY DEF GoesOn, ReviewInv, TablesInv
<1>3. paidOut[e] = 0 /\ event[e].budget \in Nat
  BY <1>1 DEF Booked, Unfunded, GoesOn, Sound
<1>4. /\ OtherEvents(e) /\ DOMAIN event' = Event /\ DOMAIN paidOut' = Event /\ DOMAIN trail' = Event
      /\ event'[e] = event[e] /\ paidOut'[e] = event[e].budget /\ Status(e)' = "SUBMITTED"
  BY <1>0, <1>1, <1>2, <1>3 DEF OtherEvents, Status
<1>5. Sound(e)'
  BY <1>3, <1>4, FundsFixed DEF GoesOn, Sound, Status
<1>6. PICK n : n = [req[s] EXCEPT !.pc = "commit"]
  OBVIOUS
<1>7. /\ DOMAIN n = HandlerFields /\ n.op = "approve" /\ n.event = e
      /\ n.budget = event[e].budget /\ n.pc = "commit"
  BY <1>0, <1>1, <1>6 DEF HandlerFields
<1>8. Leaves(s, e, n)
  <2>1. req' = [req EXCEPT ![s] = n]
    BY <1>0, <1>6 DEF Goto
  <2>2. QED
    BY <2>1, SetLeaves DEF GoesOn
<1>9. Ev(s)' = e /\ req'[s] = n
  BY <1>7, <1>8 DEF Leaves, Ev
<1>10. ApprovesEvent(s)'
  BY <1>4, <1>7, <1>9 DEF ApprovesEvent
<1>11. Informed(s)'
  BY <1>2, <1>7, <1>9, <1>10 DEF Informed
<1>12. QED
  BY <1>4, <1>5, <1>7, <1>8, <1>11, StepWrites

LEMMA CommitFundedStep ==
    ASSUME NEW s \in Slot, NEW e, GoesOn(s, e), fund' = fund, CommitFunded(s)
    PROVE  ReviewInv'
<1>0. /\ req[s].op = "approve" /\ req[s].pc = "commit" /\ Ev(s) = e /\ UNCHANGED paidOut
      /\ SetStatus(e, "SUBMITTED", "FUNDED") /\ Finish(s)
  BY DEF CommitFunded, At, GoesOn, ledgerVars
<1>1. Status(e) = "SUBMITTED" /\ paidOut[e] = event[e].budget
  BY <1>0, OpTells DEF ApprovesEvent, GoesOn
<1>2. /\ OtherEvents(e) /\ Sound(e)'
      /\ DOMAIN event' = Event /\ DOMAIN paidOut' = Event /\ DOMAIN trail' = Event
      /\ Status(e)' = "FUNDED" /\ PendingFunds(e)' = PendingFunds(e)
      /\ Even(e)' <=> Even(e)
  BY <1>0, <1>1, StatusWritten DEF RowStatus, EventStatus, FundedOnce
<1>3. PendingFunds(e) = {} /\ Granted(e) = {}
  BY <1>1 DEF GoesOn, Sound, FundedOnce, FundsOf, PendingFunds, Granted
<1>4. GrantedAmount(e) = 0
  BY <1>3, GrantedNat, SumEmpty DEF GoesOn
<1>5. Even(e)
  BY <1>1, <1>4 DEF Even, GoesOn, Sound
<1>6. Booked(e)'
  BY <1>2, <1>3, <1>5 DEF Booked, Unfunded
<1>7. Leaves(s, e, Idle)
  BY <1>0, SetLeaves DEF GoesOn, Finish
<1>8. QED
  BY <1>2, <1>6, <1>7, StepWrites

-----------------------------------------------------------------------------
(* Cancelling, reporting, extending *)

LEMMA RereadStep ==
    ASSUME NEW s \in Slot, NEW e, GoesOn(s, e), fund' = fund, Reread(s)
    PROVE  ReviewInv'
<1>0. /\ TablesKept /\ req[s].op = "cancel" /\ req[s].pc = "reread" /\ Ev(s) = e
  BY DEF Reread, At, eventVars, ledgerVars, TablesKept, GoesOn
<1>1. Status(e) = "COMPLETED" /\ Booked(e)
  BY <1>0, OpTells DEF CancelsEvent, GoesOn
<1>2. Status(e) \notin Cancelable
  BY <1>1 DEF Cancelable
<1>3. req' = [req EXCEPT ![s] = Idle]
  BY <1>0, <1>2 DEF Reread
<1>4. Leaves(s, e, Idle)
  BY <1>3, SetLeaves DEF GoesOn
<1>5. QED
  BY <1>0, <1>1, <1>4, StepReads

LEMMA RefundStep ==
    ASSUME NEW s \in Slot, NEW e, GoesOn(s, e), fund' = fund, Refund(s)
    PROVE  ReviewInv'
<1>0. /\ req[s].pc = "refund" /\ req[s].event = e /\ Ev(s) = e /\ UNCHANGED <<event, trail>>
      /\ paidOut' = [paidOut EXCEPT ![e] = @ - req[s].amount]
      /\ IF req[s].op = "cancel" THEN Goto(s, "mark") ELSE Finish(s)
      /\ DOMAIN req[s] = HandlerFields
  BY DEF Refund, GoesOn, CreditForEvent, eventVars, Ev, Informed
<1>2. /\ DOMAIN trail = Event /\ DOMAIN event = Event /\ DOMAIN paidOut = Event /\ e \in Event
      /\ paidOut[e] \in Int /\ event[e].budget \in Nat /\ event[e].actual \in Nat
      /\ GrantedAmount(e) \in Nat /\ Tolerance \in Nat
  BY GrantedNat, LifecycleAssumption DEF GoesOn, ReviewInv, TablesInv, Sound
<1>3. ASSUME req[s].amount \in Int
      PROVE  /\ OtherEvents(e) /\ DOMAIN event' = Event /\ DOMAIN paidOut' = Event
             /\ DOMAIN trail' = Event /\ event'[e] = event[e] /\ Status(e)' = Status(e)
             /\ paidOut'[e] = paidOut[e] - req[s].amount /\ paidOut'[e] \in Int
  BY <1>0, <1>2, <1>3 DEF OtherEvents, Status
<1>4. ASSUME req[s].amount \in Int PROVE Sound(e)'
  BY <1>3, <1>4, FundsFixed DEF GoesOn, Sound, Status
<1>5. CASE CancelsEvent(s)
  <2>1. /\ req[s].op = "cancel" /\ req[s].target = "CANCELLED" /\ Status(e) \in {"FUNDED", "ONGOING"}
        /\ Booked(e) /\ req[s].amount = event[e].budget
    BY <1>0, <1>5 DEF CancelsEvent
  <2>2. Left(e) \in Int /\ IF Status(e) = "FUNDED" THEN Left(e) = event[e].budget
                            ELSE Left(e) <= event[e].budget
    BY <1>2, <2>1 DEF Booked, Even, Reported, Left
  <2>3. Left(e)' = Left(e) - event[e].budget
    BY <1>2, <1>3, <2>1, FundsFixed DEF Left
  <2>4. PICK n : n = [req[s] EXCEPT !.pc = "mark"]
    OBVIOUS
  <2>5. /\ DOMAIN n = HandlerFields /\ n.op = "cancel" /\ n.event = e /\ n.target = "CANCELLED"
        /\ n.amount = event[e].budget /\ n.pc = "mark"
    BY <1>0, <2>1, <2>4 DEF HandlerFields
  <2>6. Leaves(s, e, n)
    <3>1. req' = [req EXCEPT ![s] = n]
      BY <1>0, <2>1, <2>4 DEF Goto
    <3>2. QED
      BY <3>1, SetLeaves DEF GoesOn
  <2>7. Ev(s)' = e /\ req'[s] = n
    BY <2>5, <2>6 DEF Leaves, Ev
  <2>8. CancelsEvent(s)'
    <3>1. IF Status(e) = "FUNDED" THEN Owed(e, 0)' ELSE Status(e) = "ONGOING" /\ Left(e)' <= 0
      BY <1>2, <2>1, <2>2, <2>3 DEF Owed
    <3>2. QED
      BY <1>2, <1>3, <2>1, <2>5, <2>7, <3>1 DEF CancelsEvent
  <2>9. Informed(s)'
    BY <1>2, <2>5, <2>7, <2>8 DEF Informed
  <2>10. QED
    BY <1>2, <1>3, <1>4, <2>1, <2>5, <2>6, <2>9, StepWrites
<1>6. CASE ReportsEvent(s)
  <2>1. /\ req[s].op = "expense" /\ Status(e) = "ONGOING" /\ Reported(e, req[s].amount)
        /\ req[s].amount \in Int /\ req[s].amount > 0
    BY <1>0, <1>6 DEF ReportsEvent
  <2>2. GrantedAmount(e)' = GrantedAmount(e)
    BY FundsFixed
  <2>4. Reported(e, 0)'
    BY <1>2, <1>3, <2>1, <2>2 DEF Reported, Left
  <2>5. Booked(e)'
    BY <1>3, <2>1, <2>4 DEF Booked, Unfunded
  <2>6. Leaves(s, e, Idle)
    BY <1>0, <2>1, SetLeaves DEF GoesOn, Finish
  <2>7. QED
    BY <1>3, <1>4, <2>1, <2>5, <2>6, StepWrites
<1>7. QED
  BY <1>0, <1>5, <1>6
     DEF GoesOn, Informed, EditsEvent, ApprovesEvent, MovesEvent, AsksForMore, ReviewsFunds

LEMMA ReportStep ==
    ASSUME NEW s \in Slot, NEW e, GoesOn(s, e), fund' = fund, InsertExpense(s) \/ WriteActual(s)
    PROVE  ReviewInv'
<1>0. /\ req[s].op = "expense" /\ req[s].pc \in {"expense", "actual"} /\ UNCHANGED <<paidOut, trail>>
      /\ Ev(s) = e /\ req[s].event = e /\ DOMAIN req[s] = HandlerFields
  BY DEF InsertExpense, WriteActual, At, GoesOn, Informed, Ev, ledgerVars
<1>1. /\ req[s].target = "ONGOING" /\ req[s].spent \in Nat /\ req[s].amount \in Int
      /\ (NothingMissing => req[s].amount >= 0) /\ Status(e) = "FUNDED" /\ Booked(e)
      /\ req[s].spent + req[s].amount - event[e].budget \in -Tolerance..Tolerance
  BY <1>0, OpTells DEF GoesOn, ReportsEvent
<1>2. /\ DOMAIN trail = Event /\ DOMAIN event = Event /\ DOMAIN paidOut = Event /\ e \in Event
      /\ DOMAIN event[e] = EventFields
  BY DEF GoesOn, ReviewInv, TablesInv, Sound
\* With the items inserted, or with budgetActual written too.
<1>3. ASSUME NEW n, Leaves(s, e, n), DOMAIN n = HandlerFields, n.op = "expense", n.event = e,
             n.target = "ONGOING", n.spent = req[s].spent, n.amount = req[s].amount,
             Status(e)' = Status(e), Booked(e)', event'[e].budget = event[e].budget,
             \/ n.pc \in {"expense", "actual"}
             \/ n.pc = "mark" /\ event'[e].actual = req[s].spent
      PROVE  Informed(s)'
  <2>1. Ev(s)' = e /\ req'[s] = n
    BY <1>3 DEF Leaves, Ev
  <2>2. ReportsEvent(s)'
    BY <1>1, <1>3, <2>1 DEF ReportsEvent, NothingMissing
  <2>3. QED
    BY <1>2, <1>3, <2>1, <2>2 DEF Informed
<1>4. CASE InsertExpense(s)
  <2>1. PICK a, pc : /\ pc \in {"expense", "actual"}
                     /\ req' = [req EXCEPT ![s].left = @ - a, ![s].pc = pc]
    BY <1>4 DEF InsertExpense
  <2>2. PICK n : n = [req[s] EXCEPT !.left = @ - a, !.pc = pc]
    OBVIOUS
  <2>3. /\ DOMAIN n = HandlerFields /\ n.op = "expense" /\ n.event = e /\ n.target = "ONGOING"
        /\ n.spent = req[s].spent /\ n.amount = req[s].amount /\ n.pc = pc
    BY <1>0, <1>1, <2>2 DEF HandlerFields
  <2>4. Leaves(s, e, n)
    <3>1. req' = [req EXCEPT ![s] = n]
      BY <2>1, <2>2
    <3>2. QED
      BY <3>1, SetLeaves DEF GoesOn
  <2>5. TablesKept
    BY <1>0, <1>4 DEF TablesKept, InsertExpense
  <2>6. Status(e)' = Status(e) /\ Booked(e)' /\ event'[e] = event[e]
    BY <1>1, <2>5, TablesSame
  <2>7. Informed(s)'
    BY <1>3, <2>1, <2>3, <2>4, <2>6
  <2>8. QED
    BY <2>3, <2>4, <2>5, <2>7, StepReads
<1>5. CASE WriteActual(s)
  <2>1. event' = [event EXCEPT ![e].actual = req[s].spent] /\ Goto(s, "mark")
    BY <1>0, <1>5 DEF WriteActual
  <2>2. /\ OtherEvents(e) /\ DOMAIN event' = Event /\ DOMAIN paidOut' = Event
        /\ DOMAIN trail' = Event
        /\ DOMAIN event'[e] = EventFields /\ event'[e].budget = event[e].budget
        /\ event'[e].status = event[e].status /\ event'[e].actual = req[s].spent
        /\ event'[e].creator = event[e].creator /\ Status(e)' = Status(e)
    BY <1>0, <1>2, <2>1 DEF OtherEvents, EventFields, Status
  <2>3. /\ PendingFunds(e)' = PendingFunds(e) /\ GrantedAmount(e)' = GrantedAmount(e)
        /\ FundsOf(e)' = FundsOf(e)
    BY FundsFixed
  <2>4. Sound(e)'
    BY <1>0, <1>1, <2>2, <2>3 DEF Sound, GoesOn, Status
  <2>5. Booked(e)'
    BY <1>0, <1>1, <2>2, <2>3 DEF Booked, Even, Unfunded
  <2>6. PICK n : n = [req[s] EXCEPT !.pc = "mark"]
    OBVIOUS
  <2>7. /\ DOMAIN n = HandlerFields /\ n.op = "expense" /\ n.event = e /\ n.target = "ONGOING"
        /\ n.spent = req[s].spent /\ n.amount = req[s].amount /\ n.pc = "mark"
    BY <1>0, <1>1, <2>6 DEF HandlerFields
  <2>8. Leaves(s, e, n)
    <3>1. req' = [req EXCEPT ![s] = n]
      BY <2>1, <2>6 DEF Goto
    <3>2. QED
      BY <3>1, SetLeaves DEF GoesOn
  <2>9. Informed(s)'
    BY <1>3, <2>2, <2>5, <2>7, <2>8
  <2>10. QED
    BY <2>2, <2>4, <2>7, <2>8, <2>9, StepWrites
<1>6. QED
  BY <1>4, <1>5

LEMMA ExtendStep ==
    ASSUME NEW s \in Slot, NEW e, GoesOn(s, e), fund' = fund, NEW late \in BOOLEAN,
           WriteExtend(s, late)
    PROVE  ReviewInv'
<1>0. /\ req[s].op = "extend" /\ req[s].pc = "write" /\ UNCHANGED <<paidOut, trail>>
      /\ Ev(s) = e /\ req[s].event = e /\ DOMAIN req[s] = HandlerFields
      /\ event' = [event EXCEPT ![e].ended = late] /\ Goto(s, "mark")
  BY DEF WriteExtend, At, GoesOn, Informed, Ev, ledgerVars
<1>1. Booked(e) /\ Status(e) = "ONGOING" /\ req[s].target = "ONGOING"
  BY <1>0, OpTells DEF GoesOn, MovesEvent
<1>2. /\ DOMAIN trail = Event /\ DOMAIN event = Event /\ DOMAIN paidOut = Event /\ e \in Event
      /\ DOMAIN event[e] = EventFields
  BY DEF GoesOn, ReviewInv, TablesInv, Sound
<1>3. /\ OtherEvents(e) /\ DOMAIN event' = Event /\ DOMAIN paidOut' = Event
      /\ DOMAIN trail' = Event
      /\ DOMAIN event'[e] = EventFields /\ event'[e].budget = event[e].budget
      /\ event'[e].status = event[e].status /\ event'[e].actual = event[e].actual
      /\ event'[e].creator = event[e].creator /\ Status(e)' = Status(e)
  BY <1>0, <1>2 DEF OtherEvents, EventFields, Status
<1>4. FundsOf(e)' = FundsOf(e) /\ GrantedAmount(e)' = GrantedAmount(e)
  BY FundsFixed
<1>5. Sound(e)'
  BY <1>0, <1>3, <1>4 DEF Sound, GoesOn, Status
<1>6. Booked(e)'
  BY <1>0, <1>1, <1>3, <1>4 DEF Booked, Reported, Left, Unfunded
<1>7. PICK n : n = [req[s] EXCEPT !.pc = "mark"]
  OBVIOUS
<1>8. /\ DOMAIN n = HandlerFields /\ n.op = "extend" /\ n.event = e /\ n.target = "ONGOING"
      /\ n.pc = "mark"
  BY <1>0, <1>1, <1>7 DEF HandlerFields
<1>9. Leaves(s, e, n)
  <2>1. req' = [req EXCEPT ![s] = n]
    BY <1>0, <1>7 DEF Goto
  <2>2. QED
    BY <2>1, SetLeaves DEF GoesOn
<1>10. Ev(s)' = e /\ req'[s] = n
  BY <1>8, <1>9 DEF Leaves, Ev
<1>11. MovesEvent(s)'
  BY <1>1, <1>3, <1>6, <1>8, <1>10 DEF MovesEvent
<1>12. Informed(s)'
  BY <1>2, <1>8, <1>10, <1>11 DEF Informed
<1>13. QED
  BY <1>3, <1>5, <1>8, <1>9, <1>12, StepWrites

LEMMA ContinueKeeps ==
    ASSUME NEW s \in Slot, NEW e, GoesOn(s, e), fund' = fund, Continue(s)
    PROVE  ReviewInv'
<1>1. ~FailOnDeleted(s) /\ ~Deadlock(s) /\ ~TimesOut(s)
  BY NotDeleted, NobodyBlocks DEF GoesOn
<1>2. \/ \E late \in BOOLEAN : WriteUpdate(s, late) \/ WriteExtend(s, late)
      \/ LockEvent(s) \/ WriteDelete(s)
      \/ ReadWorkflow(s) \/ ClearApprovals(s) \/ InsertApproval(s)
      \/ ReadForHistory(s) \/ WriteStatus(s)
      \/ Decide(s) \/ CheckFunds(s) \/ Disburse(s) \/ CommitFunded(s)
      \/ Reread(s) \/ Refund(s)
      \/ InsertExpense(s) \/ WriteActual(s)
  BY <1>1, Zenon DEF Continue
<1>3. QED
  BY <1>2, EditStep, ExtendStep, SubmitStep, HistoryStep, StatusStep, DecideStep, PayStep,
     CommitFundedStep, RereadStep, RefundStep, ReportStep

-----------------------------------------------------------------------------
(* Asking for more, and the answer *)

LEMMA GotoLeaves ==
    ASSUME NEW s \in Slot, NEW e, GoesOn(s, e), NEW pc, Goto(s, pc)
    PROVE  \E n : /\ Leaves(s, e, n) /\ DOMAIN n = HandlerFields
                  /\ n.op = req[s].op /\ n.event = e /\ n.target = req[s].target
                  /\ n.amount = req[s].amount /\ n.budget = req[s].budget /\ n.pc = pc
<1>1. PICK n : n = [req[s] EXCEPT !.pc = pc]
  OBVIOUS
<1>2. DOMAIN req[s] = HandlerFields /\ req[s].event = e
  BY DEF GoesOn, Informed, Ev
<1>3. /\ DOMAIN n = HandlerFields /\ n.op = req[s].op /\ n.event = e
      /\ n.target = req[s].target /\ n.amount = req[s].amount /\ n.budget = req[s].budget
      /\ n.pc = pc
  BY <1>1, <1>2 DEF HandlerFields
<1>4. req' = [req EXCEPT ![s] = n]
  BY <1>1 DEF Goto
<1>5. Leaves(s, e, n)
  BY <1>4, SetLeaves DEF GoesOn
<1>6. QED
  BY <1>3, <1>5

LEMMA FinishLeaves ==
    ASSUME NEW s \in Slot, NEW e, GoesOn(s, e), Finish(s)
    PROVE  Leaves(s, e, Idle)
  BY SetLeaves DEF GoesOn, Finish

LEMMA AskKnows ==
    ASSUME NEW s \in Slot, NEW e \in Event, NEW n, req'[s] = n, DOMAIN n = HandlerFields,
           n.op = "askfund", n.event = e, n.target = "UNDER_REVIEW", n.amount \in Nat,
           Status(e)' = "FUNDED", ParentOf[GroupOfEvent(e)]' # NoGroup,
           \/ n.pc = "createFund" /\ Booked(e)'
           \/ n.pc = "mark" /\ Even(e)' /\ \E f \in FundRequest : PendingFunds(e)' = {f}
    PROVE  Informed(s)'
<1>1. Ev(s)' = e
  BY DEF Ev
<1>2. AsksForMore(s)'
  BY <1>1 DEF AsksForMore
<1>3. QED
  BY <1>1, <1>2 DEF Informed

LEMMA ReviewKnows ==
    ASSUME NEW s \in Slot, NEW e \in Event, NEW n, req'[s] = n, DOMAIN n = HandlerFields,
           n.op = "review", n.event = e, n.target = "FUNDED", n.amount \in Nat,
           Status(e)' = "UNDER_REVIEW",
           \/ /\ n.pc \in {"checkTransfer", "transfer", "markApproved", "refuse"}
              /\ n.budget = event'[e].budget /\ Even(e)' /\ PendingFunds(e)' = {fundOf'[s]}
           \/ /\ n.pc = "raise" /\ n.budget = event'[e].budget /\ PendingFunds(e)' = {}
              /\ event'[e].budget + n.amount = paidOut'[e] + GrantedAmount(e)'
           \/ n.pc = "mark" /\ Even(e)' /\ PendingFunds(e)' = {}
    PROVE  Informed(s)'
<1>1. Ev(s)' = e
  BY DEF Ev
<1>2. ReviewsFunds(s)'
  BY <1>1 DEF ReviewsFunds
<1>3. QED
  BY <1>1, <1>2 DEF Informed

\* What the review's handler knows, at each of its own awaits.
LEMMA Reviews ==
    ASSUME NEW s \in Slot, NEW e, GoesOn(s, e), req[s].op = "review"
    PROVE  /\ req[s].target = "FUNDED" /\ Status(e) = "UNDER_REVIEW" /\ req[s].amount \in Nat
           /\ e \in Event /\ Ev(s) = e /\ req[s].event = e /\ DOMAIN req[s] = HandlerFields
           /\ req[s].pc = "findFund" => Booked(e) /\ req[s].budget = event[e].budget
           /\ req[s].pc \in {"checkTransfer", "transfer", "markApproved", "refuse"} =>
                /\ Even(e) /\ PendingFunds(e) = {fundOf[s]} /\ req[s].budget = event[e].budget
                /\ fundOf[s] \in FundRequest /\ fund[fundOf[s]].status = "PENDING"
                /\ fund[fundOf[s]].event = e
           /\ req[s].pc = "raise" =>
                /\ PendingFunds(e) = {} /\ req[s].budget = event[e].budget
                /\ event[e].budget + req[s].amount = paidOut[e] + GrantedAmount(e)
<1>1. ReviewsFunds(s)
  BY OpTells DEF GoesOn
<1>2. Ev(s) = e /\ e \in Event /\ req[s].event = e /\ DOMAIN req[s] = HandlerFields
  BY DEF GoesOn, Informed, Ev
<1>3. PendingFunds(e) = {fundOf[s]} =>
        /\ fundOf[s] \in FundRequest /\ fund[fundOf[s]].status = "PENDING"
        /\ fund[fundOf[s]].event = e
  BY DEF PendingFunds
<1>4. QED
  BY <1>1, <1>2, <1>3 DEF ReviewsFunds

LEMMA CheckPendingStep ==
    ASSUME NEW s \in Slot, NEW e, GoesOn(s, e), CheckPending(s)
    PROVE  ReviewInv'
<1>0. /\ TablesKept /\ req[s].op = "askfund" /\ req[s].pc = "checkPending" /\ Ev(s) = e
      /\ IF PendingFunds(e) # {} THEN Finish(s) ELSE Goto(s, "createFund")
  BY DEF CheckPending, At, eventVars, ledgerVars, fundVars, TablesKept, GoesOn
<1>1. /\ AsksForMore(s) /\ Booked(e) /\ Status(e) = "FUNDED" /\ req[s].amount \in Nat
      /\ req[s].target = "UNDER_REVIEW" /\ ParentOf[GroupOfEvent(e)] # NoGroup /\ e \in Event
  BY <1>0, OpTells DEF AsksForMore, GoesOn
<1>2. PendingFunds(e) = {}
  BY <1>1 DEF Booked
<1>3. PICK n : /\ Leaves(s, e, n) /\ DOMAIN n = HandlerFields
               /\ n.op = req[s].op /\ n.event = e /\ n.target = req[s].target
               /\ n.amount = req[s].amount /\ n.pc = "createFund"
  BY <1>0, <1>2, GotoLeaves
<1>4. /\ Status(e)' = Status(e) /\ Booked(e)' /\ GroupOfEvent(e)' = GroupOfEvent(e)
  BY <1>0, <1>1, TablesSame
<1>5. Informed(s)'
  BY <1>0, <1>1, <1>3, <1>4, AskKnows DEF Leaves
<1>6. QED
  BY <1>0, <1>3, <1>5, StepReads

LEMMA GrantedKept ==
    ASSUME FundsTyped, NEW e, Granted(e)' = Granted(e),
           \A f \in Granted(e) : fund'[f].approved = fund[f].approved
    PROVE  GrantedAmount(e)' = GrantedAmount(e)
<1>3. GrantedAmount(e)' = Sum([f \in FundRequest |-> fund'[f].approved], Granted(e))
  BY DEF GrantedAmount, Sum
<1>4. Sum([f \in FundRequest |-> fund'[f].approved], Granted(e)) = Sum(ApprovedOf, Granted(e))
  <2>1. IsFiniteSet(Granted(e))
    BY SubFinite DEF Granted
  <2>2. \A f \in Granted(e) : ApprovedOf[f] \in Int
                              /\ [g \in FundRequest |-> fund'[g].approved][f] = ApprovedOf[f]
    BY DEF FundsTyped, FundRow, Granted, ApprovedOf
  <2>3. QED
    BY <2>1, <2>2, SumSame
<1>5. QED
  BY <1>3, <1>4, GrantedNat

\* A step of s on its event and on the fund requests of its event.
LEMMA StepFunds ==
    ASSUME NEW s \in Slot, NEW e, GoesOn(s, e), OtherEvents(e), OtherFunds(e), FundRowsInv',
           DOMAIN event' = Event, DOMAIN paidOut' = Event, DOMAIN trail' = Event,
           Sound(e)', NEW n, Leaves(s, e, n), Informed(s)', n.event = e
    PROVE  ReviewInv'
<1>1. Ev(s)' = n.event
  BY DEF Leaves, Ev
<1>2. DomainsKept
  BY DEF GoesOn, DomainsKept, Leaves, FundOfKept
<1>3. QED
  BY <1>1, <1>2, OwnStep DEF GoesOn, Leaves

\* The request of s changes, none other, and no event or payment.
LEMMA RequestWritten ==
    ASSUME NEW s \in Slot, NEW e, GoesOn(s, e), NEW f \in FundRequest, NEW row \in FundRow,
           fund' = [fund EXCEPT ![f] = row], UNCHANGED <<event, paidOut, trail>>,
           fund[f].event \in {e, NoEvent}, row.event = e, row.status # "ABSENT",
           ParentOf[row.from] # NoGroup, Status(e) \in {"FUNDED", "UNDER_REVIEW"}
    PROVE  /\ OtherEvents(e) /\ OtherFunds(e) /\ FundRowsInv' /\ FundsTyped'
           /\ DOMAIN event' = Event /\ DOMAIN paidOut' = Event /\ DOMAIN trail' = Event
           /\ Sound(e)' /\ Status(e)' = Status(e) /\ GroupOfEvent(e)' = GroupOfEvent(e)
           /\ fund'[f] = row /\ \A g \in FundRequest : g # f => fund'[g] = fund[g]
<1>1. /\ DOMAIN trail = Event /\ DOMAIN event = Event /\ DOMAIN paidOut = Event /\ Sound(e)
      /\ fund \in [FundRequest -> FundRow] /\ FundRowsInv
  BY DEF GoesOn, ReviewInv, TablesInv, FundRowsInv, FundsTyped
<1>2. fund'[f] = row /\ \A g \in FundRequest : g # f => fund'[g] = fund[g]
  BY <1>1
<1>3. FundsTyped'
  BY <1>1 DEF FundsTyped
<1>4. FundRowsInv'
  BY <1>1, <1>2, <1>3 DEF FundRowsInv
<1>5. OtherEvents(e) /\ OtherFunds(e)
  BY <1>2 DEF OtherEvents, OtherFunds
<1>6. Status(e)' = Status(e) /\ GroupOfEvent(e)' = GroupOfEvent(e)
  BY DEF Status, GroupOfEvent
<1>7. Sound(e)'
  BY <1>1, <1>6 DEF Sound, FundedOnce
<1>8. QED
  BY <1>1, <1>2, <1>3, <1>4, <1>5, <1>6, <1>7

LEMMA CreateFundStep ==
    ASSUME NEW s \in Slot, NEW e, GoesOn(s, e), CreateFund(s)
    PROVE  ReviewInv'
<1>0. /\ req[s].op = "askfund" /\ req[s].pc = "createFund" /\ Ev(s) = e
      /\ UNCHANGED <<event, paidOut, trail>> /\ Goto(s, "mark")
  BY DEF CreateFund, At, eventVars, ledgerVars, GoesOn
<1>1. PICK f \in Unused : NewFund(f, GroupOfEvent(e), e, req[s].amount)
  BY <1>0 DEF CreateFund
<1>2. /\ Booked(e) /\ Status(e) = "FUNDED" /\ req[s].amount \in Nat
      /\ req[s].target = "UNDER_REVIEW" /\ ParentOf[GroupOfEvent(e)] # NoGroup /\ e \in Event
  BY <1>0, OpTells DEF AsksForMore, GoesOn
<1>3. PICK row : row = [status |-> "PENDING", event |-> e, from |-> GroupOfEvent(e),
                        amount |-> req[s].amount, approved |-> 0]
  OBVIOUS
<1>4. GroupOfEvent(e) \in Group
  BY <1>2, OrganizationAssumption DEF GoesOn, Sound, GroupOfEvent
<1>5. row \in FundRow /\ row.event = e /\ row.status = "PENDING" /\ row.from = GroupOfEvent(e)
  BY <1>2, <1>3, <1>4 DEF FundRow
<1>6. /\ f \in FundRequest /\ fund[f].status = "ABSENT" /\ fund[f].event = NoEvent
      /\ fund' = [fund EXCEPT ![f] = row]
  BY <1>1, <1>3 DEF Unused, NewFund, GoesOn, ReviewInv, TablesInv
<1>7. /\ OtherEvents(e) /\ OtherFunds(e) /\ FundRowsInv' /\ FundsTyped'
      /\ DOMAIN event' = Event /\ DOMAIN paidOut' = Event /\ DOMAIN trail' = Event
      /\ Sound(e)' /\ Status(e)' = Status(e) /\ GroupOfEvent(e)' = GroupOfEvent(e)
      /\ fund'[f] = row /\ \A g \in FundRequest : g # f => fund'[g] = fund[g]
  BY <1>0, <1>2, <1>5, <1>6, RequestWritten
<1>8. PendingFunds(e) = {} /\ Even(e)
  BY <1>2 DEF Booked
<1>9. PendingFunds(e)' = {f}
  BY <1>5, <1>6, <1>7, <1>8 DEF PendingFunds
<1>10. Granted(e)' = Granted(e) /\ f \notin Granted(e)
  BY <1>5, <1>6, <1>7 DEF Granted
<1>11. GrantedAmount(e)' = GrantedAmount(e)
  <2>1. \A g \in Granted(e) : fund'[g].approved = fund[g].approved
    BY <1>7, <1>10 DEF Granted
  <2>2. FundsTyped
    BY DEF GoesOn
  <2>3. QED
    BY <1>10, <2>1, <2>2, GrantedKept
<1>12. Even(e)'
  BY <1>0, <1>8, <1>11 DEF Even
<1>13. PICK n : /\ Leaves(s, e, n) /\ DOMAIN n = HandlerFields
                /\ n.op = req[s].op /\ n.event = e /\ n.target = req[s].target
                /\ n.amount = req[s].amount /\ n.pc = "mark"
  BY <1>0, GotoLeaves
<1>14. Informed(s)'
  BY <1>0, <1>2, <1>6, <1>7, <1>9, <1>12, <1>13, AskKnows DEF Leaves
<1>15. QED
  BY <1>7, <1>13, <1>14, StepFunds

LEMMA FundFound ==
    ASSUME NEW s \in Slot, NEW e, GoesOn(s, e), TablesKept,
           req[s].op = "review", req[s].pc = "findFund", NEW f \in PendingFunds(e),
           NEW pc \in {"checkTransfer", "refuse"}, NEW a \in Nat,
           NEW n, n = [req[s] EXCEPT !.pc = pc, !.amount = a],
           req' = [req EXCEPT ![s] = n], fundOf' = [fundOf EXCEPT ![s] = f]
    PROVE  ReviewInv'
<1>1. /\ req[s].target = "FUNDED" /\ Status(e) = "UNDER_REVIEW"
      /\ e \in Event /\ Ev(s) = e /\ req[s].event = e /\ DOMAIN req[s] = HandlerFields
      /\ Booked(e) /\ req[s].budget = event[e].budget
  BY Reviews
<1>2. Even(e) /\ PendingFunds(e) = {f}
  BY <1>1 DEF Booked
<1>3. /\ DOMAIN n = HandlerFields /\ n.op = "review" /\ n.event = e /\ n.target = "FUNDED"
      /\ n.amount = a /\ n.budget = event[e].budget /\ n.pc = pc
  BY <1>1 DEF HandlerFields
<1>4. Leaves(s, e, n)
  BY <1>1, SetLeaves DEF GoesOn
<1>5. fundOf'[s] = f
  BY DEF GoesOn, ReviewInv, TablesInv
<1>6. /\ Status(e)' = Status(e) /\ Even(e)' /\ PendingFunds(e)' = {f}
      /\ event'[e] = event[e]
  BY <1>1, <1>2, TablesSame
<1>7. /\ e \in Event /\ req'[s] = n /\ Status(e)' = "UNDER_REVIEW" /\ n.amount \in Nat
      /\ n.pc \in {"checkTransfer", "transfer", "markApproved", "refuse"}
      /\ n.budget = event'[e].budget /\ Even(e)' /\ PendingFunds(e)' = {fundOf'[s]}
  BY <1>1, <1>3, <1>4, <1>5, <1>6 DEF Leaves
<1>8. Informed(s)'
  BY <1>3, <1>7, ReviewKnows
<1>9. QED
  BY <1>3, <1>4, <1>8, StepReads

LEMMA FindFundStep ==
    ASSUME NEW s \in Slot, NEW e, GoesOn(s, e), FindFund(s)
    PROVE  ReviewInv'
<1>0. TablesKept /\ req[s].op = "review" /\ req[s].pc = "findFund" /\ Ev(s) = e
  BY DEF FindFund, At, eventVars, ledgerVars, TablesKept, GoesOn
<1>1. Status(e) = "UNDER_REVIEW" /\ req[s].amount \in Nat /\ Booked(e)
  BY <1>0, Reviews
<1>2. PICK p \in FundRequest : PendingFunds(e) = {p}
  BY <1>1 DEF Booked
<1>3. CASE Finish(s)
  BY <1>0, <1>1, <1>3, FinishLeaves, StepReads
<1>4. ASSUME NEW f \in PendingFunds(e),
             StartFund(s, [req[s] EXCEPT
                    !.pc = IF req[s].verdict = "APPROVED" THEN "checkTransfer" ELSE "refuse",
                    !.amount = IF @ = 0 THEN fund[f].amount ELSE @], f)
      PROVE  ReviewInv'
  <2>1. PICK pc : pc = IF req[s].verdict = "APPROVED" THEN "checkTransfer" ELSE "refuse"
    OBVIOUS
  <2>2. PICK a : a = IF req[s].amount = 0 THEN fund[f].amount ELSE req[s].amount
    OBVIOUS
  <2>3. PICK n : n = [req[s] EXCEPT !.pc = pc, !.amount = a]
    OBVIOUS
  <2>4. pc \in {"checkTransfer", "refuse"}
    BY <2>1
  <2>5. a \in Nat
    <3>1. f \in FundRequest
      BY DEF PendingFunds
    <3>2. fund[f].amount \in Nat
      BY <3>1 DEF GoesOn, FundsTyped, FundRow
    <3>3. QED
      BY <1>1, <2>2, <3>2
  <2>6. n = [req[s] EXCEPT
               !.pc = IF req[s].verdict = "APPROVED" THEN "checkTransfer" ELSE "refuse",
               !.amount = IF @ = 0 THEN fund[f].amount ELSE @]
    BY <2>1, <2>2, <2>3
  <2>7. req' = [req EXCEPT ![s] = n] /\ fundOf' = [fundOf EXCEPT ![s] = f]
    BY <1>4, <2>6 DEF StartFund, Start
  <2>8. QED
    BY <1>0, <2>3, <2>4, <2>5, <2>7, FundFound
<1>5. \/ Finish(s)
      \/ \E f \in PendingFunds(e) :
            StartFund(s, [req[s] EXCEPT
                    !.pc = IF req[s].verdict = "APPROVED" THEN "checkTransfer" ELSE "refuse",
                    !.amount = IF @ = 0 THEN fund[f].amount ELSE @], f)
  BY <1>0 DEF FindFund
<1>6. QED
  BY <1>3, <1>4, <1>5

\* Answering before anything has changed, or going on to the transfer.
LEMMA CheckTransferStep ==
    ASSUME NEW s \in Slot, NEW e, GoesOn(s, e), CheckTransfer(s) \/ Transfer(s)
    PROVE  ReviewInv'
<1>0. /\ TablesKept /\ req[s].op = "review" /\ req[s].pc \in {"checkTransfer", "transfer"}
  BY DEF CheckTransfer, Transfer, At, eventVars, ledgerVars, fundVars, TablesKept, TransferBetween
<1>1. /\ req[s].target = "FUNDED" /\ Status(e) = "UNDER_REVIEW" /\ req[s].amount \in Nat
      /\ e \in Event /\ Even(e) /\ PendingFunds(e) = {fundOf[s]}
      /\ req[s].budget = event[e].budget /\ fundOf[s] \in FundRequest
  BY <1>0, Reviews
<1>2. CASE Finish(s)
  <2>1. Booked(e)
    BY <1>1 DEF Booked, Unfunded
  <2>2. QED
    BY <1>0, <1>2, <2>1, FinishLeaves, StepReads
<1>3. ASSUME NEW pc \in {"transfer", "markApproved"}, Goto(s, pc), fundOf' = fundOf
      PROVE  ReviewInv'
  <2>1. PICK n : /\ Leaves(s, e, n) /\ DOMAIN n = HandlerFields
                 /\ n.op = req[s].op /\ n.event = e /\ n.target = req[s].target
                 /\ n.amount = req[s].amount /\ n.budget = req[s].budget /\ n.pc = pc
    BY <1>3, GotoLeaves
  <2>2. /\ Status(e)' = Status(e) /\ Even(e)' /\ PendingFunds(e)' = {fundOf'[s]}
        /\ event'[e] = event[e]
    BY <1>0, <1>1, <1>3, TablesSame
  <2>3. Informed(s)'
    BY <1>0, <1>1, <1>3, <2>1, <2>2, ReviewKnows DEF Leaves
  <2>4. QED
    BY <1>0, <2>1, <2>3, StepReads
<1>4. Finish(s) \/ \E pc \in {"transfer", "markApproved"} : Goto(s, pc) /\ fundOf' = fundOf
  BY DEF CheckTransfer, Transfer, FinishFund, fundVars
<1>5. QED
  BY <1>2, <1>3, <1>4

LEMMA MarkApprovedStep ==
    ASSUME NEW s \in Slot, NEW e, GoesOn(s, e), MarkApproved(s)
    PROVE  ReviewInv'
<1>0. /\ req[s].op = "review" /\ req[s].pc = "markApproved" /\ Goto(s, "raise")
      /\ UNCHANGED <<event, paidOut, trail>>
      /\ fund' = [fund EXCEPT ![fundOf[s]].status = "APPROVED",
                              ![fundOf[s]].approved = req[s].amount]
  BY DEF MarkApproved, At, eventVars, ledgerVars
<1>1. /\ req[s].target = "FUNDED" /\ Status(e) = "UNDER_REVIEW" /\ req[s].amount \in Nat
      /\ e \in Event /\ Even(e) /\ PendingFunds(e) = {fundOf[s]}
      /\ req[s].budget = event[e].budget /\ fundOf[s] \in FundRequest
      /\ fund[fundOf[s]].status = "PENDING" /\ fund[fundOf[s]].event = e
  BY <1>0, Reviews
<1>2. PICK f \in FundRequest : f = fundOf[s]
  BY <1>1
<1>3. PICK row : row = [fund[f] EXCEPT !.status = "APPROVED", !.approved = req[s].amount]
  OBVIOUS
<1>4. fund[f] \in FundRow /\ ParentOf[fund[f].from] # NoGroup /\ fund \in [FundRequest -> FundRow]
  BY <1>1, <1>2 DEF GoesOn, ReviewInv, TablesInv
<1>5. /\ row \in FundRow /\ row.event = e /\ row.status = "APPROVED" /\ row.from = fund[f].from
      /\ row.approved = req[s].amount
  BY <1>1, <1>2, <1>3, <1>4 DEF FundRow
<1>6. fund' = [fund EXCEPT ![f] = row] /\ UNCHANGED <<event, paidOut, trail>>
  BY <1>0, <1>2, <1>3, <1>4
<1>7. /\ OtherEvents(e) /\ OtherFunds(e) /\ FundRowsInv' /\ FundsTyped'
      /\ DOMAIN event' = Event /\ DOMAIN paidOut' = Event /\ DOMAIN trail' = Event
      /\ Sound(e)' /\ Status(e)' = Status(e)
      /\ fund'[f] = row /\ \A g \in FundRequest : g # f => fund'[g] = fund[g]
  BY <1>1, <1>2, <1>4, <1>5, <1>6, RequestWritten
<1>8. PendingFunds(e)' = {}
  BY <1>1, <1>2, <1>5, <1>7 DEF PendingFunds
<1>9. f \notin Granted(e) /\ Granted(e)' = Granted(e) \cup {f}
  BY <1>1, <1>2, <1>5, <1>7 DEF Granted
<1>10. GrantedAmount(e)' = GrantedAmount(e) + req[s].amount
  <2>1. PICK approved : approved = [g \in FundRequest |-> fund'[g].approved]
    OBVIOUS
  <2>2. FundsTyped /\ IsFiniteSet(Granted(e))
    BY SubFinite DEF GoesOn, Granted
  <2>3. GrantedAmount(e)' = Sum(approved, Granted(e) \cup {f})
    BY <1>9, <2>1 DEF GrantedAmount, Sum
  <2>4. approved[f] = req[s].amount /\ \A g \in Granted(e) : approved[g] = ApprovedOf[g]
                                                         /\ ApprovedOf[g] \in Int
    BY <1>4, <1>5, <1>7, <1>9, <2>1, <2>2 DEF ApprovedOf, Granted, FundRow
  <2>5. Sum(approved, Granted(e) \cup {f}) = approved[f] + Sum(approved, Granted(e))
    BY <1>1, <1>9, <2>2, <2>4, SumAdd
  <2>6. Sum(approved, Granted(e)) = Sum(ApprovedOf, Granted(e))
    BY <2>2, <2>4, SumSame
  <2>7. GrantedAmount(e) = Sum(ApprovedOf, Granted(e)) /\ GrantedAmount(e) \in Nat
    BY <2>2, GrantedNat
  <2>8. QED
    BY <1>1, <2>3, <2>4, <2>5, <2>6, <2>7
<1>11. event'[e].budget + req[s].amount = paidOut'[e] + GrantedAmount(e)'
  <2>1. GrantedAmount(e) \in Nat /\ paidOut[e] \in Int /\ event[e].budget \in Nat
    BY GrantedNat DEF GoesOn, Sound
  <2>2. QED
    BY <1>0, <1>1, <1>10, <2>1 DEF Even
<1>12. PICK n : /\ Leaves(s, e, n) /\ DOMAIN n = HandlerFields
                /\ n.op = req[s].op /\ n.event = e /\ n.target = req[s].target
                /\ n.amount = req[s].amount /\ n.budget = req[s].budget /\ n.pc = "raise"
  BY <1>0, GotoLeaves
<1>13. Informed(s)'
  BY <1>0, <1>1, <1>7, <1>8, <1>11, <1>12, ReviewKnows DEF Leaves
<1>14. QED
  BY <1>7, <1>12, <1>13, StepFunds

LEMMA RefuseStep ==
    ASSUME NEW s \in Slot, NEW e, GoesOn(s, e), Refuse(s)
    PROVE  ReviewInv'
<1>0. /\ req[s].op = "review" /\ req[s].pc = "refuse" /\ Goto(s, "mark")
      /\ UNCHANGED <<event, paidOut, trail>>
      /\ fund' = [fund EXCEPT ![fundOf[s]].status = "REJECTED"]
  BY DEF Refuse, At, eventVars, ledgerVars
<1>1. /\ req[s].target = "FUNDED" /\ Status(e) = "UNDER_REVIEW" /\ req[s].amount \in Nat
      /\ e \in Event /\ Even(e) /\ PendingFunds(e) = {fundOf[s]} /\ fundOf[s] \in FundRequest
      /\ fund[fundOf[s]].status = "PENDING" /\ fund[fundOf[s]].event = e
  BY <1>0, Reviews
<1>2. PICK f \in FundRequest : f = fundOf[s]
  BY <1>1
<1>3. PICK row : row = [fund[f] EXCEPT !.status = "REJECTED"]
  OBVIOUS
<1>4. fund[f] \in FundRow /\ ParentOf[fund[f].from] # NoGroup /\ fund \in [FundRequest -> FundRow]
  BY <1>1, <1>2 DEF GoesOn, ReviewInv, TablesInv
<1>5. row \in FundRow /\ row.event = e /\ row.status = "REJECTED" /\ row.from = fund[f].from
  BY <1>1, <1>2, <1>3, <1>4 DEF FundRow
<1>6. fund' = [fund EXCEPT ![f] = row] /\ UNCHANGED <<event, paidOut, trail>>
  BY <1>0, <1>2, <1>3, <1>4
<1>7. /\ OtherEvents(e) /\ OtherFunds(e) /\ FundRowsInv' /\ FundsTyped'
      /\ DOMAIN event' = Event /\ DOMAIN paidOut' = Event /\ DOMAIN trail' = Event
      /\ Sound(e)' /\ Status(e)' = Status(e)
      /\ fund'[f] = row /\ \A g \in FundRequest : g # f => fund'[g] = fund[g]
  BY <1>1, <1>2, <1>4, <1>5, <1>6, RequestWritten
<1>8. PendingFunds(e)' = {}
  BY <1>1, <1>2, <1>5, <1>7 DEF PendingFunds
<1>9. f \notin Granted(e) /\ Granted(e)' = Granted(e)
  BY <1>1, <1>2, <1>5, <1>7 DEF Granted
<1>10. Even(e)'
  <2>1. \A g \in Granted(e) : fund'[g].approved = fund[g].approved
    BY <1>7, <1>9 DEF Granted
  <2>2. GrantedAmount(e)' = GrantedAmount(e)
    BY <1>9, <2>1, GrantedKept DEF GoesOn
  <2>3. QED
    BY <1>0, <1>1, <2>2 DEF Even
<1>11. PICK n : /\ Leaves(s, e, n) /\ DOMAIN n = HandlerFields
                /\ n.op = req[s].op /\ n.event = e /\ n.target = req[s].target
                /\ n.amount = req[s].amount /\ n.pc = "mark"
  BY <1>0, GotoLeaves
<1>12. Informed(s)'
  BY <1>0, <1>1, <1>7, <1>8, <1>10, <1>11, ReviewKnows DEF Leaves
<1>13. QED
  BY <1>7, <1>11, <1>12, StepFunds

LEMMA RaiseBudgetStep ==
    ASSUME NEW s \in Slot, NEW e, GoesOn(s, e), RaiseBudget(s)
    PROVE  ReviewInv'
<1>0. /\ req[s].op = "review" /\ req[s].pc = "raise" /\ Goto(s, "mark")
      /\ UNCHANGED <<fund, paidOut, trail>>
      /\ event' = [event EXCEPT ![Ev(s)].budget = req[s].budget + req[s].amount]
  BY DEF RaiseBudget, At, fundVars, ledgerVars
<1>1. /\ req[s].target = "FUNDED" /\ Status(e) = "UNDER_REVIEW" /\ req[s].amount \in Nat
      /\ e \in Event /\ PendingFunds(e) = {} /\ req[s].budget = event[e].budget /\ Ev(s) = e
      /\ event[e].budget + req[s].amount = paidOut[e] + GrantedAmount(e)
  BY <1>0, Reviews
<1>2. /\ DOMAIN trail = Event /\ DOMAIN event = Event /\ DOMAIN paidOut = Event
      /\ DOMAIN event[e] = EventFields /\ event[e].budget \in Nat
  BY DEF GoesOn, ReviewInv, TablesInv, Sound
<1>3. /\ OtherEvents(e) /\ DOMAIN event' = Event /\ DOMAIN paidOut' = Event
      /\ DOMAIN trail' = Event /\ Status(e)' = Status(e)
      /\ DOMAIN event'[e] = EventFields
      /\ event'[e].budget = event[e].budget + req[s].amount
      /\ event'[e].status = event[e].status /\ event'[e].actual = event[e].actual
      /\ event'[e].creator = event[e].creator
  BY <1>0, <1>1, <1>2 DEF OtherEvents, EventFields, Status
<1>4. /\ PendingFunds(e)' = PendingFunds(e) /\ GrantedAmount(e)' = GrantedAmount(e)
      /\ FundsOf(e)' = FundsOf(e)
  BY <1>0, FundsFixed
<1>5. Sound(e)'
  BY <1>0, <1>1, <1>2, <1>3, <1>4 DEF Sound, GoesOn, Status
<1>6. Even(e)'
  BY <1>0, <1>1, <1>3, <1>4 DEF Even
<1>7. PICK n : /\ Leaves(s, e, n) /\ DOMAIN n = HandlerFields
               /\ n.op = req[s].op /\ n.event = e /\ n.target = req[s].target
               /\ n.amount = req[s].amount /\ n.pc = "mark"
  BY <1>0, GotoLeaves
<1>8. Informed(s)'
  BY <1>0, <1>1, <1>3, <1>4, <1>6, <1>7, ReviewKnows DEF Leaves
<1>9. QED
  BY <1>0, <1>3, <1>5, <1>7, <1>8, StepWrites

\* The other handlers of fund requests are not at work.
LEMMA FundContinueKeeps ==
    ASSUME NEW s \in Slot, NEW e, GoesOn(s, e), FundContinue(s)
    PROVE  ReviewInv'
<1>1. req[s].op \notin {"approvefund", "rejectfund"}
  BY DEF GoesOn, Informed, EditsEvent, ApprovesEvent, CancelsEvent, ReportsEvent, MovesEvent,
         AsksForMore, ReviewsFunds
<1>2. \/ CheckPending(s) \/ CreateFund(s) \/ FindFund(s) \/ CheckTransfer(s) \/ Transfer(s)
      \/ MarkApproved(s) \/ RaiseBudget(s) \/ Refuse(s)
  BY <1>1, NobodyBlocks DEF GoesOn, FundContinue, OpenApprove, CheckDisburse, TransferFund,
     ReadEvent, CommitFund, OpenReject, TakeoverRefund, CommitReject, FundTimesOut, At
<1>3. QED
  BY <1>2, CheckPendingStep, CreateFundStep, FindFundStep, CheckTransferStep,
     MarkApprovedStep, RefuseStep, RaiseBudgetStep

-----------------------------------------------------------------------------
(* Steps of nobody *)

LEMMA AwayStep ==
    ASSUME ReviewInv, \A e \in Event : SameMoney(e), fund' = fund, req' = req, job' = job,
           \A s \in Slot : req[s] # Idle => fundOf'[s] = fundOf[s],
           DOMAIN event' = Event, DOMAIN paidOut' = Event, DOMAIN trail' = Event,
           DOMAIN fundOf' = Slot
    PROVE  ReviewInv'
<1>1. FundsTyped
  BY DEF ReviewInv, TablesInv, FundsTyped
<1>2. \A e \in Event : Sound(e)' /\ (Booked(e) => Booked(e)')
  BY <1>1, SoundSame, BookedSame DEF ReviewInv, TablesInv
<1>3. TablesInv'
  BY <1>2 DEF ReviewInv, TablesInv
<1>4. ASSUME NEW s \in Slot, req'[s] # Idle PROVE Informed(s)'
  <2>1. Informed(s) /\ req'[s] = req[s] /\ fundOf'[s] = fundOf[s]
    BY <1>4 DEF ReviewInv
  <2>2. SameMoney(Ev(s))
    BY <2>1 DEF Informed
  <2>3. QED
    BY <1>1, <2>1, <2>2, InformedSame
<1>5. \A e \in Event : Alone(e)' => Booked(e)'
  BY <1>2 DEF ReviewInv, Alone, Ev
<1>6. JobInv'
  <2>1. CASE job = IdleJob
    BY <2>1 DEF JobInv, IdleJob
  <2>2. CASE job # IdleJob
    <3>1. \A e \in Event : /\ Status(e)' = Status(e) /\ Granted(e)' = Granted(e)
                           /\ event'[e].budget = event[e].budget /\ paidOut'[e] = paidOut[e]
                           /\ GrantedAmount(e)' = GrantedAmount(e) /\ AskedFor(e)' = AskedFor(e)
      BY FundsFixed DEF SameMoney, Status
    <3>2. \A e \in Event : Expects(e) => Expects(e)'
      BY <3>1 DEF Expects
    <3>3. AmountOf' = AmountOf
      BY DEF AmountOf
    <3>4. JobKnows => JobKnows'
      BY <1>2, <3>1, <3>3 DEF JobKnows, Owed, Left
    <3>5. QED
      BY <2>2, <3>2, <3>4 DEF JobInv, ReviewInv
  <2>3. QED
    BY <2>1, <2>2
<1>7. QED
  BY <1>3, <1>4, <1>5, <1>6 DEF ReviewInv

LEMMA StutterStep ==
    ASSUME ReviewInv, UNCHANGED allVars
    PROVE  ReviewInv'
<1>1. \A e \in Event : SameMoney(e)
  BY DEF SameMoney, SameFunds, FundsOf, allVars, fundVars, vars, eventVars, ledgerVars
<1>2. QED
  BY <1>1, AwayStep DEF allVars, vars, eventVars, ledgerVars, fundVars, ReviewInv, TablesInv

LEMMA EndStep ==
    ASSUME ReviewInv, NEW e \in Event, EndDatePasses(e), fund' = fund, job' = job,
           DOMAIN fundOf' = Slot, \A s \in Slot : req[s] # Idle => fundOf'[s] = fundOf[s]
    PROVE  ReviewInv'
<1>1. /\ event' = [event EXCEPT ![e].ended = TRUE] /\ req' = req
      /\ UNCHANGED <<paidOut, trail>> /\ DOMAIN event = Event /\ DOMAIN event[e] = EventFields
      /\ DOMAIN paidOut = Event /\ DOMAIN trail = Event
  BY DEF EndDatePasses, ledgerVars, ReviewInv, TablesInv, Sound
<1>2. \A f \in Event : SameMoney(f)
  BY <1>1 DEF SameMoney, SameFunds, FundsOf, EventFields
<1>3. QED
  BY <1>1, <1>2, AwayStep

LEMMA CreateStep ==
    ASSUME ReviewInv, NEW u \in User, NEW e \in Event, NEW b \in Budget, NEW late \in BOOLEAN,
           Create(u, e, b, late), fund' = fund, job = IdleJob, job' = job,
           DOMAIN fundOf' = Slot, \A s \in Slot : req[s] # Idle => fundOf'[s] = fundOf[s]
    PROVE  ReviewInv'
<1>0. /\ DOMAIN event = Event /\ DOMAIN paidOut = Event /\ DOMAIN trail = Event
      /\ DOMAIN req = Slot /\ Sound(e) /\ FundsTyped
  BY DEF ReviewInv, TablesInv, FundsTyped
<1>1. /\ event' = [event EXCEPT ![e] = [status |-> "DRAFT", creator |-> u, budget |-> b,
                                        actual |-> 0, ended |-> late]]
      /\ trail' = [trail EXCEPT ![e] = [prev |-> "DRAFT", new |-> "DRAFT"]]
      /\ paidOut' = paidOut /\ req' = req /\ Status(e) = "ABSENT" /\ b \in Nat
  BY LifecycleAssumption DEF Create, ledgerVars
<1>2. \A s \in Slot : req[s] # Idle => Ev(s) # e
  BY <1>1 DEF ReviewInv, Informed, EditsEvent, ApprovesEvent, CancelsEvent, ReportsEvent,
         MovesEvent, AsksForMore, ReviewsFunds, Unfunded
<1>3. /\ DOMAIN event'[e] = EventFields /\ event'[e].status = "DRAFT"
      /\ event'[e].budget = b /\ event'[e].actual = 0 /\ event'[e].creator = u
      /\ Status(e)' = "DRAFT"
  BY <1>0, <1>1 DEF EventFields, Status
<1>4. FundsOf(e)' = FundsOf(e) /\ FundsOf(e) = {}
  BY <1>0, <1>1, FundsFixed DEF Sound, FundedOnce
<1>5. Sound(e)'
  BY <1>0, <1>1, <1>3, <1>4 DEF Sound, RowStatus, EventStatus
<1>6. Alone(e)
  BY <1>2, LifecycleAssumption DEF Alone, IdleJob
<1>7. Booked(e)'
  BY <1>1, <1>3, <1>6 DEF ReviewInv, Booked, Unfunded
<1>8. \A f \in Event \ {e} : SameMoney(f)
  BY <1>0, <1>1 DEF SameMoney, SameFunds, FundsOf
<1>9. \A f \in Event : Sound(f)' /\ (Alone(f) => Booked(f)')
  BY <1>0, <1>5, <1>7, <1>8, SoundSame, BookedSame DEF ReviewInv, TablesInv
<1>10. TablesInv'
  BY <1>0, <1>1, <1>9 DEF ReviewInv, TablesInv
<1>11. ASSUME NEW s \in Slot, req'[s] # Idle PROVE Informed(s)'
  <2>1. Informed(s) /\ req'[s] = req[s] /\ fundOf'[s] = fundOf[s] /\ Ev(s) # e
    BY <1>1, <1>2, <1>11 DEF ReviewInv
  <2>2. SameMoney(Ev(s))
    BY <1>8, <2>1 DEF Informed
  <2>3. QED
    BY <1>0, <2>1, <2>2, InformedSame
<1>12. \A f \in Event : Alone(f)' => Booked(f)'
  BY <1>1, <1>9 DEF Alone, Ev
<1>13. JobInv'
  BY DEF JobInv, IdleJob
<1>14. QED
  BY <1>10, <1>11, <1>12, <1>13 DEF ReviewInv

-----------------------------------------------------------------------------
(* The steps of the lifecycle, with the fund requests beside them *)

\* An event that has requests is not deleted.
LEMMA FundedStays ==
    ASSUME ReviewInv, OneByOne, NobodyDies, NobodyDies', Next, NEW e \in Event,
           Status(e) \in FundedOnce
    PROVE  event'[e].status # "DELETED"
<1>0. DOMAIN event = Event /\ (\A f \in Event : DOMAIN event[f] = EventFields)
      /\ event[e].status \in FundedOnce
  BY DEF ReviewInv, TablesInv, Sound, Status
<1>1. CASE event' = event
  BY <1>0, <1>1 DEF FundedOnce
<1>2. ASSUME NEW f \in Event, NEW x, NEW y,
             \/ event' = [event EXCEPT ![f].actual = x]
             \/ event' = [event EXCEPT ![f].ended = x]
             \/ event' = [event EXCEPT ![f].budget = x, ![f].ended = y]
      PROVE  event'[e].status # "DELETED"
  <2>1. event'[e].status = event[e].status
    BY <1>0, <1>2 DEF EventFields
  <2>2. QED
    BY <1>0, <2>1 DEF FundedOnce
<1>3. ASSUME NEW f \in Event, NEW x, event' = [event EXCEPT ![f].status = x],
             x # "DELETED" \/ f # e
      PROVE  event'[e].status # "DELETED"
  BY <1>0, <1>3 DEF FundedOnce, EventFields
<1>4. CASE Environment
  <2>1. ASSUME NEW u \in User, NEW f \in Event, NEW b \in Budget, NEW late \in BOOLEAN,
               Create(u, f, b, late)
        PROVE  event'[e].status # "DELETED"
    <3>1. f # e
      BY <2>1 DEF Create, FundedOnce
    <3>2. event'[e] = event[e]
      BY <1>0, <2>1, <3>1 DEF Create
    <3>3. QED
      BY <1>0, <3>2 DEF FundedOnce
  <2>2. ASSUME NEW f \in Event, EndDatePasses(f) PROVE event'[e].status # "DELETED"
    BY <1>2, <2>2 DEF EndDatePasses
  <2>3. QED
    BY <1>4, <2>1, <2>2 DEF Environment
<1>5. ASSUME NEW s \in Slot, Begin(s) PROVE event'[e].status # "DELETED"
  <2>1. ASSUME NEW u, NEW f, NEW x, NEW y
        PROVE  /\ BeginUpdate(s, u, f, x) => event' = event
               /\ BeginDelete(s, u, f) => event' = event
               /\ BeginSubmit(s, u, f) => event' = event
               /\ BeginApprove(s, u, f, x) => event' = event
               /\ BeginCancel(s, u, f) => event' = event
               /\ BeginExpense(s, u, f, x, y) => event' = event
               /\ BeginExtend(s, u, f) => event' = event
               /\ BeginSettle(s, u, f) => event' = event
               /\ BeginView(s, u, f) => event' = event
    BY Zenon DEF BeginUpdate, MayUpdate, BeginDelete, MayDelete, BeginSubmit, MaySubmit,
       BeginApprove, MayApprove, NextStepOf, BeginCancel, MayCancel, BeginExpense, MayReport,
                 BeginExtend, MayExtend, BeginSettle, MaySettle, BeginView, eventVars
  <2>2. event' = event
    BY <1>5, <2>1, Zenon DEF Begin
  <2>3. QED
    BY <1>1, <2>2
<1>6. ASSUME NEW s \in Slot, Continue(s) PROVE event'[e].status # "DELETED"
  <2>1. req[s] # Idle
    BY <1>6, NobodyBlocks
       DEF Continue, Running, WriteUpdate, WriteExtend, LockEvent, WriteDelete, ReadWorkflow,
           ClearApprovals, InsertApproval, ReadForHistory, WriteStatus, Decide, CheckFunds,
           Disburse, CommitFunded, Reread, Refund, InsertExpense, WriteActual, FailOnDeleted
  <2>2. Informed(s) /\ Ev(s) \in Event
    BY <2>1 DEF ReviewInv, Informed
  <2>3. CASE event' = event
    BY <1>1, <2>3
  <2>4. ASSUME NEW late \in BOOLEAN, WriteUpdate(s, late) \/ WriteExtend(s, late)
        PROVE  event'[e].status # "DELETED"
    BY <1>2, <2>2, <2>4 DEF WriteUpdate, WriteExtend
  <2>5. CASE WriteDelete(s)
    <3>1. EditsEvent(s) /\ req[s].op = "delete"
      BY <2>2, <2>5, OpTells DEF WriteDelete, At
    <3>2. Ev(s) # e
      BY <3>1 DEF EditsEvent, FundedOnce
    <3>3. QED
      BY <1>3, <2>2, <2>5, <3>2 DEF WriteDelete
  <2>6. CASE WriteStatus(s)
    <3>1. req[s].target # "DELETED"
      BY <2>2, <2>6 DEF WriteStatus, Informed, EditsEvent, ApprovesEvent, CancelsEvent,
         ReportsEvent, MovesEvent, AsksForMore, ReviewsFunds
    <3>2. QED
      BY <1>3, <2>2, <2>6, <3>1 DEF WriteStatus, SetStatus
  <2>7. CASE Decide(s) \/ CommitFunded(s)
    <3>1. event' = event \/ \E x \in {"REJECTED", "FUNDED"} : event' = [event EXCEPT ![Ev(s)].status = x]
      BY <2>7 DEF Decide, CommitFunded, SetStatus, eventVars
    <3>2. QED
      BY <1>1, <1>3, <2>2, <3>1
  <2>8. CASE WriteActual(s)
    BY <1>2, <2>2, <2>8 DEF WriteActual
  <2>9. QED
    BY <1>6, <2>3, <2>4, <2>5, <2>6, <2>7, <2>8, NobodyBlocks
       DEF Continue, LockEvent, ReadWorkflow, ClearApprovals, InsertApproval, ReadForHistory,
           CheckFunds, Disburse, Reread, Refund, InsertExpense, FailOnDeleted, eventVars
<1>7. ASSUME NEW s \in Slot, Abort(s) PROVE FALSE
  BY <1>7 DEF Abort, NobodyDies
<1>8. QED
  BY <1>4, <1>5, <1>6, <1>7 DEF Next

LEMMA LifecycleStep ==
    ASSUME ReviewInv, OneByOne, OneByOne', NobodyDies, NobodyDies', job = IdleJob,
           Next, Composed
    PROVE  ReviewInv'
<1>1. job' = job
  BY DEF Composed
<1>2. DOMAIN fundOf' = Slot /\ \A t \in Slot : req'[t] # Idle => fundOf'[t] = fundOf[t]
  BY DEF Composed
<1>3. fund' = fund
  <2>1. fund \in [FundRequest -> FundRow]
    BY DEF ReviewInv, TablesInv
  <2>2. ASSUME NEW f \in FundRequest, fund[f].event # NoEvent
        PROVE  event'[fund[f].event].status # "DELETED"
    <3>1. fund[f].event \in Event
      BY <2>1, <2>2 DEF FundRow
    <3>2. f \in FundsOf(fund[f].event)
      BY DEF FundsOf
    <3>3. Status(fund[f].event) \in FundedOnce
      BY <3>1, <3>2 DEF ReviewInv, TablesInv, Sound
    <3>4. QED
      BY <3>1, <3>3, FundedStays
  <2>3. fund' = [f \in FundRequest |-> fund[f]]
    BY <2>2 DEF Composed
  <2>4. QED
    BY <2>1, <2>3
<1>4. ASSUME NEW u \in User, NEW e \in Event, NEW b \in Budget, NEW late \in BOOLEAN,
             Create(u, e, b, late)
      PROVE  ReviewInv'
  <2>1. req' = req
    BY <1>4 DEF Create
  <2>2. QED
    BY <1>1, <1>2, <1>3, <1>4, <2>1, CreateStep
<1>5. ASSUME NEW e \in Event, EndDatePasses(e) PROVE ReviewInv'
  <2>1. req' = req
    BY <1>5 DEF EndDatePasses
  <2>2. QED
    BY <1>1, <1>2, <1>3, <1>5, <2>1, EndStep
<1>6. ASSUME NEW s \in Slot, Begin(s) PROVE ReviewInv'
  BY <1>1, <1>2, <1>3, <1>6, BeginKeeps DEF FundOfKept
<1>7. ASSUME NEW s \in Slot, Continue(s) PROVE ReviewInv'
  <2>1. req[s] # Idle
    BY <1>7, NobodyBlocks
       DEF Continue, Running, WriteUpdate, WriteExtend, LockEvent, WriteDelete, ReadWorkflow,
           ClearApprovals, InsertApproval, ReadForHistory, WriteStatus, Decide, CheckFunds,
           Disburse, CommitFunded, Reread, Refund, InsertExpense, WriteActual, FailOnDeleted
  <2>2. PICK e : e = Ev(s)
    OBVIOUS
  <2>3. Informed(s) /\ e \in Event
    BY <2>1, <2>2 DEF ReviewInv, Informed
  <2>4. GoesOn(s, e)
    BY <1>1, <1>2, <2>1, <2>2, <2>3
       DEF GoesOn, FundOfKept, ReviewInv, TablesInv, FundsTyped
  <2>5. QED
    BY <1>3, <1>7, <2>4, ContinueKeeps
<1>8. ASSUME NEW s \in Slot, Abort(s) PROVE FALSE
  BY <1>8 DEF Abort, NobodyDies
<1>9. QED
  BY <1>4, <1>5, <1>6, <1>7, <1>8 DEF Next, Environment

LEMMA FundHandlerStep ==
    ASSUME ReviewInv, OneByOne, OneByOne', job = IdleJob, FundOp \subseteq {"askfund", "review"},
           NEW s \in Slot, FundBegin(s) \/ FundContinue(s)
    PROVE  ReviewInv'
<1>1. CASE FundBegin(s)
  <2>1. job' = job
    BY <1>1 DEF FundBegin, BeginAsk, MayAskFund, BeginReview, MayReview, BeginApproveFund,
       BeginRejectFund, fundVars
  <2>2. PICK u \in User :
        \/ \E e \in Event, a \in FundAmount : BeginAsk(s, u, e, a)
        \/ \E e \in Event, yes \in BOOLEAN, a \in FundAmount \cup {0} :
              BeginReview(s, u, e, yes, a)
    BY <1>1 DEF FundBegin, BeginApproveFund, BeginRejectFund, MayCallFund
  <2>3. QED
    BY <2>1, <2>2, AskBegins, ReviewBegins
<1>2. CASE FundContinue(s)
  <2>1. /\ req[s] # Idle /\ job' = job
        /\ fundOf' = fundOf \/ \E f : fundOf' = [fundOf EXCEPT ![s] = f]
    BY <1>2, NobodyBlocks
       DEF FundContinue, Running, CheckPending, CreateFund, FindFund, CheckTransfer, Transfer,
           MarkApproved, RaiseBudget, Refuse, OpenApprove, CheckDisburse, TransferFund,
           ReadEvent, CommitFund, OpenReject, RejectInTx, TakeoverRefund, CommitReject,
           FundTimesOut, StartFund, FinishFund, fundVars
  <2>2. PICK e : e = Ev(s)
    OBVIOUS
  <2>3. Informed(s) /\ e \in Event
    BY <2>1, <2>2 DEF ReviewInv, Informed
  <2>4. FundOfKept(s)
    BY <2>1 DEF FundOfKept, ReviewInv, TablesInv
  <2>5. GoesOn(s, e)
    BY <2>1, <2>2, <2>3, <2>4 DEF GoesOn, ReviewInv, TablesInv, FundsTyped
  <2>6. QED
    BY <1>2, <2>5, FundContinueKeeps
<1>3. QED
  BY <1>1, <1>2

-----------------------------------------------------------------------------
(* The job *)

JobFields == {"pc", "event", "prior", "initial", "extra", "list"}

\* A step of the job for e, or to e.
LEMMA JobMoves ==
    ASSUME ReviewInv, \A s \in Slot : req[s] = Idle, UNCHANGED <<req, fundOf, fund>>,
           NEW e \in Event, OtherEvents(e), job.event \in {e, NoEvent},
           DOMAIN event' = Event, DOMAIN paidOut' = Event, DOMAIN trail' = Event, Sound(e)',
           \/ job' = IdleJob /\ Booked(e)'
           \/ /\ DOMAIN job' = JobFields /\ DOMAIN job'.list = Event
              /\ \A f \in Event : Expects(f)'
              /\ \/ job'.event = NoEvent /\ job'.pc = "next" /\ Booked(e)'
                 \/ job'.event = e /\ JobKnows'
    PROVE  ReviewInv'
<1>1. \A f \in Event \ {e} : SameMoney(f)
  <2>1. OtherFunds(e)
    BY DEF OtherFunds
  <2>2. QED
    BY <2>1, OtherSame
<1>2. FundsTyped
  BY DEF ReviewInv, TablesInv, FundsTyped
<1>3. \A f \in Event : Sound(f)'
  BY <1>1, SoundSame DEF ReviewInv, TablesInv
<1>4. TablesInv'
  BY <1>3 DEF ReviewInv, TablesInv
<1>5. \A f \in Event : Alone(f)' => Booked(f)'
  <2>1. ASSUME NEW f \in Event, Alone(f)', f # e PROVE Booked(f)'
    <3>1. f # NoEvent
      BY LifecycleAssumption
    <3>2. Alone(f)
      BY <2>1, <3>1 DEF Alone
    <3>3. QED
      BY <1>1, <1>2, <2>1, <3>2, BookedSame DEF ReviewInv
  <2>2. Alone(e)' => Booked(e)'
    BY DEF Alone
  <2>3. QED
    BY <2>1, <2>2
<1>6. JobInv'
  BY DEF JobInv, JobFields
<1>7. QED
  BY <1>4, <1>5, <1>6 DEF ReviewInv

LEMMA JobStartsStep ==
    ASSUME ReviewInv, ~Overlap, JobStarts
    PROVE  ReviewInv'
<1>1. job = IdleJob
  BY DEF JobStarts, ReviewInv, JobInv, JobKnows
<1>2. /\ \A s \in Slot : req[s] = Idle
      /\ UNCHANGED <<event, paidOut, trail, req, fund, fundOf>>
  BY DEF JobStarts, vars, ledgerVars
<1>3. PICK e \in Event : IsExpired(e)
  BY DEF JobStarts
<1>4. PICK list : list = [f \in Event |->
                    IF IsExpired(f)
                    THEN [status |-> Status(f), budget |-> event[f].budget, extra |-> Granted(f)]
                    ELSE NotExpired]
  OBVIOUS
<1>5. job' = [job EXCEPT !.pc = "next", !.list = list]
  BY <1>4 DEF JobStarts
<1>6. /\ DOMAIN job' = JobFields /\ job'.list = list /\ job'.pc = "next" /\ job'.event = NoEvent
      /\ DOMAIN list = Event
  BY <1>1, <1>4, <1>5 DEF IdleJob, JobFields
<1>7. \A f \in Event : Status(f)' = Status(f) /\ Granted(f)' = Granted(f)
  BY <1>2, FundsFixed DEF Status
<1>8. ASSUME NEW f \in Event PROVE Expects(f)'
  <2>1. CASE IsExpired(f)
    <3>1. /\ job'.list[f].status = Status(f) /\ job'.list[f].budget = event[f].budget
          /\ job'.list[f].extra = Granted(f)
      BY <1>4, <1>6, <2>1
    <3>2. QED
      BY <1>2, <1>7, <2>1, <3>1 DEF Expects, IsExpired
  <2>2. CASE ~IsExpired(f)
    BY <1>4, <1>6, <2>2 DEF Expects
  <2>3. QED
    BY <2>1, <2>2
<1>9. Sound(e) /\ Booked(e)
  <2>1. Alone(e)
    BY <1>1, <1>2, LifecycleAssumption DEF Alone, IdleJob
  <2>2. QED
    BY <2>1 DEF ReviewInv, TablesInv
<1>10. SameMoney(e) /\ OtherEvents(e) /\ FundsTyped
  BY <1>2 DEF SameMoney, SameFunds, FundsOf, OtherEvents, ReviewInv, TablesInv, FundsTyped
<1>11. Sound(e)' /\ Booked(e)'
  BY <1>9, <1>10, SoundSame, BookedSame
<1>12. DOMAIN event' = Event /\ DOMAIN paidOut' = Event /\ DOMAIN trail' = Event
  BY <1>2 DEF ReviewInv, TablesInv
<1>13. job.event = NoEvent
  BY <1>1 DEF IdleJob
<1>14. QED
  BY <1>2, <1>6, <1>8, <1>10, <1>11, <1>12, <1>13, JobMoves

\* What the job knows once it has started.
JobWorks ==
    /\ \A s \in Slot : req[s] = Idle
    /\ DOMAIN job = JobFields /\ DOMAIN job.list = Event
    /\ \A e \in Event : Expects(e)
    /\ (job.pc = "next" /\ job.event = NoEvent) \/ JobKnows

LEMMA AtWork ==
    ASSUME ReviewInv, job.pc # "idle"
    PROVE  JobWorks
  BY DEF ReviewInv, JobInv, IdleJob, JobWorks, JobFields

LEMMA RowSums ==
    ASSUME FundsTyped, NEW S \in SUBSET FundRequest
    PROVE  /\ IsFiniteSet(S) /\ SumFunctionOnSet(AmountOf, S) \in Int
           /\ \A f \in S : AmountOf[f] \in Nat
           /\ \A f \in S : SumFunctionOnSet(AmountOf, S \ {f}) = SumFunctionOnSet(AmountOf, S) - AmountOf[f]
           /\ S = {} => SumFunctionOnSet(AmountOf, S) = 0
<1>1. IsFiniteSet(S) /\ \A f \in S : AmountOf[f] \in Nat
  BY SubFinite DEF AmountOf, FundsTyped, FundRow
<1>2. Sum(AmountOf, S) \in Int
  BY <1>1, SumInt
<1>3. ASSUME NEW f \in S PROVE Sum(AmountOf, S \ {f}) = Sum(AmountOf, S) - AmountOf[f]
  <2>1. IsFiniteSet(S \ {f}) /\ Sum(AmountOf, S \ {f}) \in Int
    <3>1. S \ {f} \in SUBSET FundRequest
      OBVIOUS
    <3>2. IsFiniteSet(S \ {f})
      BY <3>1, SubFinite
    <3>3. QED
      BY <1>1, <3>2, SumInt
  <2>2. Sum(AmountOf, S) = AmountOf[f] + Sum(AmountOf, S \ {f})
    BY <1>1, SumRemove
  <2>3. QED
    BY <1>1, <1>2, <2>1, <2>2
<1>4. S = {} => Sum(AmountOf, S) = 0
  BY SumEmpty
<1>5. QED
  BY <1>1, <1>2, <1>3, <1>4 DEF Sum

LEMMA JobPicksStep ==
    ASSUME ReviewInv, NEW e \in Event, JobPicks(e)
    PROVE  ReviewInv'
<1>0. FundsTyped /\ DOMAIN event = Event /\ DOMAIN paidOut = Event /\ DOMAIN trail = Event
  BY DEF ReviewInv, TablesInv, FundsTyped
<1>1. /\ JobWorks /\ job.event = NoEvent /\ job.list[e] # NotExpired /\ job.pc = "next"
      /\ UNCHANGED <<event, paidOut, trail, req, fund, fundOf>>
  <2>1. JobWorks
    BY AtWork DEF JobPicks
  <2>2. QED
    BY <2>1 DEF JobPicks, vars, ledgerVars, JobWorks, JobKnows
<1>2. /\ job.list[e].status = Status(e) /\ Status(e) \in AutoCancelable
      /\ job.list[e].budget = event[e].budget /\ job.list[e].extra = Granted(e)
  BY <1>1 DEF JobWorks, Expects
<1>3. Booked(e) /\ Sound(e)
  <2>1. Alone(e)
    BY <1>1, LifecycleAssumption DEF Alone, JobWorks
  <2>2. QED
    BY <2>1 DEF ReviewInv, TablesInv
<1>4. PICK extra : extra = IF Status(e) = "FUNDED" THEN Granted(e) ELSE {}
  OBVIOUS
<1>5. PICK initial : initial = IF Status(e) = "FUNDED"
                               THEN event[e].budget - SumFunctionOnSet(AmountOf, extra) ELSE 0
  OBVIOUS
<1>6. PICK pc : pc = JobStage(initial, extra)
  OBVIOUS
<1>7. job' = [job EXCEPT !.event = e, !.initial = initial, !.extra = extra, !.pc = pc]
  BY <1>2, <1>4, <1>5, <1>6 DEF JobPicks
<1>8. /\ DOMAIN job' = JobFields /\ job'.event = e /\ job'.initial = initial
      /\ job'.extra = extra /\ job'.pc = pc /\ job'.list = job.list
  BY <1>1, <1>7 DEF JobWorks, JobFields
<1>9. \A f \in Event : Status(f)' = Status(f) /\ Granted(f)' = Granted(f)
  BY <1>1, FundsFixed DEF Status
<1>10. \A f \in Event : Expects(f)'
  BY <1>1, <1>8, <1>9 DEF JobWorks, Expects
<1>11. Sound(e)' /\ Booked(e)' /\ OtherEvents(e)
  <2>1. SameMoney(e) /\ OtherEvents(e)
    BY <1>1 DEF SameMoney, SameFunds, FundsOf, OtherEvents
  <2>2. QED
    BY <1>0, <1>3, <2>1, SoundSame, BookedSame
<1>12. AmountOf' = AmountOf /\ Left(e)' = Left(e) /\ \A x : Owed(e, x)' <=> Owed(e, x)
  BY <1>1, TablesSame DEF AmountOf, TablesKept
<1>13. JobKnows'
  <2>1. CASE Status(e) = "FUNDED"
    <3>1. extra = Granted(e) /\ extra \in SUBSET FundRequest
      BY <1>4, <2>1 DEF Granted
    <3>2. PICK total : total = SumFunctionOnSet(AmountOf, extra)
      OBVIOUS
    <3>3. total \in Int /\ (extra = {} => total = 0)
      BY <1>0, <3>1, <3>2, RowSums
    <3>4. /\ paidOut[e] \in Int /\ event[e].budget \in Nat /\ GrantedAmount(e) \in Nat
          /\ event[e].budget = paidOut[e] + GrantedAmount(e)
      BY <1>0, <1>3, <2>1, GrantedNat DEF Sound, Booked, Even
    <3>5. /\ initial = event[e].budget - total /\ initial \in Int
          /\ Left(e) = event[e].budget /\ AskedFor(e) = total
      BY <1>5, <2>1, <3>1, <3>2, <3>3, <3>4 DEF Left, AskedFor
    <3>6. CASE initial > 0
      <4>1. initial \in Nat /\ Owed(e, initial + total) /\ pc = "initial"
        BY <1>6, <3>3, <3>4, <3>5, <3>6 DEF JobStage, Owed
      <4>2. QED
        BY <1>1, <1>8, <1>9, <1>12, <2>1, <3>1, <3>2, <3>5, <4>1 DEF JobKnows
    <3>7. CASE ~(initial > 0) /\ extra # {}
      <4>1. Owed(e, total) /\ pc = "extra"
        BY <1>6, <3>3, <3>4, <3>5, <3>7 DEF JobStage, Owed
      <4>2. QED
        BY <1>1, <1>8, <1>9, <1>12, <2>1, <3>1, <3>2, <3>5, <4>1 DEF JobKnows
    <3>8. CASE ~(initial > 0) /\ extra = {}
      <4>1. Owed(e, 0) /\ pc = "mark"
        BY <1>6, <3>3, <3>4, <3>5, <3>8 DEF JobStage, Owed
      <4>2. QED
        BY <1>1, <1>8, <1>9, <1>12, <2>1, <3>5, <4>1 DEF JobKnows
    <3>9. QED
      BY <3>6, <3>7, <3>8
  <2>2. CASE Status(e) # "FUNDED"
    <3>1. pc = "mark" /\ initial = 0
      BY <1>4, <1>5, <1>6, <2>2 DEF JobStage
    <3>2. QED
      BY <1>1, <1>8, <1>9, <1>11, <2>2, <3>1 DEF JobKnows
  <2>3. QED
    BY <2>1, <2>2
<1>14. /\ \A s \in Slot : req[s] = Idle
       /\ DOMAIN event' = Event /\ DOMAIN paidOut' = Event /\ DOMAIN trail' = Event
       /\ DOMAIN job'.list = Event
  BY <1>0, <1>1, <1>8 DEF JobWorks
<1>15. QED
  BY <1>1, <1>8, <1>10, <1>11, <1>13, <1>14, JobMoves

\* A refund of the job, and what it still has to refund after it.
LEMMA JobRefundStep ==
    ASSUME ReviewInv, JobWorks, JobKnows, NEW e, e = job.event, NEW a \in Int, NEW r,
           paidOut' = [paidOut EXCEPT ![e] = @ - a], UNCHANGED <<event, trail, req, fund, fundOf>>,
           r \subseteq Granted(e), Status(e) = "FUNDED",
           Left(e) - a <= SumFunctionOnSet(AmountOf, r),
           AskedFor(e) <= event[e].budget => Left(e) - a = SumFunctionOnSet(AmountOf, r),
           DOMAIN job' = JobFields, job'.event = e, job'.initial = job.initial, job'.extra = r,
           job'.list = job.list,
           job'.pc = IF r # {} THEN "extra" ELSE "mark"
    PROVE  ReviewInv'
<1>0. /\ FundsTyped /\ DOMAIN event = Event /\ DOMAIN paidOut = Event /\ DOMAIN trail = Event
      /\ e \in Event /\ Sound(e) /\ job.list[e] # NotExpired
  BY DEF ReviewInv, TablesInv, FundsTyped, JobKnows
<1>1. paidOut'[e] = paidOut[e] - a /\ paidOut'[e] \in Int /\ DOMAIN paidOut' = Event
  BY <1>0 DEF Sound
<1>2. \A f \in Event : Status(f)' = Status(f) /\ Granted(f)' = Granted(f) /\ FundsOf(f)' = FundsOf(f)
  BY FundsFixed DEF Status
<1>3. \A f \in Event : Expects(f)'
  BY <1>2 DEF JobWorks, Expects
<1>4. Sound(e)'
  BY <1>0, <1>1, <1>2 DEF Sound
<1>5. OtherEvents(e)
  BY <1>0 DEF OtherEvents
<1>6. AmountOf' = AmountOf
  BY DEF AmountOf
<1>7. JobKnows'
  <2>1. r \in SUBSET FundRequest
    BY DEF Granted
  <2>2. PICK rest : rest = SumFunctionOnSet(AmountOf, r)
    OBVIOUS
  <2>3. rest = SumFunctionOnSet(AmountOf, r)' /\ (r = {} => rest = 0)
    BY <1>0, <1>6, <2>1, <2>2, RowSums
  <2>4. AskedFor(e)' = AskedFor(e) /\ GrantedAmount(e)' = GrantedAmount(e)
    BY FundsFixed
  <2>5. Left(e)' = Left(e) - a
    BY <1>0, <1>1, <2>4, GrantedNat DEF Left, Sound
  <2>6. Owed(e, rest)'
    BY <2>2, <2>4, <2>5 DEF Owed
  <2>7. QED
    BY <1>0, <1>1, <1>2, <2>3, <2>6 DEF JobKnows
<1>8. /\ \A s \in Slot : req[s] = Idle
      /\ DOMAIN event' = Event /\ DOMAIN paidOut' = Event /\ DOMAIN trail' = Event
      /\ DOMAIN job'.list = Event
  BY <1>0, <1>1 DEF JobWorks
<1>9. QED
  BY <1>0, <1>3, <1>4, <1>5, <1>7, <1>8, JobMoves

LEMMA JobRefundsStep ==
    ASSUME ReviewInv, JobRefundsInitial \/ JobRefundsExtra
    PROVE  ReviewInv'
<1>0. /\ job.pc \in {"initial", "extra"} /\ job.event # NoEvent
      /\ UNCHANGED <<event, trail, req, fund, fundOf>>
  BY DEF JobRefundsInitial, JobRefundsExtra, eventVars, JobRuns
<1>1. JobWorks
  BY <1>0, AtWork
<1>2. PICK e : e = job.event
  OBVIOUS
<1>3. /\ JobKnows /\ FundsTyped /\ Sound(e) /\ Status(e) = "FUNDED" /\ e \in Event
      /\ job.extra \subseteq Granted(e)
  <2>1. JobKnows
    BY <1>0, <1>1 DEF JobWorks
  <2>2. e \in Event /\ Status(e) = "FUNDED" /\ job.extra \subseteq Granted(e)
    BY <1>0, <1>2, <2>1, Zenon DEF JobKnows
  <2>3. QED
    BY <2>1, <2>2 DEF ReviewInv, TablesInv, FundsTyped
<1>4. job.extra \in SUBSET FundRequest
  BY <1>3 DEF Granted
<1>5. PICK total : total = SumFunctionOnSet(AmountOf, job.extra)
  OBVIOUS
<1>6. CASE JobRefundsInitial
  <2>1. /\ paidOut' = [paidOut EXCEPT ![e] = @ - job.initial]
        /\ job' = [job EXCEPT !.pc = JobStage(0, job.extra)]
        /\ job.pc = "initial"
    BY <1>2, <1>6 DEF JobRefundsInitial, CreditForEvent
  <2>2. job.initial \in Nat /\ Owed(e, job.initial + total)
    BY <1>2, <1>3, <1>5, <2>1, Zenon DEF JobKnows
  <2>3. total \in Int /\ Left(e) \in Int
    BY <1>3, <1>4, <1>5, RowSums, GrantedNat DEF Sound, Left
  <2>4. /\ Left(e) - job.initial <= total /\ job.initial \in Int
        /\ AskedFor(e) <= event[e].budget => Left(e) - job.initial = total
    BY <2>2, <2>3 DEF Owed
  <2>5. /\ DOMAIN job' = JobFields /\ job'.event = e /\ job'.extra = job.extra
        /\ job'.initial = job.initial /\ job'.list = job.list
        /\ job'.pc = IF job.extra # {} THEN "extra" ELSE "mark"
    BY <1>1, <1>2, <2>1 DEF JobWorks, JobFields, JobStage
  <2>6. QED
    BY <1>0, <1>1, <1>2, <1>3, <1>5, <2>1, <2>4, <2>5, JobRefundStep
<1>7. CASE JobRefundsExtra
  <2>1. PICK f \in job.extra :
          /\ paidOut' = [paidOut EXCEPT ![e] = @ - fund[f].amount]
          /\ job' = [job EXCEPT !.extra = @ \ {f}, !.pc = JobStage(0, job.extra \ {f})]
    BY <1>2, <1>7 DEF JobRefundsExtra, CreditForEvent
  <2>2. PICK r : r = job.extra \ {f}
    OBVIOUS
  <2>3. PICK a : a = fund[f].amount
    OBVIOUS
  <2>4. Owed(e, total)
    BY <1>2, <1>3, <1>5, <1>7, Zenon DEF JobKnows, JobRefundsExtra
  <2>5. a \in Int /\ AmountOf[f] = a /\ SumFunctionOnSet(AmountOf, r) = total - a
    <3>1. f \in FundRequest
      BY <1>4
    <3>2. a \in Int /\ AmountOf[f] = a
      BY <1>3, <2>3, <3>1 DEF FundsTyped, FundRow, AmountOf
    <3>3. SumFunctionOnSet(AmountOf, job.extra \ {f}) = total - AmountOf[f]
      BY <1>3, <1>4, <1>5, RowSums
    <3>4. QED
      BY <2>2, <3>2, <3>3
  <2>6. total \in Int /\ Left(e) \in Int
    BY <1>3, <1>4, <1>5, RowSums, GrantedNat DEF Sound, Left
  <2>7. /\ Left(e) - a <= SumFunctionOnSet(AmountOf, r)
        /\ AskedFor(e) <= event[e].budget => Left(e) - a = SumFunctionOnSet(AmountOf, r)
    BY <2>4, <2>5, <2>6 DEF Owed
  <2>8. /\ DOMAIN job' = JobFields /\ job'.event = e /\ job'.extra = r
        /\ job'.initial = job.initial /\ job'.list = job.list
        /\ job'.pc = IF r # {} THEN "extra" ELSE "mark"
    BY <1>1, <1>2, <2>1, <2>2 DEF JobWorks, JobFields, JobStage
  <2>9. r \subseteq Granted(e) /\ paidOut' = [paidOut EXCEPT ![e] = @ - a]
    BY <1>3, <2>1, <2>2, <2>3
  <2>10. QED
    BY <1>0, <1>1, <1>2, <1>3, <2>5, <2>7, <2>8, <2>9, JobRefundStep
<1>8. QED
  BY <1>6, <1>7

LEMMA JobReadsStatusStep ==
    ASSUME ReviewInv, JobReadsStatus
    PROVE  ReviewInv'
<1>0. /\ job.pc = "mark" /\ job' = [job EXCEPT !.prior = Status(job.event), !.pc = "set"]
      /\ UNCHANGED <<event, trail, paidOut, req, fund, fundOf>>
  BY DEF JobReadsStatus, vars, ledgerVars
<1>1. JobWorks
  BY <1>0, AtWork
<1>2. PICK e : e = job.event
  OBVIOUS
<1>3. /\ JobKnows /\ FundsTyped /\ Sound(e) /\ e \in Event
      /\ job.list[e] # NotExpired
      /\ IF Status(e) = "FUNDED" THEN Owed(e, 0) ELSE Booked(e)
  BY <1>0, <1>1, <1>2 DEF JobWorks, JobKnows, ReviewInv, TablesInv, FundsTyped
<1>4. /\ DOMAIN job' = JobFields /\ job'.event = e /\ job'.list = job.list
      /\ job'.pc = "set" /\ job'.prior = Status(e) /\ job'.initial = job.initial
  BY <1>0, <1>1, <1>2 DEF JobWorks, JobFields
<1>5. \A f \in Event : Status(f)' = Status(f) /\ Granted(f)' = Granted(f)
  BY <1>0, FundsFixed DEF Status
<1>6. \A f \in Event : Expects(f)'
  BY <1>0, <1>1, <1>4, <1>5 DEF JobWorks, Expects
<1>7. Sound(e)' /\ (Booked(e) => Booked(e)') /\ OtherEvents(e) /\ (Owed(e, 0)' <=> Owed(e, 0))
  <2>1. SameMoney(e) /\ OtherEvents(e)
    BY <1>0 DEF SameMoney, SameFunds, FundsOf, OtherEvents
  <2>2. Owed(e, 0)' <=> Owed(e, 0)
    BY <1>0, TablesSame DEF TablesKept
  <2>3. QED
    BY <1>3, <2>1, <2>2, SoundSame, BookedSame
<1>8. JobKnows'
  BY <1>0, <1>3, <1>4, <1>5, <1>7 DEF JobKnows
<1>9. /\ \A s \in Slot : req[s] = Idle
      /\ DOMAIN event' = Event /\ DOMAIN paidOut' = Event /\ DOMAIN trail' = Event
      /\ DOMAIN job'.list = Event
  BY <1>0, <1>1, <1>4 DEF JobWorks, ReviewInv, TablesInv
<1>10. QED
  BY <1>0, <1>2, <1>3, <1>4, <1>6, <1>7, <1>8, <1>9, JobMoves

LEMMA JobCancelsStep ==
    ASSUME ReviewInv, JobCancels
    PROVE  ReviewInv'
<1>0. /\ job.pc = "set" /\ SetStatus(job.event, job.prior, "CANCELLED") /\ JobMovesOn
      /\ UNCHANGED <<paidOut, req, fund, fundOf>>
  BY DEF JobCancels, ledgerVars
<1>1. JobWorks
  BY <1>0, AtWork
<1>2. PICK e : e = job.event
  OBVIOUS
<1>3. /\ JobKnows /\ Sound(e) /\ e \in Event /\ job.list[e] # NotExpired
      /\ IF Status(e) = "FUNDED" THEN Owed(e, 0) ELSE Booked(e)
      /\ job.prior = Status(e) /\ Status(e) \in AutoCancelable
      /\ DOMAIN event = Event /\ DOMAIN paidOut = Event /\ DOMAIN trail = Event
  BY <1>0, <1>1, <1>2 DEF JobWorks, JobKnows, ReviewInv, TablesInv, Expects
<1>4. /\ event' = [event EXCEPT ![e].status = "CANCELLED"]
      /\ trail' = [trail EXCEPT ![e] = [prev |-> job.prior, new |-> "CANCELLED"]]
  BY <1>0, <1>2 DEF SetStatus
<1>5. /\ DOMAIN event' = Event /\ DOMAIN trail' = Event /\ OtherEvents(e)
      /\ DOMAIN event'[e] = EventFields /\ event'[e].budget = event[e].budget
      /\ event'[e].status = "CANCELLED" /\ event'[e].actual = event[e].actual
      /\ event'[e].creator = event[e].creator /\ Status(e)' = "CANCELLED"
      /\ trail'[e].prev = job.prior
  BY <1>0, <1>3, <1>4 DEF OtherEvents, EventFields, Sound, Status
<1>6. Sound(e)'
  BY <1>0, <1>3, <1>5 DEF Sound, RowStatus, EventStatus, FundedOnce, AutoCancelable, Status
<1>7. Booked(e)'
  <2>1. trail'[e].prev = "UNDER_REVIEW" \/ Owed(e, 0)'
    <3>1. CASE Status(e) = "UNDER_REVIEW"
      BY <1>3, <1>5, <3>1
    <3>2. CASE Status(e) \in {"DRAFT", "SUBMITTED", "FUNDED"}
      <4>1. Owed(e, 0)
        <5>1. CASE Status(e) = "FUNDED"
          BY <1>3, <5>1
        <5>2. CASE Status(e) # "FUNDED"
          <6>1. paidOut[e] = 0 /\ FundsOf(e) = {}
            BY <1>3, <3>2, <5>2 DEF Booked, Sound, Unfunded, FundedOnce
          <6>2. QED
            BY <6>1, NothingAsked DEF Owed, Left
        <5>3. QED
          BY <5>1, <5>2
      <4>2. AskedFor(e)' = AskedFor(e) /\ GrantedAmount(e)' = GrantedAmount(e)
        BY <1>0, FundsFixed
      <4>3. QED
        BY <1>0, <1>5, <4>1, <4>2 DEF Owed, Left
    <3>3. QED
      BY <1>3, <3>1, <3>2 DEF Sound, AutoCancelable
  <2>2. QED
    BY <1>5, <2>1 DEF Booked, Unfunded
<1>8. PICK list : list = [job.list EXCEPT ![e] = NotExpired]
  OBVIOUS
<1>9. job' = IdleJob \/ job' = [IdleJob EXCEPT !.pc = "next", !.list = list]
  BY <1>0, <1>2, <1>8 DEF JobMovesOn
<1>10. CASE job' = IdleJob
  BY <1>0, <1>1, <1>2, <1>3, <1>5, <1>6, <1>7, <1>10, JobMoves DEF JobWorks
<1>11. CASE job' = [IdleJob EXCEPT !.pc = "next", !.list = list]
  <2>1. /\ DOMAIN job' = JobFields /\ job'.event = NoEvent /\ job'.pc = "next" /\ job'.list = list
    BY <1>11 DEF IdleJob, JobFields
  <2>2. /\ DOMAIN list = Event /\ list[e] = NotExpired
        /\ \A f \in Event \ {e} : list[f] = job.list[f]
    BY <1>1, <1>3, <1>8 DEF JobWorks
  <2>3. \A f \in Event \ {e} : Status(f)' = Status(f) /\ event'[f] = event[f]
    BY <1>5 DEF OtherEvents, Status
  <2>4. \A f \in Event : Granted(f)' = Granted(f)
    BY <1>0, FundsFixed
  <2>5. \A f \in Event : Expects(f)'
    BY <1>1, <2>1, <2>2, <2>3, <2>4 DEF JobWorks, Expects
  <2>6. DOMAIN job'.list = Event /\ DOMAIN paidOut' = Event /\ \A s \in Slot : req[s] = Idle
    BY <1>0, <1>1, <1>3, <2>1, <2>2 DEF JobWorks
  <2>7. QED
    BY <1>0, <1>2, <1>3, <1>5, <1>6, <1>7, <2>1, <2>5, <2>6, JobMoves
<1>12. QED
  BY <1>9, <1>10, <1>11

\* The job's events are there: they were when its query returned, and nobody else works.
LEMMA JobFindsEvent ==
    ASSUME ReviewInv
    PROVE  ~JobFailsOnDeleted
<1> SUFFICES ASSUME JobFailsOnDeleted PROVE FALSE
  OBVIOUS
<1>1. job.event # NoEvent /\ Deleted(job.event)
  BY DEF JobFailsOnDeleted
<1>2. JobWorks /\ JobKnows
  BY <1>1 DEF ReviewInv, JobInv, IdleJob, JobWorks, JobFields
<1>3. Expects(job.event) /\ job.list[job.event] # NotExpired
  BY <1>2 DEF JobWorks, JobKnows
<1>4. QED
  BY <1>1, <1>3 DEF Expects, Deleted, AutoCancelable

-----------------------------------------------------------------------------
(* The invariant *)

LEMMA ReviewInitially == FundingInit => ReviewInv
<1> SUFFICES ASSUME FundingInit PROVE ReviewInv
  OBVIOUS
<1>1. PICK row : row = [status |-> "ABSENT", event |-> NoEvent, from |-> CHOOSE g \in Group : TRUE,
                        amount |-> 0, approved |-> 0]
  OBVIOUS
<1>2. row \in FundRow /\ row.status = "ABSENT" /\ row.event = NoEvent
  <2>1. Group # {}
    BY FundingAssumption, Zenon
  <2>2. (CHOOSE g \in Group : TRUE) \in Group
    BY <2>1
  <2>3. QED
    BY <1>1, <2>2 DEF FundRow
<1>3. fund = [f \in FundRequest |-> row]
  BY <1>1 DEF FundingInit
<1>4. /\ DOMAIN event = Event /\ DOMAIN paidOut = Event /\ DOMAIN trail = Event
      /\ DOMAIN req = Slot /\ DOMAIN fundOf = Slot /\ job = IdleJob
      /\ \A s \in Slot : req[s] = Idle
  BY DEF FundingInit, Init, LedgerInit
<1>5. ASSUME NEW e \in Event PROVE Sound(e) /\ Booked(e)
  <2>1. /\ DOMAIN event[e] = EventFields /\ Status(e) = "ABSENT"
        /\ event[e].budget = 0 /\ event[e].actual = 0 /\ paidOut[e] = 0
    BY DEF FundingInit, Init, LedgerInit, EventFields, Status
  <2>2. FundsOf(e) = {}
    BY <1>2, <1>3, LifecycleAssumption DEF FundsOf
  <2>3. QED
    BY <2>1, <2>2 DEF Sound, Booked, RowStatus, Unfunded
<1>6. TablesInv
  BY <1>2, <1>3, <1>4, <1>5 DEF TablesInv
<1>7. QED
  BY <1>4, <1>5, <1>6 DEF ReviewInv, JobInv

LEMMA ReviewStep ==
    ASSUME FundOp \subseteq {"askfund", "review"}, ~Overlap,
           ReviewInv, OneByOne, OneByOne', NobodyDies, NobodyDies', [FundingNext]_allVars
    PROVE  ReviewInv'
<1>1. Apart => job = IdleJob
  BY DEF Apart, ReviewInv, JobInv, JobKnows
<1>2. CASE Apart /\ Next /\ Composed
  BY <1>1, <1>2, LifecycleStep
<1>3. CASE Apart /\ \E s \in Slot : FundBegin(s) \/ FundContinue(s)
  BY <1>1, <1>3, FundHandlerStep
<1>4. ~ \E u \in User, e \in Event \cup {NoEvent}, a \in FundAmount : CreateRequest(u, e, a)
  BY DEF CreateRequest
<1>5. CASE JobStep
  BY <1>5, JobStartsStep, JobPicksStep, JobRefundsStep, JobReadsStatusStep, JobCancelsStep,
     JobFindsEvent DEF JobStep
<1>6. ~JobAborts
  BY DEF JobAborts, NobodyDies
<1>7. CASE UNCHANGED allVars
  BY <1>7, StutterStep
<1>8. QED
  BY <1>2, <1>3, <1>4, <1>5, <1>6, <1>7 DEF FundingNext

LEMMA AtRestBooked ==
    ASSUME ReviewInv, NEW e \in Event, AtRest(e)
    PROVE  Booked(e) /\ Sound(e)
<1>1. job = IdleJob
  BY DEF AtRest, ReviewInv, JobInv, JobKnows
<1>2. Alone(e)
  BY <1>1, LifecycleAssumption DEF AtRest, Quiet, Alone, IdleJob
<1>3. QED
  BY <1>2 DEF ReviewInv, TablesInv

LEMMA ReviewHolds ==
    ASSUME FundOp \subseteq {"askfund", "review"}, ~Overlap
    PROVE  FundingSpec /\ []OneByOne /\ []NobodyDies => []ReviewInv
<1>1. FundingInit => ReviewInv
  BY ReviewInitially
<1>2. ReviewInv /\ OneByOne /\ OneByOne' /\ NobodyDies /\ NobodyDies' /\ [FundingNext]_allVars
      => ReviewInv'
  BY ReviewStep
<1>3. QED
  BY <1>1, <1>2, PTL DEF FundingSpec

(***************************************************************************)
(* The budget of a funded event that nobody works on is what was paid out   *)
(* for it and what its parent group granted, for any organization and any   *)
(* number of events, requests and handlers -- as long as no two handlers    *)
(* work on one event at a time, none dies half-way, the job runs alone, and *)
(* what is asked for more is answered by the review endpoint.               *)
(***************************************************************************)
THEOREM BudgetStaysCovered ==
    ASSUME FundOp \subseteq {"askfund", "review"}, ~Overlap
    PROVE  FundingSpec /\ []OneByOne /\ []NobodyDies => []BudgetIsCovered
<1>1. ReviewInv => BudgetIsCovered
  BY AtRestBooked DEF BudgetIsCovered, Booked, Even
<1>2. QED
  BY <1>1, ReviewHolds, PTL

(***************************************************************************)
(* Under the same conditions an event under review has one pending request, *)
(* which somebody can answer if every parent group has a treasurer.         *)
(***************************************************************************)
THEOREM ReviewsAreAnswerable ==
    ASSUME FundOp \subseteq {"askfund", "review"}, ~Overlap, ParentsHaveTreasurer
    PROVE  FundingSpec /\ []OneByOne /\ []NobodyDies => []UnderReviewIsAnswerable
<1>1. ReviewInv => UnderReviewIsAnswerable
  <2> SUFFICES ASSUME ReviewInv, NEW e \in Event, AtRest(e), Status(e) = "UNDER_REVIEW"
               PROVE  /\ Cardinality(PendingFunds(e)) = 1
                      /\ \A f \in PendingFunds(e) : HoldersOf("TREASURER", Target(f)) # {}
    BY DEF UnderReviewIsAnswerable
  <2>1. PICK f \in FundRequest : PendingFunds(e) = {f}
    BY AtRestBooked DEF Booked
  <2>2. Cardinality(PendingFunds(e)) = 1
    BY <2>1, FS_Singleton
  <2>3. ParentOf[fund[f].from] # NoGroup /\ fund[f].from \in Group
    <3>1. fund[f].status = "PENDING" /\ fund[f] \in FundRow
      BY <2>1 DEF PendingFunds, ReviewInv, TablesInv
    <3>2. QED
      BY <3>1 DEF ReviewInv, TablesInv, FundRow
  <2>4. HoldersOf("TREASURER", Target(f)) # {}
    BY <2>3 DEF ParentsHaveTreasurer, Target
  <2>5. QED
    BY <2>1, <2>2, <2>4
<1>2. QED
  BY <1>1, ReviewHolds, PTL

(***************************************************************************)
(* Under the same conditions all the money that went out for an event comes *)
(* back when it is cancelled, by its creator or by the job, and once, save  *)
(* in the cases the property names.                                         *)
(***************************************************************************)
THEOREM CancellationReturnsMoney ==
    ASSUME FundOp \subseteq {"askfund", "review"}, ~Overlap
    PROVE  FundingSpec /\ []OneByOne /\ []NobodyDies => []CancelledReturnsMoney
<1>1. ReviewInv => CancelledReturnsMoney
  BY AtRestBooked DEF CancelledReturnsMoney, Booked, Owed
<1>2. QED
  BY <1>1, ReviewHolds, PTL

(***************************************************************************)
(* Under the same conditions what the event's page calls returned after the *)
(* report is what the wallets booked as returned, up to the rounding that   *)
(* a report accepts, if no report says that less than nothing is left.      *)
(***************************************************************************)
THEOREM FinalReportsAreTrue ==
    ASSUME FundOp \subseteq {"askfund", "review"}, ~Overlap, NothingMissing
    PROVE  FundingSpec /\ []OneByOne /\ []NobodyDies => []FinalReportIsTrue
<1>1. ReviewInv => FinalReportIsTrue
  <2> SUFFICES ASSUME ReviewInv, NEW e \in Event, Still(e), Status(e) \in {"COMPLETED", "SETTLED"}
               PROVE  ReturnedShown(e) - (event[e].budget - GrantedAmount(e) - paidOut[e])
                        \in -Tolerance..Tolerance
    BY DEF FinalReportIsTrue
  <2>1. /\ Reported(e, 0) /\ event[e].budget \in Nat /\ event[e].actual \in Nat
        /\ paidOut[e] \in Int
    BY AtRestBooked DEF Still, Booked, Sound
  <2>2. GrantedAmount(e) \in Nat /\ Tolerance \in Nat
    BY GrantedNat, LifecycleAssumption DEF ReviewInv, TablesInv, FundsTyped
  <2>3. QED
    BY <2>1, <2>2 DEF Reported, ReturnedShown
<1>2. QED
  BY <1>1, ReviewHolds, PTL

-----------------------------------------------------------------------------
(* The phases of an event and the money behind them *)

Passes(e, from, to) == Status(e) \in from /\ Status(e)' = to

\* What a step does to its event, seen from EventFlow.
MovesBy(e, held, then) ==
    \/ /\ then = held
       /\ \/ Status(e)' = Status(e)
          \/ Passes(e, {"ABSENT"}, "DRAFT") \/ Passes(e, {"DRAFT"}, "DELETED")
          \/ Passes(e, {"DRAFT", "REJECTED"}, "SUBMITTED") \/ Passes(e, {"SUBMITTED"}, "REJECTED")
          \/ Passes(e, {"FUNDED"}, "UNDER_REVIEW") \/ Passes(e, {"UNDER_REVIEW"}, "FUNDED")
          \/ Passes(e, {"ONGOING"}, "COMPLETED") \/ Passes(e, {"COMPLETED"}, "SETTLED")
          \/ Passes(e, {"UNDER_REVIEW"}, "CANCELLED")
    \/ Passes(e, {"SUBMITTED"}, "FUNDED") /\ held = 0 /\ then >= 0
    \/ Passes(e, {"FUNDED"}, "ONGOING") /\ then <= held
    \/ /\ Passes(e, {"DRAFT", "SUBMITTED", "REJECTED", "FUNDED", "ONGOING"}, "CANCELLED")
       /\ then <= 0

FlowStays(e) == \A f \in Event \ {e} : Status(f)' = Status(f) /\ Held'[f] = Held[f]

LEMMA FlowTaken ==
    ASSUME NEW e \in Event, FlowStays(e), MovesBy(e, Held[e], Held'[e])
    PROVE  [Flow!FlowNext]_(Flow!flowVars)
<1>1. PICK phase : phase = [f \in Event |-> Status(f)]
  OBVIOUS
<1>2. PICK next : next = [f \in Event |-> Status(f)']
  OBVIOUS
<1>3. PICK held : held = Held
  OBVIOUS
<1>4. PICK then : then = Held'
  OBVIOUS
<1>5. DOMAIN held = Event /\ held = [f \in Event |-> held[f]]
      /\ DOMAIN then = Event /\ then = [f \in Event |-> then[f]]
  BY <1>3, <1>4 DEF Held
<1>6. \A f \in Event \ {e} : next[f] = phase[f] /\ then[f] = held[f]
  BY <1>1, <1>2, <1>3, <1>4 DEF FlowStays
<1>7. next = [phase EXCEPT ![e] = next[e]] /\ then = [held EXCEPT ![e] = then[e]]
  BY <1>1, <1>2, <1>5, <1>6
<1>8. /\ phase[e] = Status(e) /\ next[e] = Status(e)'
      /\ (next[e] = phase[e] => next = phase) /\ (then[e] = held[e] => then = held)
  BY <1>1, <1>2, <1>5, <1>6, <1>7
<1>9. ASSUME NEW from, NEW to, Passes(e, from, to) PROVE Flow!Moves(e, from, to)
  BY <1>1, <1>2, <1>7, <1>8, <1>9 DEF Flow!Moves, Passes
<1>10. QED
  BY <1>1, <1>2, <1>3, <1>4, <1>7, <1>8, <1>9
     DEF MovesBy, Flow!FlowNext, Flow!flowVars, Flow!Draft, Flow!Fund, Flow!Review, Flow!Report,
         Flow!Close, Flow!Cancel, Flow!Abandon

\* What the handlers have moved of e's money ahead of its status, or still owe after it.
Carried(e) == SumFunction([s \in Slot |-> InTransit(s, e)])

LEMMA HeldIs ==
    ASSUME NEW e \in Event
    PROVE  /\ Held[e] = paidOut[e] + ReturnedByJob(e) + Carried(e)
           /\ Held'[e] = paidOut'[e] + ReturnedByJob(e)' + Carried(e)'
  BY DEF Held, Carried

LEMMA SlotsSum ==
    ASSUME IsFiniteSet(Slot), NEW g, g = [t \in Slot |-> g[t]]
    PROVE  /\ (\A t \in Slot : g[t] = 0) => SumFunction(g) = 0
           /\ \A s \in Slot : g[s] \in Int /\ (\A t \in Slot \ {s} : g[t] = 0) => SumFunction(g) = g[s]
<1>1. SumFunction(g) = Sum(g, Slot)
  BY DEF SumFunction, Sum
<1>2. ASSUME NEW S \in SUBSET Slot, \A t \in S : g[t] = 0 PROVE Sum(g, S) = 0
  <2> DEFINE zero == [t \in Slot |-> 0]
  <2>1. IsFiniteSet(S)
    BY FS_Subset
  <2>2. Sum(zero, S) = 0 * Cardinality(S)
    BY <2>1, SumOfConstant
  <2>3. Sum(g, S) = Sum(zero, S)
    BY <1>2, <2>1, SumSame
  <2>4. Cardinality(S) \in Nat
    BY <2>1, FS_CardinalityType
  <2>5. QED
    BY <2>2, <2>3, <2>4
<1>3. ASSUME NEW s \in Slot, g[s] \in Int, \A t \in Slot \ {s} : g[t] = 0
      PROVE  Sum(g, Slot) = g[s]
  <2>1. Sum(g, Slot \ {s}) = 0
    BY <1>2, <1>3
  <2>2. \A t \in Slot : g[t] \in Int
    BY <1>3
  <2>3. Sum(g, Slot) = g[s] + Sum(g, Slot \ {s})
    BY <2>2, SumRemove
  <2>4. QED
    BY <1>3, <2>1, <2>3
<1>4. QED
  BY <1>1, <1>2, <1>3

\* What a handler has moved ahead of the status, or owes after it.
Owes(r) ==
    IF r.op = "approve" /\ r.pc = "commit" THEN -r.budget
    ELSE IF r.op = "cancel" /\ r.pc \in {"mark", "set"} THEN r.amount
    ELSE IF r.op = "expense" /\ r.pc = "refund" THEN -r.amount
    ELSE 0

LEMMA TransitIs ==
    ASSUME NEW s, NEW e \in Event
    PROVE  /\ InTransit(s, e) = IF Ev(s) = e THEN Owes(req[s]) ELSE 0
           /\ InTransit(s, e)' = IF Ev(s)' = e THEN Owes(req'[s]) ELSE 0
           /\ req[s] = Idle => InTransit(s, e) = 0
           /\ req'[s] = Idle => InTransit(s, e)' = 0
<1>1. Idle.event # e
  BY LifecycleAssumption DEF Idle
<1>2. QED
  BY <1>1 DEF InTransit, Owes, At, Ev

LEMMA OwnFlow ==
    ASSUME IsFiniteSet(Slot), job = IdleJob, job' = job, NEW s \in Slot, NEW e \in Event,
           OtherSlots(s, e), OtherEvents(e), paidOut[e] \in Int, paidOut'[e] \in Int,
           NEW a \in Int, a = InTransit(s, e), NEW b \in Int, b = InTransit(s, e)',
           req[s] = Idle \/ Ev(s) = e, req'[s] = Idle \/ Ev(s)' = e,
           MovesBy(e, paidOut[e] + a, paidOut'[e] + b)
    PROVE  [Flow!FlowNext]_(Flow!flowVars)
<1>1. \A f \in Event : ReturnedByJob(f) = 0 /\ ReturnedByJob(f)' = 0
  BY LifecycleAssumption DEF ReturnedByJob, IdleJob
<1>2. ASSUME NEW f \in Event \ {e}, NEW t \in Slot PROVE InTransit(t, f)' = InTransit(t, f)
  <2>1. CASE t = s
    BY <1>2, <2>1, TransitIs
  <2>2. CASE t # s
    <3>1. req'[t] = req[t]
      BY <2>2 DEF OtherSlots
    <3>2. QED
      BY <3>1, TransitIs DEF Ev
  <2>3. QED
    BY <2>1, <2>2
<1>3. ASSUME NEW f \in Event \ {e} PROVE Status(f)' = Status(f) /\ Held'[f] = Held[f]
  <2>1. Carried(f)' = Carried(f)
    BY <1>2 DEF Carried
  <2>2. event'[f] = event[f] /\ paidOut'[f] = paidOut[f]
    BY DEF OtherEvents
  <2>3. QED
    BY <1>1, <2>1, <2>2, HeldIs DEF Status
<1>4. ASSUME NEW t \in Slot \ {s} PROVE InTransit(t, e) = 0 /\ InTransit(t, e)' = 0
  <2>1. CASE req[t] = Idle /\ req'[t] = Idle
    BY <2>1, TransitIs
  <2>2. CASE req[t] # Idle \/ req'[t] # Idle
    <3>1. req'[t] = req[t] /\ Ev(t) # e
      BY <2>2 DEF OtherSlots
    <3>2. QED
      BY <3>1, TransitIs DEF Ev
  <2>3. QED
    BY <2>1, <2>2
<1>5. Carried(e) = a
  <2>1. PICK g : g = [t \in Slot |-> InTransit(t, e)]
    OBVIOUS
  <2>2. /\ g = [t \in Slot |-> g[t]] /\ g[s] = a
        /\ \A t \in Slot \ {s} : g[t] = 0
    BY <1>4, <2>1
  <2>3. SumFunction(g) = g[s]
    BY <2>2, SlotsSum
  <2>4. QED
    BY <2>1, <2>2, <2>3 DEF Carried
<1>6. Carried(e)' = b
  <2>1. PICK g : g = [t \in Slot |-> InTransit(t, e)']
    OBVIOUS
  <2>2. /\ g = [t \in Slot |-> g[t]] /\ g[s] = b
        /\ \A t \in Slot \ {s} : g[t] = 0
    BY <1>4, <2>1
  <2>3. SumFunction(g) = g[s]
    BY <2>2, SlotsSum
  <2>4. QED
    BY <2>1, <2>2, <2>3 DEF Carried
<1>7. Held[e] = paidOut[e] + a /\ Held'[e] = paidOut'[e] + b
  BY <1>1, <1>5, <1>6, HeldIs
<1>8. QED
  BY <1>3, <1>7, FlowTaken DEF FlowStays

-----------------------------------------------------------------------------
(* The handlers' steps, as steps of EventFlow *)

FlowMoves == [Flow!FlowNext]_(Flow!flowVars)

LEMMA OwesNothing ==
    ASSUME NEW r, r.op \notin {"approve", "cancel", "expense"}
    PROVE  Owes(r) = 0
  BY DEF Owes

LEMMA OwesNumber ==
    ASSUME NEW s \in Slot, NEW e, GoesOn(s, e)
    PROVE  Owes(req[s]) \in Int
<1>1. Informed(s) /\ Ev(s) = e /\ event[e].budget \in Nat
  BY DEF GoesOn, Sound
<1>2. req[s].op = "approve" => req[s].budget \in Nat
  BY <1>1, OpTells DEF ApprovesEvent
<1>3. req[s].op = "cancel" /\ req[s].pc \in {"mark", "set"} => req[s].amount \in Int
  BY <1>1, OpTells DEF CancelsEvent
<1>4. req[s].op = "expense" => req[s].amount \in Int
  BY <1>1, OpTells DEF ReportsEvent
<1>5. CASE req[s].op = "approve"
  BY <1>2, <1>5 DEF Owes
<1>6. CASE req[s].op = "cancel"
  BY <1>3, <1>6 DEF Owes
<1>7. CASE req[s].op = "expense"
  BY <1>4, <1>7 DEF Owes
<1>8. QED
  BY <1>5, <1>6, <1>7, OwesNothing

LEMMA GoesFlow ==
    ASSUME IsFiniteSet(Slot), NEW s \in Slot, NEW e, GoesOn(s, e), NEW n, Leaves(s, e, n),
           n = Idle \/ n.event = e, OtherEvents(e), paidOut'[e] \in Int, Owes(n) \in Int,
           MovesBy(e, paidOut[e] + Owes(req[s]), paidOut'[e] + Owes(n))
    PROVE  FlowMoves
<1>1. /\ e \in Event /\ Ev(s) = e /\ paidOut[e] \in Int /\ job = IdleJob /\ job' = job
      /\ OtherSlots(s, e) /\ req'[s] = n /\ Owes(req[s]) \in Int
  BY OwesNumber DEF GoesOn, Sound, Leaves
<1>2. InTransit(s, e) = Owes(req[s])
  BY <1>1, TransitIs
<1>3. InTransit(s, e)' = Owes(n)
  <2>1. CASE n = Idle
    <3>1. Owes(n) = 0
      BY <2>1, OwesNothing DEF Idle
    <3>2. QED
      BY <1>1, <2>1, <3>1, TransitIs
  <2>2. CASE n.event = e
    <3>1. Ev(s)' = e
      BY <1>1, <2>2 DEF Ev
    <3>2. QED
      BY <1>1, <3>1, TransitIs
  <2>3. QED
    BY <2>1, <2>2
<1>4. req'[s] = Idle \/ Ev(s)' = e
  BY <1>1 DEF Ev
<1>5. QED
  BY <1>1, <1>2, <1>3, <1>4, OwnFlow DEF FlowMoves

\* Neither the status nor the money of the event changes.
LEMMA QuietFlow ==
    ASSUME IsFiniteSet(Slot), NEW s \in Slot, NEW e, GoesOn(s, e), NEW n, Leaves(s, e, n),
           n = Idle \/ n.event = e, OtherEvents(e), paidOut'[e] = paidOut[e],
           Status(e)' = Status(e), Owes(n) = Owes(req[s])
    PROVE  FlowMoves
<1>1. Owes(req[s]) \in Int /\ paidOut[e] \in Int
  BY OwesNumber DEF GoesOn, Sound
<1>2. MovesBy(e, paidOut[e] + Owes(req[s]), paidOut'[e] + Owes(n))
  BY DEF MovesBy
<1>3. QED
  BY <1>1, <1>2, GoesFlow

\* A handler that moves no money writes the row of its event.
LEMMA PlainFlow ==
    ASSUME IsFiniteSet(Slot), NEW s \in Slot, NEW e, GoesOn(s, e), NEW n, Leaves(s, e, n),
           n = Idle \/ (n.event = e /\ n.op = req[s].op),
           req[s].op \notin {"approve", "cancel", "expense"}, OtherEvents(e),
           paidOut' = paidOut, MovesBy(e, paidOut[e], paidOut[e])
    PROVE  FlowMoves
<1>1. Owes(req[s]) = 0 /\ Owes(n) = 0
  BY OwesNothing DEF Idle
<1>2. paidOut[e] \in Int /\ paidOut[e] + 0 = paidOut[e]
  BY DEF GoesOn, Sound
<1>3. QED
  BY <1>1, <1>2, GoesFlow

LEMMA EditFlow ==
    ASSUME IsFiniteSet(Slot), NEW s \in Slot, NEW e, GoesOn(s, e), NEW late \in BOOLEAN,
           WriteUpdate(s, late) \/ WriteExtend(s, late)
    PROVE  FlowMoves
<1>1. /\ Ev(s) = e /\ paidOut' = paidOut /\ trail' = trail /\ req[s].op \in {"update", "extend"}
      /\ \/ event' = [event EXCEPT ![e].ended = late]
         \/ event' = [event EXCEPT ![e].budget = req[s].budget, ![e].ended = late]
      /\ Finish(s) \/ Goto(s, "mark")
  BY DEF WriteUpdate, WriteExtend, At, GoesOn, ledgerVars
<1>2. OtherEvents(e) /\ Status(e)' = Status(e)
  <2>1. DOMAIN event = Event /\ DOMAIN event[e] = EventFields /\ e \in Event
    BY DEF GoesOn, Sound, ReviewInv, TablesInv
  <2>2. CASE event' = [event EXCEPT ![e].ended = late]
    BY <1>1, <2>1, <2>2 DEF OtherEvents, Status, EventFields
  <2>3. CASE event' = [event EXCEPT ![e].budget = req[s].budget, ![e].ended = late]
    BY <1>1, <2>1, <2>3 DEF OtherEvents, Status, EventFields
  <2>4. QED
    BY <1>1, <2>2, <2>3
<1>3. PICK n : Leaves(s, e, n) /\ (n = Idle \/ (n.event = e /\ n.op = req[s].op))
  BY <1>1, FinishLeaves, GotoLeaves
<1>4. MovesBy(e, paidOut[e], paidOut[e])
  BY <1>2 DEF MovesBy
<1>5. QED
  BY <1>1, <1>2, <1>3, <1>4, PlainFlow

LEMMA DeleteFlow ==
    ASSUME IsFiniteSet(Slot), NEW s \in Slot, NEW e, GoesOn(s, e), WriteDelete(s)
    PROVE  FlowMoves
<1>1. /\ Ev(s) = e /\ paidOut' = paidOut /\ trail' = trail /\ req[s].op = "delete"
      /\ event' = [event EXCEPT ![e].status = "DELETED"] /\ ForgetRows(s, e, Idle)
  BY DEF WriteDelete, At, GoesOn, ledgerVars
<1>2. DOMAIN event = Event /\ DOMAIN event[e] = EventFields /\ e \in Event
  BY DEF GoesOn, Sound, ReviewInv, TablesInv
<1>3. OtherEvents(e) /\ Status(e)' = "DELETED"
  BY <1>1, <1>2 DEF OtherEvents, Status, EventFields
<1>4. Status(e) = "DRAFT"
  BY <1>1, OpTells DEF EditsEvent, GoesOn
<1>5. Leaves(s, e, Idle)
  BY <1>1, ForgetLeaves DEF GoesOn
<1>6. MovesBy(e, paidOut[e], paidOut[e])
  BY <1>3, <1>4 DEF MovesBy, Passes
<1>7. QED
  BY <1>1, <1>3, <1>5, <1>6, PlainFlow

LEMMA LockFlow ==
    ASSUME IsFiniteSet(Slot), NEW s \in Slot, NEW e, GoesOn(s, e), LockEvent(s)
    PROVE  FlowMoves
<1>1. /\ Ev(s) = e /\ event' = event /\ trail' = trail /\ paidOut' = paidOut
      /\ req[s].op = "delete" /\ Goto(s, "cascade")
  BY DEF LockEvent, At, GoesOn, eventVars, ledgerVars
<1>2. OtherEvents(e) /\ Status(e)' = Status(e)
  BY <1>1 DEF OtherEvents, Status
<1>3. MovesBy(e, paidOut[e], paidOut[e])
  BY <1>2 DEF MovesBy
<1>4. PICK n : Leaves(s, e, n) /\ n.event = e /\ n.op = req[s].op
  BY <1>1, GotoLeaves
<1>5. QED
  BY <1>1, <1>2, <1>3, <1>4, PlainFlow

LEMMA SubmitFlow ==
    ASSUME IsFiniteSet(Slot), NEW s \in Slot, NEW e, GoesOn(s, e),
           ReadWorkflow(s) \/ ClearApprovals(s) \/ InsertApproval(s)
    PROVE  FlowMoves
<1>0. /\ TablesKept \/ (event' = event /\ trail' = trail /\ paidOut' = paidOut)
      /\ req[s].op = "submit" /\ Ev(s) = e
  BY DEF ReadWorkflow, ClearApprovals, InsertApproval, At, eventVars, ledgerVars, GoesOn
<1>1. /\ event' = event /\ trail' = trail /\ paidOut' = paidOut
  BY <1>0 DEF TablesKept
<1>2. OtherEvents(e) /\ Status(e)' = Status(e)
  BY <1>1 DEF OtherEvents, Status
<1>3. MovesBy(e, paidOut[e], paidOut[e])
  BY <1>2 DEF MovesBy
<1>4. ASSUME NEW n, Leaves(s, e, n), n = Idle \/ (n.event = e /\ n.op = req[s].op)
      PROVE  FlowMoves
  BY <1>0, <1>1, <1>2, <1>3, <1>4, PlainFlow
<1>5. DOMAIN req[s] = HandlerFields /\ req[s].event = e
  BY DEF GoesOn, Informed, Ev
<1>6. CASE Finish(s)
  BY <1>4, <1>6, FinishLeaves
<1>7. ASSUME NEW w, NEW pc, req' = [req EXCEPT ![s].rows = w, ![s].pc = pc] PROVE FlowMoves
  <2>1. PICK n : n = [req[s] EXCEPT !.rows = w, !.pc = pc]
    OBVIOUS
  <2>2. req' = [req EXCEPT ![s] = n]
    BY <1>7, <2>1
  <2>3. n.op = req[s].op /\ n.event = e
    BY <1>5, <2>1 DEF HandlerFields
  <2>4. Leaves(s, e, n)
    BY <2>2, SetLeaves DEF GoesOn
  <2>5. QED
    BY <1>4, <2>3, <2>4
<1>8. CASE ClearApprovals(s)
  <2>1. PICK n : n = [req[s] EXCEPT !.pc = "insert"]
    OBVIOUS
  <2>2. ForgetRows(s, Ev(s), n)
    BY <1>8, <2>1 DEF ClearApprovals
  <2>3. n.op = req[s].op /\ n.event = e
    BY <1>5, <2>1 DEF HandlerFields
  <2>4. Leaves(s, e, n)
    BY <2>2, ForgetLeaves DEF GoesOn
  <2>5. QED
    BY <1>4, <2>3, <2>4
<1>9. CASE ReadWorkflow(s)
  BY <1>6, <1>7, <1>9 DEF ReadWorkflow
<1>10. CASE InsertApproval(s)
  <2>1. PICK rest, pc : Finish(s) \/ req' = [req EXCEPT ![s].rows = rest, ![s].pc = pc]
    BY <1>10 DEF InsertApproval
  <2>2. QED
    BY <1>6, <1>7, <2>1
<1>11. QED
  BY <1>8, <1>9, <1>10

\* Asking for more and answering: wallets of groups change, what was paid out does not.
LEMMA FundsFlow ==
    ASSUME IsFiniteSet(Slot), NEW s \in Slot, NEW e, GoesOn(s, e),
           CheckPending(s) \/ CreateFund(s) \/ FindFund(s) \/ CheckTransfer(s) \/ Transfer(s)
           \/ MarkApproved(s) \/ RaiseBudget(s) \/ Refuse(s)
    PROVE  FlowMoves
<1>0. /\ req[s].op \in {"askfund", "review"} /\ Ev(s) = e
      /\ paidOut' = paidOut /\ trail' = trail
      /\ event' = event \/ event' = [event EXCEPT ![e].budget = req[s].budget + req[s].amount]
  BY DEF CheckPending, CreateFund, FindFund, CheckTransfer, Transfer, MarkApproved, RaiseBudget,
         Refuse, At, GoesOn, ledgerVars, eventVars, TransferBetween
<1>1. OtherEvents(e) /\ Status(e)' = Status(e)
  <2>1. CASE event' = event
    BY <1>0, <2>1 DEF OtherEvents, Status
  <2>2. CASE event' = [event EXCEPT ![e].budget = req[s].budget + req[s].amount]
    <3>1. DOMAIN event = Event /\ DOMAIN event[e] = EventFields /\ e \in Event
      BY DEF GoesOn, Sound, ReviewInv, TablesInv
    <3>2. QED
      BY <1>0, <2>2, <3>1 DEF OtherEvents, Status, EventFields
  <2>3. QED
    BY <1>0, <2>1, <2>2
<1>2. DOMAIN req[s] = HandlerFields /\ req[s].event = e
  BY DEF GoesOn, Informed, Ev
<1>3. \/ Finish(s) \/ \E pc : Goto(s, pc)
      \/ \E pc, a : req' = [req EXCEPT ![s] = [req[s] EXCEPT !.pc = pc, !.amount = a]]
  <2>1. CASE FindFund(s)
    <3>1. PICK pc : pc = IF req[s].verdict = "APPROVED" THEN "checkTransfer" ELSE "refuse"
      OBVIOUS
    <3>2. CASE Finish(s)
      BY <3>2
    <3>3. ASSUME NEW f, StartFund(s, [req[s] EXCEPT
                    !.pc = IF req[s].verdict = "APPROVED" THEN "checkTransfer" ELSE "refuse",
                    !.amount = IF @ = 0 THEN fund[f].amount ELSE @], f)
          PROVE  \E c, a : req' = [req EXCEPT ![s] = [req[s] EXCEPT !.pc = c, !.amount = a]]
      <4>1. PICK a : a = IF req[s].amount = 0 THEN fund[f].amount ELSE req[s].amount
        OBVIOUS
      <4>2. req' = [req EXCEPT ![s] = [req[s] EXCEPT !.pc = pc, !.amount = a]]
        BY <3>1, <3>3, <4>1 DEF StartFund, Start
      <4>3. QED
        BY <4>2
    <3>4. Finish(s) \/ \E f : StartFund(s, [req[s] EXCEPT
                    !.pc = IF req[s].verdict = "APPROVED" THEN "checkTransfer" ELSE "refuse",
                    !.amount = IF @ = 0 THEN fund[f].amount ELSE @], f)
      BY <2>1, Zenon DEF FindFund
    <3>5. QED
      BY <3>2, <3>3, <3>4
  <2>2. CASE CheckPending(s) \/ CreateFund(s) \/ CheckTransfer(s) \/ Transfer(s)
             \/ MarkApproved(s) \/ RaiseBudget(s) \/ Refuse(s)
    BY <2>2, Zenon DEF CheckPending, CreateFund, CheckTransfer, Transfer, MarkApproved, RaiseBudget,
         Refuse, FinishFund, Finish
  <2>3. QED
    BY <2>1, <2>2
<1>4. PICK n : Leaves(s, e, n) /\ (n = Idle \/ (n.event = e /\ n.op = req[s].op))
  <2>1. CASE Finish(s) \/ \E pc : Goto(s, pc)
    BY <2>1, FinishLeaves, GotoLeaves
  <2>2. ASSUME NEW pc, NEW a,
               req' = [req EXCEPT ![s] = [req[s] EXCEPT !.pc = pc, !.amount = a]]
        PROVE  \E n : Leaves(s, e, n) /\ n.event = e /\ n.op = req[s].op
    <3>1. PICK n : n = [req[s] EXCEPT !.pc = pc, !.amount = a]
      OBVIOUS
    <3>2. n.op = req[s].op /\ n.event = e
      BY <1>2, <3>1 DEF HandlerFields
    <3>3. Leaves(s, e, n)
      BY <2>2, <3>1, SetLeaves DEF GoesOn
    <3>4. QED
      BY <3>2, <3>3
  <2>3. QED
    BY <1>3, <2>1, <2>2
<1>5. MovesBy(e, paidOut[e], paidOut[e])
  BY <1>1 DEF MovesBy
<1>6. QED
  BY <1>0, <1>1, <1>4, <1>5, PlainFlow

LEMMA MarkFlow ==
    ASSUME IsFiniteSet(Slot), NEW s \in Slot, NEW e, GoesOn(s, e), ReadForHistory(s)
    PROVE  FlowMoves
<1>0. /\ req[s].pc = "mark" /\ DOMAIN req[s] = HandlerFields /\ Ev(s) = e /\ req[s].event = e
      /\ event' = event /\ trail' = trail /\ paidOut' = paidOut
  BY DEF ReadForHistory, eventVars, ledgerVars, GoesOn, Informed, Ev
<1>1. PICK n : n = [req[s] EXCEPT !.prior = Status(e), !.pc = "set"]
  OBVIOUS
<1>2. /\ n.op = req[s].op /\ n.event = e /\ n.amount = req[s].amount /\ n.pc = "set"
  BY <1>0, <1>1 DEF HandlerFields
<1>3. Leaves(s, e, n)
  <2>1. req' = [req EXCEPT ![s] = n]
    BY <1>0, <1>1 DEF ReadForHistory
  <2>2. QED
    BY <2>1, SetLeaves DEF GoesOn
<1>4. Owes(n) = Owes(req[s])
  BY <1>0, <1>2 DEF Owes
<1>5. OtherEvents(e) /\ Status(e)' = Status(e)
  BY <1>0 DEF OtherEvents, Status
<1>6. QED
  BY <1>0, <1>2, <1>3, <1>4, <1>5, QuietFlow

\* The status is written: every transition between phases is one of EventFlow.
LEMMA StatusFlow ==
    ASSUME IsFiniteSet(Slot), NEW s \in Slot, NEW e, GoesOn(s, e), WriteStatus(s)
    PROVE  FlowMoves
<1>0. /\ req[s].pc = "set" /\ DOMAIN req[s] = HandlerFields /\ Ev(s) = e /\ req[s].event = e
      /\ paidOut' = paidOut /\ event' = [event EXCEPT ![e].status = req[s].target]
      /\ \E r : trail' = [trail EXCEPT ![e] = r]
  BY DEF WriteStatus, SetStatus, ledgerVars, GoesOn, Informed, Ev
<1>1. PICK n : n = AfterStatus(req[s])
  OBVIOUS
<1>2. Leaves(s, e, n)
  <2>1. req' = [req EXCEPT ![s] = n]
    BY <1>1 DEF WriteStatus
  <2>2. QED
    BY <2>1, SetLeaves DEF GoesOn
<1>3. /\ DOMAIN event = Event /\ DOMAIN event[e] = EventFields /\ DOMAIN trail = Event
      /\ e \in Event /\ paidOut[e] \in Int /\ event[e].budget \in Nat /\ Informed(s)
  BY DEF GoesOn, Sound, ReviewInv, TablesInv
<1>4. OtherEvents(e) /\ Status(e)' = req[s].target
  BY <1>0, <1>3 DEF OtherEvents, EventFields, Status
<1>5. n = Idle => Owes(n) = 0
  BY OwesNothing DEF Idle
<1>6. ASSUME req[s].op \notin {"approve", "cancel", "expense"},
             MovesBy(e, paidOut[e], paidOut[e])
      PROVE  FlowMoves
  <2>1. n = Idle
    BY <1>0, <1>1, <1>6, AfterStatusIs
  <2>2. QED
    BY <1>0, <1>2, <1>4, <1>6, <2>1, PlainFlow
<1>7. CASE EditsEvent(s)
  <2>1. /\ req[s].op = "submit" /\ req[s].target = "SUBMITTED"
        /\ Status(e) \in {"DRAFT", "REJECTED"}
    BY <1>0, <1>7 DEF EditsEvent
  <2>2. QED
    BY <1>4, <1>6, <2>1 DEF MovesBy, Passes
<1>8. CASE MovesEvent(s) \/ AsksForMore(s) \/ ReviewsFunds(s)
  <2>1. /\ req[s].op \in {"extend", "settle", "view", "askfund", "review"}
        /\ \/ Status(e) = "ONGOING" /\ req[s].target \in {"ONGOING", "COMPLETED"}
           \/ Status(e) = "COMPLETED" /\ req[s].target = "SETTLED"
           \/ Status(e) = "FUNDED" /\ req[s].target = "UNDER_REVIEW"
           \/ Status(e) = "UNDER_REVIEW" /\ req[s].target = "FUNDED"
    BY <1>0, <1>8 DEF MovesEvent, AsksForMore, ReviewsFunds
  <2>2. QED
    BY <1>4, <1>6, <2>1 DEF MovesBy, Passes
<1>9. CASE CancelsEvent(s)
  <2>1. req[s].op = "cancel" /\ Owes(req[s]) = req[s].amount
    BY <1>0, <1>9 DEF CancelsEvent, Owes
  <2>2. CASE req[s].target = "CANCELLED"
    <3>1. n = Idle
      BY <1>0, <1>1, <2>1, <2>2, AfterStatusIs
    <3>2. \/ Status(e) \in {"FUNDED", "ONGOING"} /\ paidOut[e] <= 0
          \/ Status(e) \in Unfunded /\ Booked(e)
          \/ Status(e) = "UNDER_REVIEW" /\ req[s].amount = 0
      <4>1. Left(e) <= 0 => paidOut[e] <= 0
        BY <1>3, PaidWithin DEF GoesOn
      <4>2. QED
        BY <1>0, <1>9, <2>2, <4>1 DEF CancelsEvent, Owed
    <3>3. MovesBy(e, paidOut[e] + Owes(req[s]), paidOut'[e] + Owes(n))
      <4>1. paidOut'[e] + Owes(n) = paidOut[e]
        BY <1>0, <1>3, <1>5, <3>1
      <4>2. CASE Status(e) \in {"FUNDED", "ONGOING"} /\ paidOut[e] <= 0
        BY <1>4, <2>2, <4>1, <4>2 DEF MovesBy, Passes
      <4>3. CASE Status(e) \in Unfunded /\ Booked(e)
        <5>1. paidOut[e] <= 0
          BY <4>3 DEF Booked
        <5>2. QED
          BY <1>4, <2>2, <4>1, <4>3, <5>1 DEF MovesBy, Passes, Unfunded
      <4>4. CASE Status(e) = "UNDER_REVIEW" /\ req[s].amount = 0
        <5>1. paidOut[e] + Owes(req[s]) = paidOut[e]
          BY <1>3, <2>1, <4>4
        <5>2. QED
          BY <1>4, <2>2, <4>1, <4>4, <5>1 DEF MovesBy, Passes
      <4>5. QED
        BY <3>2, <4>2, <4>3, <4>4
    <3>4. paidOut'[e] \in Int /\ Owes(n) \in Int
      BY <1>0, <1>3, <1>5, <3>1
    <3>5. QED
      BY <1>2, <1>4, <3>1, <3>3, <3>4, GoesFlow
  <2>3. CASE req[s].target = "COMPLETED"
    <3>1. Status(e) = "ONGOING" /\ req[s].amount = 0
      BY <1>0, <1>9, <2>3 DEF CancelsEvent
    <3>2. n.op = "cancel" /\ n.event = e /\ n.pc = "reread"
      BY <1>0, <1>1, <2>1, <2>3, AfterStatusIs
    <3>3. Owes(n) = 0
      BY <3>2 DEF Owes
    <3>4. MovesBy(e, paidOut[e] + Owes(req[s]), paidOut'[e] + Owes(n))
      BY <1>0, <1>3, <1>4, <2>1, <2>3, <3>1, <3>3 DEF MovesBy, Passes
    <3>5. QED
      BY <1>0, <1>2, <1>3, <1>4, <3>2, <3>3, <3>4, GoesFlow
  <2>4. QED
    BY <1>9, <2>2, <2>3 DEF CancelsEvent
<1>10. CASE ReportsEvent(s)
  <2>1. /\ req[s].op = "expense" /\ req[s].target = "ONGOING" /\ Status(e) = "FUNDED"
        /\ req[s].amount \in Int
    BY <1>0, <1>10 DEF ReportsEvent
  <2>2. Owes(req[s]) = 0
    BY <1>0, <2>1 DEF Owes
  <2>3. n = Idle \/ n.event = e
    BY <1>0, <1>1, <2>1, AfterStatusIs
  <2>4. Owes(n) \in Int /\ Owes(n) <= 0
    <3>1. CASE req[s].amount > 0
      <4>1. n.op = "expense" /\ n.pc = "refund" /\ n.amount = req[s].amount
        BY <1>0, <1>1, <2>1, <3>1, AfterStatusIs
      <4>2. Owes(n) = -req[s].amount
        BY <4>1 DEF Owes
      <4>3. QED
        BY <2>1, <3>1, <4>2
    <3>2. CASE ~(req[s].amount > 0)
      BY <1>0, <1>1, <1>5, <2>1, <3>2, AfterStatusIs
    <3>3. QED
      BY <3>1, <3>2
  <2>5. paidOut'[e] + Owes(n) <= paidOut[e] + Owes(req[s]) /\ paidOut'[e] \in Int
    BY <1>0, <1>3, <2>2, <2>4
  <2>6. MovesBy(e, paidOut[e] + Owes(req[s]), paidOut'[e] + Owes(n))
    BY <1>4, <2>1, <2>5 DEF MovesBy, Passes
  <2>7. QED
    BY <1>2, <1>4, <2>3, <2>4, <2>5, <2>6, GoesFlow
<1>11. ~ApprovesEvent(s)
  BY <1>0 DEF ApprovesEvent
<1>12. QED
  BY <1>3, <1>7, <1>8, <1>9, <1>10, <1>11 DEF Informed

LEMMA ApproveFlow ==
    ASSUME IsFiniteSet(Slot), NEW s \in Slot, NEW e, GoesOn(s, e),
           Decide(s) \/ CheckFunds(s)
    PROVE  FlowMoves
<1>0. /\ req[s].op = "approve" /\ req[s].pc \in {"decide", "fund"} /\ Ev(s) = e
      /\ UNCHANGED paidOut
  BY DEF Decide, CheckFunds, At, GoesOn, ledgerVars
<1>1. Status(e) = "SUBMITTED"
  BY <1>0, OpTells DEF ApprovesEvent, GoesOn
<1>2. Owes(req[s]) = 0
  BY <1>0 DEF Owes
<1>3. DOMAIN event = Event /\ DOMAIN event[e] = EventFields /\ DOMAIN trail = Event /\ e \in Event
  BY DEF GoesOn, Sound, ReviewInv, TablesInv
<1>4. /\ event' = event \/ event' = [event EXCEPT ![e].status = "REJECTED"]
      /\ trail' = trail \/ \E r : trail' = [trail EXCEPT ![e] = r]
  BY <1>0 DEF Decide, CheckFunds, SetStatus, eventVars
<1>5. OtherEvents(e) /\ Status(e)' \in {Status(e), "REJECTED"}
  <2>1. \A f \in Event \ {e} : trail'[f] = trail[f]
    BY <1>3, <1>4
  <2>2. /\ \A f \in Event \ {e} : event'[f] = event[f]
        /\ Status(e)' \in {Status(e), "REJECTED"}
    BY <1>3, <1>4 DEF Status, EventFields
  <2>3. QED
    BY <1>0, <2>1, <2>2 DEF OtherEvents
<1>6. Finish(s) \/ \E pc \in {"fund", "pay"} : Goto(s, pc)
  BY DEF Decide, CheckFunds
<1>7. PICK n : Leaves(s, e, n) /\ (n = Idle \/ n.event = e) /\ Owes(n) = 0
  <2>1. CASE Finish(s)
    <3>1. Owes(Idle) = 0
      BY OwesNothing DEF Idle
    <3>2. QED
      BY <2>1, <3>1, FinishLeaves
  <2>2. ASSUME NEW pc \in {"fund", "pay"}, Goto(s, pc)
        PROVE  \E n : Leaves(s, e, n) /\ n.event = e /\ Owes(n) = 0
    <3>1. PICK n : Leaves(s, e, n) /\ n.event = e /\ n.op = req[s].op /\ n.pc = pc
      BY <2>2, GotoLeaves
    <3>2. Owes(n) = 0
      BY <1>0, <3>1 DEF Owes
    <3>3. QED
      BY <3>1, <3>2
  <2>3. QED
    BY <1>6, <2>1, <2>2
<1>8. paidOut'[e] = paidOut[e] /\ paidOut[e] \in Int
  BY <1>0 DEF GoesOn, Sound
<1>9. MovesBy(e, paidOut[e] + Owes(req[s]), paidOut'[e] + Owes(n))
  BY <1>1, <1>2, <1>5, <1>7, <1>8 DEF MovesBy, Passes
<1>10. QED
  BY <1>5, <1>7, <1>8, <1>9, GoesFlow

LEMMA PayFlow ==
    ASSUME IsFiniteSet(Slot), NEW s \in Slot, NEW e, GoesOn(s, e), Disburse(s)
    PROVE  FlowMoves
<1>0. /\ req[s].op = "approve" /\ req[s].pc = "pay" /\ Ev(s) = e /\ UNCHANGED <<event, trail>>
      /\ paidOut' = [paidOut EXCEPT ![e] = @ + req[s].budget] /\ Goto(s, "commit")
  BY DEF Disburse, At, GoesOn, DebitForEvent, eventVars
<1>1. /\ DOMAIN paidOut = Event /\ e \in Event /\ paidOut[e] \in Int /\ req[s].budget \in Nat
  BY <1>0, OpTells DEF GoesOn, ReviewInv, TablesInv, Sound, ApprovesEvent
<1>2. PICK n : /\ Leaves(s, e, n) /\ n.op = req[s].op /\ n.event = e
               /\ n.budget = req[s].budget /\ n.pc = "commit"
  BY <1>0, GotoLeaves
<1>3. Owes(req[s]) = 0 /\ Owes(n) = -req[s].budget
  BY <1>0, <1>2 DEF Owes
<1>4. OtherEvents(e) /\ Status(e)' = Status(e) /\ paidOut'[e] = paidOut[e] + req[s].budget
  BY <1>0, <1>1 DEF OtherEvents, Status
<1>5. paidOut'[e] + Owes(n) = paidOut[e] + Owes(req[s])
  BY <1>1, <1>3, <1>4
<1>6. MovesBy(e, paidOut[e] + Owes(req[s]), paidOut'[e] + Owes(n))
  BY <1>4, <1>5 DEF MovesBy
<1>7. paidOut'[e] \in Int /\ Owes(n) \in Int
  BY <1>1, <1>3, <1>4
<1>8. QED
  BY <1>2, <1>4, <1>6, <1>7, GoesFlow

LEMMA FundedFlow ==
    ASSUME IsFiniteSet(Slot), NEW s \in Slot, NEW e, GoesOn(s, e), CommitFunded(s)
    PROVE  FlowMoves
<1>0. /\ req[s].op = "approve" /\ req[s].pc = "commit" /\ Ev(s) = e /\ UNCHANGED paidOut
      /\ event' = [event EXCEPT ![e].status = "FUNDED"]
      /\ \E r : trail' = [trail EXCEPT ![e] = r]
      /\ Finish(s)
  BY DEF CommitFunded, At, GoesOn, ledgerVars, SetStatus
<1>1. /\ Status(e) = "SUBMITTED" /\ paidOut[e] = event[e].budget /\ req[s].budget = event[e].budget
      /\ event[e].budget \in Nat
  BY <1>0, OpTells DEF ApprovesEvent, GoesOn, Sound
<1>2. DOMAIN event = Event /\ DOMAIN event[e] = EventFields /\ DOMAIN trail = Event /\ e \in Event
  BY DEF GoesOn, Sound, ReviewInv, TablesInv
<1>3. OtherEvents(e) /\ Status(e)' = "FUNDED"
  BY <1>0, <1>2 DEF OtherEvents, Status, EventFields
<1>4. Owes(req[s]) = -event[e].budget /\ Owes(Idle) = 0
  BY <1>0, <1>1, OwesNothing DEF Owes, Idle
<1>5. /\ paidOut[e] + Owes(req[s]) = 0 /\ paidOut'[e] + Owes(Idle) >= 0
      /\ paidOut'[e] \in Int /\ Owes(Idle) \in Int
  BY <1>0, <1>1, <1>4
<1>6. MovesBy(e, paidOut[e] + Owes(req[s]), paidOut'[e] + Owes(Idle))
  BY <1>1, <1>3, <1>5 DEF MovesBy, Passes
<1>7. Leaves(s, e, Idle)
  BY <1>0, FinishLeaves
<1>8. QED
  BY <1>3, <1>5, <1>6, <1>7, GoesFlow

LEMMA RereadFlow ==
    ASSUME IsFiniteSet(Slot), NEW s \in Slot, NEW e, GoesOn(s, e), Reread(s)
    PROVE  FlowMoves
<1>0. /\ req[s].op = "cancel" /\ req[s].pc = "reread" /\ Ev(s) = e
      /\ event' = event /\ trail' = trail /\ paidOut' = paidOut
  BY DEF Reread, At, eventVars, ledgerVars, GoesOn
<1>1. Status(e) = "COMPLETED"
  BY <1>0, OpTells DEF CancelsEvent, GoesOn
<1>2. req' = [req EXCEPT ![s] = Idle]
  BY <1>0, <1>1 DEF Reread, Cancelable
<1>3. Leaves(s, e, Idle)
  BY <1>2, SetLeaves DEF GoesOn
<1>4. Owes(req[s]) = 0 /\ Owes(Idle) = 0
  BY <1>0, OwesNothing DEF Owes, Idle
<1>5. OtherEvents(e) /\ Status(e)' = Status(e)
  BY <1>0 DEF OtherEvents, Status
<1>6. QED
  BY <1>0, <1>3, <1>4, <1>5, QuietFlow

LEMMA RefundFlow ==
    ASSUME IsFiniteSet(Slot), NEW s \in Slot, NEW e, GoesOn(s, e), Refund(s)
    PROVE  FlowMoves
<1>0. /\ req[s].pc = "refund" /\ Ev(s) = e /\ UNCHANGED <<event, trail>>
      /\ paidOut' = [paidOut EXCEPT ![e] = @ - req[s].amount]
      /\ IF req[s].op = "cancel" THEN Goto(s, "mark") ELSE Finish(s)
  BY DEF Refund, GoesOn, CreditForEvent, eventVars
<1>1. /\ DOMAIN paidOut = Event /\ e \in Event /\ paidOut[e] \in Int /\ event[e].budget \in Nat
  BY DEF GoesOn, ReviewInv, TablesInv, Sound
<1>2. CancelsEvent(s) \/ ReportsEvent(s)
  BY <1>0 DEF GoesOn, Informed, EditsEvent, ApprovesEvent, MovesEvent, AsksForMore, ReviewsFunds
<1>3. req[s].amount \in Int /\ req[s].op \in {"cancel", "expense"}
  BY <1>0, <1>1, <1>2 DEF CancelsEvent, ReportsEvent
<1>4. OtherEvents(e) /\ Status(e)' = Status(e) /\ paidOut'[e] = paidOut[e] - req[s].amount
  BY <1>0, <1>1, <1>3 DEF OtherEvents, Status
<1>5. ASSUME NEW n, Leaves(s, e, n), n = Idle \/ n.event = e,
             Owes(n) = Owes(req[s]) + req[s].amount, Owes(req[s]) \in Int
      PROVE  FlowMoves
  <2>1. paidOut'[e] + Owes(n) = paidOut[e] + Owes(req[s])
    BY <1>1, <1>3, <1>4, <1>5
  <2>2. MovesBy(e, paidOut[e] + Owes(req[s]), paidOut'[e] + Owes(n))
    BY <1>4, <2>1 DEF MovesBy
  <2>3. paidOut'[e] \in Int /\ Owes(n) \in Int
    BY <1>1, <1>3, <1>4, <1>5
  <2>4. QED
    BY <1>4, <1>5, <2>2, <2>3, GoesFlow
<1>6. CASE req[s].op = "cancel"
  <2>1. PICK n : /\ Leaves(s, e, n) /\ n.op = req[s].op /\ n.event = e
                 /\ n.amount = req[s].amount /\ n.pc = "mark"
    BY <1>0, <1>6, GotoLeaves
  <2>2. Owes(req[s]) = 0 /\ Owes(n) = req[s].amount
    BY <1>0, <1>6, <2>1 DEF Owes
  <2>3. QED
    BY <1>3, <1>5, <2>1, <2>2
<1>7. CASE req[s].op = "expense"
  <2>1. Leaves(s, e, Idle)
    BY <1>0, <1>7, FinishLeaves
  <2>2. Owes(req[s]) = -req[s].amount /\ Owes(Idle) = 0
    BY <1>0, <1>7, OwesNothing DEF Owes, Idle
  <2>3. QED
    BY <1>3, <1>5, <2>1, <2>2
<1>8. QED
  BY <1>3, <1>6, <1>7

LEMMA ReportFlow ==
    ASSUME IsFiniteSet(Slot), NEW s \in Slot, NEW e, GoesOn(s, e),
           InsertExpense(s) \/ WriteActual(s)
    PROVE  FlowMoves
<1>0. /\ req[s].op = "expense" /\ req[s].pc \in {"expense", "actual"} /\ Ev(s) = e
      /\ UNCHANGED <<paidOut, trail>>
      /\ event' = event \/ event' = [event EXCEPT ![e].actual = req[s].spent]
  BY DEF InsertExpense, WriteActual, At, GoesOn, ledgerVars
<1>1. /\ DOMAIN event = Event /\ DOMAIN event[e] = EventFields /\ e \in Event
      /\ DOMAIN req[s] = HandlerFields /\ req[s].event = e
  BY DEF GoesOn, Sound, ReviewInv, TablesInv, Informed, Ev
<1>2. OtherEvents(e) /\ Status(e)' = Status(e)
  BY <1>0, <1>1 DEF OtherEvents, Status, EventFields
<1>3. PICK n : /\ Leaves(s, e, n) /\ n.op = "expense" /\ n.event = e
               /\ n.pc \in {"expense", "actual", "mark"}
  <2>1. CASE InsertExpense(s)
    <3>1. PICK a, pc : /\ pc \in {"expense", "actual"}
                       /\ req' = [req EXCEPT ![s].left = @ - a, ![s].pc = pc]
      BY <2>1 DEF InsertExpense
    <3>2. PICK n : n = [req[s] EXCEPT !.left = @ - a, !.pc = pc]
      OBVIOUS
    <3>3. n.op = "expense" /\ n.event = e /\ n.pc = pc
      BY <1>0, <1>1, <3>2 DEF HandlerFields
    <3>4. req' = [req EXCEPT ![s] = n]
      BY <3>1, <3>2
    <3>5. Leaves(s, e, n)
      BY <3>4, SetLeaves DEF GoesOn
    <3>6. QED
      BY <3>1, <3>3, <3>5
  <2>2. CASE WriteActual(s)
    <3>1. Goto(s, "mark")
      BY <2>2 DEF WriteActual
    <3>2. QED
      BY <1>0, <3>1, GotoLeaves
  <2>3. QED
    BY <2>1, <2>2
<1>4. Owes(req[s]) = 0 /\ Owes(n) = 0
  BY <1>0, <1>3 DEF Owes
<1>5. QED
  BY <1>0, <1>2, <1>3, <1>4, QuietFlow

LEMMA ContinueFlow ==
    ASSUME IsFiniteSet(Slot), NEW s \in Slot, NEW e, GoesOn(s, e), Continue(s)
    PROVE  FlowMoves
<1>1. ~FailOnDeleted(s) /\ ~Deadlock(s) /\ ~TimesOut(s)
  BY NotDeleted, NobodyBlocks DEF GoesOn
<1>2. \/ \E late \in BOOLEAN : WriteUpdate(s, late) \/ WriteExtend(s, late)
      \/ LockEvent(s) \/ WriteDelete(s)
      \/ ReadWorkflow(s) \/ ClearApprovals(s) \/ InsertApproval(s)
      \/ ReadForHistory(s) \/ WriteStatus(s)
      \/ Decide(s) \/ CheckFunds(s) \/ Disburse(s) \/ CommitFunded(s)
      \/ Reread(s) \/ Refund(s)
      \/ InsertExpense(s) \/ WriteActual(s)
  BY <1>1, Zenon DEF Continue
<1>3. QED
  BY <1>2, EditFlow, LockFlow, DeleteFlow, SubmitFlow, MarkFlow, StatusFlow, ApproveFlow, PayFlow,
     FundedFlow, RereadFlow, RefundFlow, ReportFlow

LEMMA FundContinueFlow ==
    ASSUME IsFiniteSet(Slot), NEW s \in Slot, NEW e, GoesOn(s, e), FundContinue(s)
    PROVE  FlowMoves
<1>1. req[s].op \notin {"approvefund", "rejectfund"}
  BY DEF GoesOn, Informed, EditsEvent, ApprovesEvent, CancelsEvent, ReportsEvent, MovesEvent,
         AsksForMore, ReviewsFunds
<1>2. \/ CheckPending(s) \/ CreateFund(s) \/ FindFund(s) \/ CheckTransfer(s) \/ Transfer(s)
      \/ MarkApproved(s) \/ RaiseBudget(s) \/ Refuse(s)
  BY <1>1, NobodyBlocks DEF GoesOn, FundContinue, OpenApprove, CheckDisburse, TransferFund,
     ReadEvent, CommitFund, OpenReject, TakeoverRefund, CommitReject, FundTimesOut, At
<1>3. QED
  BY <1>2, FundsFlow

\* A call that begins has moved nothing yet and owes nothing.
LEMMA StartFlow ==
    ASSUME IsFiniteSet(Slot), ReviewInv, job = IdleJob, job' = job, OneByOne', NEW s \in Slot,
           NEW e \in Event, NEW r, Starts(s, e, r), FundOfKept(s), Owes(r) = 0,
           event' = event, trail' = trail, paidOut' = paidOut
    PROVE  FlowMoves
<1>1. /\ OtherSlots(s, e) /\ req'[s] = r /\ Ev(s)' = e /\ req[s] = Idle /\ Sound(e)
  BY StartsAlone DEF Starts
<1>2. InTransit(s, e) = 0 /\ InTransit(s, e)' = 0
  BY <1>1, TransitIs
<1>3. paidOut[e] \in Int /\ paidOut'[e] = paidOut[e]
  BY <1>1 DEF Sound
<1>4. OtherEvents(e) /\ Status(e)' = Status(e)
  BY DEF OtherEvents, Status
<1>5. MovesBy(e, paidOut[e] + 0, paidOut'[e] + 0)
  BY <1>3, <1>4 DEF MovesBy
<1>6. PICK a \in Int : a = 0
  OBVIOUS
<1>7. QED
  BY <1>1, <1>2, <1>3, <1>4, <1>5, <1>6, OwnFlow DEF FlowMoves

LEMMA BeginFlow ==
    ASSUME IsFiniteSet(Slot), ReviewInv, job = IdleJob, job' = job, OneByOne', NEW s \in Slot,
           FundOfKept(s), Begin(s)
    PROVE  FlowMoves
<1>1. PICK u \in User, e \in Event :
        \/ \E b \in Budget : BeginUpdate(s, u, e, b)
        \/ BeginDelete(s, u, e)
        \/ BeginSubmit(s, u, e)
        \/ \E v \in ApprovalStatus : BeginApprove(s, u, e, v)
        \/ BeginCancel(s, u, e)
        \/ \E total \in Spending, rest \in Remaining : BeginExpense(s, u, e, total, rest)
        \/ BeginExtend(s, u, e)
        \/ BeginSettle(s, u, e)
        \/ BeginView(s, u, e)
  BY Zenon DEF Begin
<1>2. ASSUME NEW r, req' = [req EXCEPT ![s] = r], req[s] = Idle, DOMAIN r = HandlerFields,
             r.event = e, r.op # "none", Owes(r) = 0,
             event' = event, trail' = trail, paidOut' = paidOut
      PROVE  FlowMoves
  <2>1. Starts(s, e, r)
    BY <1>2 DEF Starts
  <2>2. QED
    BY <1>2, <2>1, StartFlow
<1>3. ASSUME BeginDelete(s, u, e) \/ BeginSubmit(s, u, e) \/ BeginExtend(s, u, e)
             \/ BeginSettle(s, u, e) \/ BeginView(s, u, e)
      PROVE  FlowMoves
  <2>0. req[s] = Idle /\ event' = event /\ trail' = trail /\ paidOut' = paidOut
    BY <1>3 DEF BeginDelete, MayDelete, BeginSubmit, MaySubmit, BeginExtend, MayExtend,
       BeginSettle, MaySettle, BeginView, MayCall, eventVars,
       ledgerVars
  <2>1. PICK op, pc, target :
          /\ Start(s, Call(op, u, e, pc, target))
          /\ op \in {"delete", "submit", "extend", "settle", "view"}
    BY <1>3 DEF BeginDelete, MayDelete, BeginSubmit, MaySubmit, BeginExtend, MayExtend,
       BeginSettle, MaySettle, BeginView
  <2>2. PICK r : r = Call(op, u, e, pc, target)
    OBVIOUS
  <2>3. DOMAIN r = HandlerFields /\ r.op = op /\ r.event = e
    BY <2>2, CallIs
  <2>4. Owes(r) = 0
    BY <2>1, <2>3, OwesNothing
  <2>5. QED
    BY <1>2, <2>0, <2>1, <2>2, <2>3, <2>4 DEF Start
<1>4. ASSUME NEW b, BeginUpdate(s, u, e, b) PROVE FlowMoves
  <2>0. req[s] = Idle /\ event' = event /\ trail' = trail /\ paidOut' = paidOut
    BY <1>4 DEF BeginUpdate, MayUpdate, MayCall, eventVars, ledgerVars
  <2>1. PICK c : c = Call("update", u, e, "write", "DRAFT")
    OBVIOUS
  <2>2. PICK r : r = [c EXCEPT !.budget = b]
    OBVIOUS
  <2>3. DOMAIN r = HandlerFields /\ r.op = "update" /\ r.event = e
    BY <2>1, <2>2, CallIs DEF HandlerFields
  <2>4. Owes(r) = 0
    BY <2>3, OwesNothing
  <2>5. req' = [req EXCEPT ![s] = r]
    BY <1>4, <2>1, <2>2 DEF BeginUpdate, MayUpdate, Start
  <2>6. QED
    BY <1>2, <2>0, <2>3, <2>4, <2>5
<1>5. ASSUME NEW v, BeginApprove(s, u, e, v) PROVE FlowMoves
  <2>0. req[s] = Idle /\ event' = event /\ trail' = trail /\ paidOut' = paidOut
    BY <1>5 DEF BeginApprove, MayApprove, NextStepOf, MayCall, eventVars, ledgerVars
  <2>1. PICK x, target : Start(s, [Call("approve", u, e, "decide", target) EXCEPT
                                    !.rows = {x}, !.verdict = v])
    BY <1>5, Zenon DEF BeginApprove, MayApprove, NextStepOf
  <2>2. PICK c : c = Call("approve", u, e, "decide", target)
    OBVIOUS
  <2>3. PICK r : r = [c EXCEPT !.rows = {x}, !.verdict = v]
    OBVIOUS
  <2>4. DOMAIN r = HandlerFields /\ r.op = "approve" /\ r.event = e /\ r.pc = "decide"
    BY <2>2, <2>3, CallIs DEF HandlerFields
  <2>5. Owes(r) = 0
    BY <2>4 DEF Owes
  <2>6. req' = [req EXCEPT ![s] = r]
    BY <2>1, <2>2, <2>3 DEF Start
  <2>7. QED
    BY <1>2, <2>0, <2>4, <2>5, <2>6
<1>6. ASSUME BeginCancel(s, u, e) PROVE FlowMoves
  <2>0. req[s] = Idle /\ event' = event /\ trail' = trail /\ paidOut' = paidOut
    BY <1>6 DEF BeginCancel, MayCancel, MayCall, eventVars, ledgerVars
  <2>1. CASE Start(s, Call("cancel", u, e, "mark", "COMPLETED"))
    <3>1. PICK r : r = Call("cancel", u, e, "mark", "COMPLETED")
      OBVIOUS
    <3>2. /\ DOMAIN r = HandlerFields /\ r.op = "cancel" /\ r.event = e /\ r.pc = "mark"
          /\ r.amount = 0
      BY <3>1, CallIs
    <3>3. Owes(r) = 0
      BY <3>2 DEF Owes
    <3>4. QED
      BY <1>2, <2>0, <2>1, <3>1, <3>2, <3>3 DEF Start
  <2>2. CASE Start(s, CancelRequest(u, e))
    <3>1. PICK r : r = CancelRequest(u, e)
      OBVIOUS
    <3>2. /\ DOMAIN r = HandlerFields /\ r.op = "cancel" /\ r.event = e
          /\ r.pc = "refund" \/ (r.pc = "mark" /\ r.amount = 0)
      BY <3>1, CancelRequestIs
    <3>3. Owes(r) = 0
      BY <3>2 DEF Owes
    <3>4. QED
      BY <1>2, <2>0, <2>2, <3>1, <3>2, <3>3 DEF Start
  <2>3. QED
    BY <1>6, <2>1, <2>2 DEF BeginCancel, MayCancel
<1>7. ASSUME NEW total, NEW rest, BeginExpense(s, u, e, total, rest) PROVE FlowMoves
  <2>0. req[s] = Idle /\ event' = event /\ trail' = trail /\ paidOut' = paidOut
    BY <1>7 DEF BeginExpense, MayReport, MayCall, eventVars, ledgerVars
  <2>1. PICK c : c = Call("expense", u, e, "expense", "ONGOING")
    OBVIOUS
  <2>2. PICK r : r = [c EXCEPT !.spent = total, !.left = total, !.amount = rest]
    OBVIOUS
  <2>3. DOMAIN r = HandlerFields /\ r.op = "expense" /\ r.event = e /\ r.pc = "expense"
    BY <2>1, <2>2, CallIs DEF HandlerFields
  <2>4. Owes(r) = 0
    BY <2>3 DEF Owes
  <2>5. req' = [req EXCEPT ![s] = r]
    BY <1>7, <2>1, <2>2 DEF BeginExpense, MayReport, Start
  <2>6. QED
    BY <1>2, <2>0, <2>3, <2>4, <2>5
<1>8. QED
  BY <1>1, <1>3, <1>4, <1>5, <1>6, <1>7

LEMMA FundBeginFlow ==
    ASSUME IsFiniteSet(Slot), ReviewInv, job = IdleJob, OneByOne', NEW s \in Slot,
           FundOp \subseteq {"askfund", "review"}, FundBegin(s)
    PROVE  FlowMoves
<1>1. job' = job
  BY DEF FundBegin, BeginAsk, MayAskFund, BeginReview, MayReview, BeginApproveFund,
     BeginRejectFund, fundVars
<1>2. PICK u \in User :
        \/ \E e \in Event, a \in FundAmount : BeginAsk(s, u, e, a)
        \/ \E e \in Event, yes \in BOOLEAN, a \in FundAmount \cup {0} :
              BeginReview(s, u, e, yes, a)
  BY DEF FundBegin, BeginApproveFund, BeginRejectFund, MayCallFund
<1>3. ASSUME NEW e \in Event, NEW r, req' = [req EXCEPT ![s] = r], req[s] = Idle,
             DOMAIN r = HandlerFields, r.event = e, r.op \in {"askfund", "review"},
             event' = event, trail' = trail, paidOut' = paidOut, fundOf' = fundOf
      PROVE  FlowMoves
  <2>1. Starts(s, e, r) /\ FundOfKept(s)
    BY <1>3 DEF Starts, FundOfKept, ReviewInv, TablesInv
  <2>2. Owes(r) = 0
    BY <1>3, OwesNothing
  <2>3. QED
    BY <1>1, <1>3, <2>1, <2>2, StartFlow
<1>4. ASSUME NEW e \in Event, NEW a, BeginAsk(s, u, e, a) PROVE FlowMoves
  <2>0. /\ req[s] = Idle /\ event' = event /\ trail' = trail /\ paidOut' = paidOut
        /\ fundOf' = fundOf
    BY <1>4 DEF BeginAsk, MayAskFund, MayCallFund, eventVars, ledgerVars, fundVars
  <2>1. PICK c : c = Call("askfund", u, e, "checkPending", "UNDER_REVIEW")
    OBVIOUS
  <2>2. PICK r : r = [c EXCEPT !.amount = a]
    OBVIOUS
  <2>3. DOMAIN r = HandlerFields /\ r.op = "askfund" /\ r.event = e
    BY <2>1, <2>2, CallIs DEF HandlerFields
  <2>4. req' = [req EXCEPT ![s] = r]
    BY <1>4, <2>1, <2>2 DEF BeginAsk, MayAskFund, Start
  <2>5. QED
    BY <1>3, <2>0, <2>3, <2>4
<1>5. ASSUME NEW e \in Event, NEW yes, NEW a, BeginReview(s, u, e, yes, a) PROVE FlowMoves
  <2>0. /\ req[s] = Idle /\ event' = event /\ trail' = trail /\ paidOut' = paidOut
        /\ fundOf' = fundOf
    BY <1>5 DEF BeginReview, MayReview, MayCallFund, eventVars, ledgerVars, fundVars
  <2>1. PICK c : c = Call("review", u, e, "findFund", "FUNDED")
    OBVIOUS
  <2>2. PICK v : v = IF yes THEN "APPROVED" ELSE "REJECTED"
    OBVIOUS
  <2>3. PICK r : r = [c EXCEPT !.amount = a, !.verdict = v]
    OBVIOUS
  <2>4. DOMAIN r = HandlerFields /\ r.op = "review" /\ r.event = e
    BY <2>1, <2>3, CallIs DEF HandlerFields
  <2>5. req' = [req EXCEPT ![s] = r]
    BY <1>5, <2>1, <2>2, <2>3 DEF BeginReview, MayReview, Start
  <2>6. QED
    BY <1>3, <2>0, <2>4, <2>5
<1>6. QED
  BY <1>2, <1>4, <1>5

\* A step of nobody, or of the job for e.
LEMMA AwayFlow ==
    ASSUME IsFiniteSet(Slot), req' = req, NEW e \in Event, OtherEvents(e),
           job.event \in {e, NoEvent}, job'.event \in {e, NoEvent},
           paidOut[e] \in Int, paidOut'[e] \in Int,
           \A s \in Slot : Ev(s) = e => req[s] = Idle,
           NEW a \in Int, a = ReturnedByJob(e), NEW b \in Int, b = ReturnedByJob(e)',
           MovesBy(e, paidOut[e] + a, paidOut'[e] + b)
    PROVE  FlowMoves
<1>1. \A s \in Slot, f \in Event : InTransit(s, f)' = InTransit(s, f)
  BY TransitIs DEF Ev
<1>2. \A f \in Event : Carried(f)' = Carried(f)
  BY <1>1 DEF Carried
<1>3. ASSUME NEW f \in Event \ {e} PROVE Status(f)' = Status(f) /\ Held'[f] = Held[f]
  <2>1. f # NoEvent
    BY LifecycleAssumption
  <2>2. ReturnedByJob(f) = 0 /\ ReturnedByJob(f)' = 0
    BY <1>3, <2>1 DEF ReturnedByJob
  <2>3. event'[f] = event[f] /\ paidOut'[f] = paidOut[f]
    BY <1>3 DEF OtherEvents
  <2>4. QED
    BY <1>2, <1>3, <2>2, <2>3, HeldIs DEF Status
<1>4. Carried(e) = 0
  <2>1. \A s \in Slot : InTransit(s, e) = 0
    BY TransitIs
  <2>2. PICK g : g = [s \in Slot |-> InTransit(s, e)]
    OBVIOUS
  <2>3. SumFunction(g) = 0
    BY <2>1, <2>2, SlotsSum
  <2>4. QED
    BY <2>2, <2>3 DEF Carried
<1>5. Held[e] = paidOut[e] + a /\ Held'[e] = paidOut'[e] + b
  BY <1>2, <1>4, HeldIs
<1>6. QED
  BY <1>3, <1>5, FlowTaken DEF FlowStays, FlowMoves

\* Neither the status nor the money of any event changes.
LEMMA StillFlow ==
    ASSUME req' = req, job = IdleJob, job' = job, paidOut' = paidOut,
           \A e \in Event : Status(e)' = Status(e)
    PROVE  FlowMoves
<1>1. \A s \in Slot, e \in Event : InTransit(s, e)' = InTransit(s, e)
  BY TransitIs DEF Ev
<1>2. \A e \in Event : ReturnedByJob(e)' = ReturnedByJob(e)
  BY LifecycleAssumption DEF ReturnedByJob, IdleJob
<1>3. Held' = Held
  BY <1>1, <1>2 DEF Held
<1>4. QED
  BY <1>3 DEF FlowMoves, Flow!flowVars

LEMMA EndFlow ==
    ASSUME ReviewInv, job = IdleJob, job' = job, NEW e \in Event, EndDatePasses(e)
    PROVE  FlowMoves
<1>1. event' = [event EXCEPT ![e].ended = TRUE] /\ req' = req /\ paidOut' = paidOut
  BY DEF EndDatePasses, ledgerVars
<1>2. DOMAIN event = Event /\ DOMAIN event[e] = EventFields
  BY DEF ReviewInv, TablesInv, Sound
<1>3. \A f \in Event : Status(f)' = Status(f)
  BY <1>1, <1>2 DEF Status, EventFields
<1>4. QED
  BY <1>1, <1>3, StillFlow

LEMMA CreateFlow ==
    ASSUME IsFiniteSet(Slot), ReviewInv, job = IdleJob, job' = job, NEW u, NEW e \in Event,
           NEW b, NEW late, Create(u, e, b, late)
    PROVE  FlowMoves
<1>0. DOMAIN event = Event /\ DOMAIN trail = Event /\ paidOut[e] \in Int
  BY DEF ReviewInv, TablesInv, Sound
<1>1. /\ event' = [event EXCEPT ![e] = [status |-> "DRAFT", creator |-> u, budget |-> b,
                                        actual |-> 0, ended |-> late]]
      /\ trail' = [trail EXCEPT ![e] = [prev |-> "DRAFT", new |-> "DRAFT"]]
      /\ paidOut' = paidOut /\ req' = req /\ Status(e) = "ABSENT"
  BY DEF Create, ledgerVars
<1>2. \A s \in Slot : Ev(s) = e => req[s] = Idle
  BY <1>1 DEF ReviewInv, Informed, EditsEvent, ApprovesEvent, CancelsEvent, ReportsEvent,
         MovesEvent, AsksForMore, ReviewsFunds, Unfunded
<1>3. OtherEvents(e) /\ Status(e)' = "DRAFT"
  BY <1>0, <1>1 DEF OtherEvents, Status
<1>4. ReturnedByJob(e) = 0 /\ ReturnedByJob(e)' = 0 /\ job.event = NoEvent
  BY LifecycleAssumption DEF ReturnedByJob, IdleJob
<1>5. MovesBy(e, paidOut[e] + 0, paidOut'[e] + 0)
  BY <1>1, <1>3 DEF MovesBy, Passes
<1>6. PICK a \in Int : a = 0
  OBVIOUS
<1>7. QED
  BY <1>0, <1>1, <1>2, <1>3, <1>4, <1>5, <1>6, AwayFlow

-----------------------------------------------------------------------------
(* The job's cancellation of an event, as one step *)

\* What the job returned for its event.
LEMMA ReturnedIs ==
    ASSUME JobWorks, JobKnows, FundsTyped, NEW e, e = job.event
    PROVE  /\ ReturnedByJob(e) \in Int
           /\ Status(e) # "FUNDED" => ReturnedByJob(e) = 0
           /\ Status(e) = "FUNDED" =>
                ReturnedByJob(e) = (IF job.pc # "initial" /\ job.initial > 0 THEN job.initial ELSE 0)
                                   + SumFunctionOnSet(AmountOf, Granted(e) \ job.extra)
<1>1. /\ e \in Event /\ job.pc \in {"initial", "extra", "mark", "set"} /\ job.initial \in Int
      /\ job.list[e].status = Status(e) /\ job.list[e].extra = Granted(e)
  BY DEF JobKnows, JobWorks, Expects
<1>2. Granted(e) \ job.extra \in SUBSET FundRequest
  BY DEF Granted
<1>3. SumFunctionOnSet(AmountOf, Granted(e) \ job.extra) \in Int
  BY <1>2, RowSums
<1>4. Status(e) # "FUNDED" => ReturnedByJob(e) = 0
  BY <1>1 DEF ReturnedByJob
<1>5. Status(e) = "FUNDED" =>
        ReturnedByJob(e) = (IF job.pc # "initial" /\ job.initial > 0 THEN job.initial ELSE 0)
                           + SumFunctionOnSet(AmountOf, Granted(e) \ job.extra)
  BY <1>1 DEF ReturnedByJob
<1>6. QED
  BY <1>1, <1>3, <1>4, <1>5

LEMMA JobFlow ==
    ASSUME IsFiniteSet(Slot), ReviewInv, ReviewInv', \A s \in Slot : req[s] = Idle, req' = req,
           NEW e \in Event, OtherEvents(e),
           job.event \in {e, NoEvent}, job'.event \in {e, NoEvent},
           NEW a \in Int, a = ReturnedByJob(e), NEW b \in Int, b = ReturnedByJob(e)',
           MovesBy(e, paidOut[e] + a, paidOut'[e] + b)
    PROVE  FlowMoves
<1>1. paidOut[e] \in Int /\ paidOut'[e] \in Int
  BY DEF ReviewInv, TablesInv, Sound
<1>2. QED
  BY <1>1, AwayFlow

LEMMA JobStartsFlow ==
    ASSUME IsFiniteSet(Slot), ReviewInv, ReviewInv', ~Overlap, JobStarts
    PROVE  FlowMoves
<1>1. job = IdleJob
  BY DEF JobStarts, ReviewInv, JobInv, JobKnows
<1>2. (\A s \in Slot : req[s] = Idle) /\ UNCHANGED <<event, paidOut, trail, req>>
  BY DEF JobStarts, vars, ledgerVars
<1>3. PICK e \in Event : IsExpired(e)
  BY DEF JobStarts
<1>4. PICK list : job' = [job EXCEPT !.pc = "next", !.list = list]
  BY DEF JobStarts
<1>5. job.event = NoEvent /\ job'.event = NoEvent
  BY <1>1, <1>4 DEF IdleJob
<1>6. ReturnedByJob(e) = 0 /\ ReturnedByJob(e)' = 0
  BY <1>5, LifecycleAssumption DEF ReturnedByJob
<1>7. OtherEvents(e) /\ MovesBy(e, paidOut[e] + 0, paidOut'[e] + 0)
  BY <1>2 DEF OtherEvents, MovesBy, Status
<1>8. PICK a \in Int : a = 0
  OBVIOUS
<1>9. QED
  BY <1>2, <1>5, <1>6, <1>7, <1>8, JobFlow

LEMMA JobPicksFlow ==
    ASSUME IsFiniteSet(Slot), ReviewInv, ReviewInv', NEW e \in Event, JobPicks(e)
    PROVE  FlowMoves
<1>0. FundsTyped
  BY DEF ReviewInv, TablesInv, FundsTyped
<1>1. /\ JobWorks /\ job.event = NoEvent /\ UNCHANGED <<event, paidOut, trail, req, fund>>
  <2>1. JobWorks
    BY AtWork DEF JobPicks
  <2>2. QED
    BY <2>1 DEF JobPicks, vars, ledgerVars, JobWorks, JobKnows
<1>2. PICK extra : extra = IF job.list[e].status = "FUNDED" THEN job.list[e].extra ELSE {}
  OBVIOUS
<1>3. PICK initial : initial = IF job.list[e].status = "FUNDED"
                               THEN job.list[e].budget - SumFunctionOnSet(AmountOf, extra) ELSE 0
  OBVIOUS
<1>4. job' = [job EXCEPT !.event = e, !.initial = initial, !.extra = extra,
                         !.pc = JobStage(initial, extra)]
  BY <1>2, <1>3 DEF JobPicks
<1>5. /\ job'.event = e /\ job'.initial = initial /\ job'.extra = extra
      /\ job'.pc = JobStage(initial, extra) /\ job'.list = job.list
  BY <1>1, <1>4 DEF JobWorks, JobFields
<1>6. ReturnedByJob(e) = 0
  BY <1>1, LifecycleAssumption DEF ReturnedByJob
<1>7. ReturnedByJob(e)' = 0
  <2>1. AmountOf' = AmountOf
    BY <1>1 DEF AmountOf
  <2>2. SumFunctionOnSet(AmountOf, {}) = 0
    BY <1>0, RowSums
  <2>3. CASE job.list[e].status # "FUNDED"
    BY <1>5, <2>3 DEF ReturnedByJob
  <2>4. CASE job.list[e].status = "FUNDED"
    <3>1. job'.list[e].extra \ job'.extra = {}
      BY <1>2, <1>5, <2>4
    <3>2. ~(job'.pc # "initial" /\ job'.initial > 0)
      BY <1>5 DEF JobStage
    <3>3. ReturnedByJob(e)' = 0 + SumFunctionOnSet(AmountOf', job'.list[e].extra \ job'.extra)
                              \/ ReturnedByJob(e)' = 0
      BY <3>2 DEF ReturnedByJob
    <3>4. QED
      BY <2>1, <2>2, <3>1, <3>3
  <2>5. QED
    BY <2>3, <2>4
<1>8. OtherEvents(e) /\ MovesBy(e, paidOut[e] + 0, paidOut'[e] + 0)
  BY <1>1 DEF OtherEvents, MovesBy, Status
<1>9. PICK a \in Int : a = 0
  OBVIOUS
<1>10. \A s \in Slot : req[s] = Idle
  BY <1>1 DEF JobWorks
<1>11. QED
  BY <1>1, <1>5, <1>6, <1>7, <1>8, <1>9, <1>10, JobFlow

LEMMA JobRefundsFlow ==
    ASSUME IsFiniteSet(Slot), ReviewInv, ReviewInv', JobRefundsInitial \/ JobRefundsExtra
    PROVE  FlowMoves
<1>0. /\ job.pc \in {"initial", "extra"} /\ job.event # NoEvent
      /\ UNCHANGED <<event, trail, req, fund>>
  BY DEF JobRefundsInitial, JobRefundsExtra, eventVars, JobRuns
<1>1. JobWorks /\ JobKnows /\ FundsTyped /\ AmountOf' = AmountOf
  <2>1. JobWorks
    BY <1>0, AtWork
  <2>2. JobKnows
    BY <1>0, <2>1 DEF JobWorks
  <2>3. QED
    BY <1>0, <2>1, <2>2 DEF ReviewInv, TablesInv, FundsTyped, AmountOf
<1>2. PICK e : e = job.event
  OBVIOUS
<1>3. /\ e \in Event /\ Status(e) = "FUNDED" /\ job.extra \subseteq Granted(e)
      /\ job.initial \in Int
  BY <1>0, <1>1, <1>2, Zenon DEF JobKnows
<1>4. job.list[e].status = "FUNDED" /\ job.list[e].extra = Granted(e)
  BY <1>1, <1>2, <1>3 DEF JobKnows, JobWorks, Expects
<1>5. DOMAIN paidOut = Event /\ paidOut[e] \in Int
  BY <1>3 DEF ReviewInv, TablesInv, Sound
<1>6. PICK a : a = ReturnedByJob(e)
  OBVIOUS
<1>7. PICK back : back = SumFunctionOnSet(AmountOf, Granted(e) \ job.extra)
  OBVIOUS
<1>8. /\ a \in Int
      /\ a = (IF job.pc # "initial" /\ job.initial > 0 THEN job.initial ELSE 0) + back
  BY <1>1, <1>2, <1>3, <1>6, <1>7, ReturnedIs
<1>9. back \in Int
  <2>1. Granted(e) \ job.extra \in SUBSET FundRequest
    BY DEF Granted
  <2>2. QED
    BY <1>1, <1>7, <2>1, RowSums
<1>10. ASSUME NEW b \in Int, b = ReturnedByJob(e)', paidOut'[e] + b = paidOut[e] + a,
              job'.event = e, OtherEvents(e)
       PROVE  FlowMoves
  <2>1. MovesBy(e, paidOut[e] + a, paidOut'[e] + b)
    BY <1>0, <1>10 DEF MovesBy, Status
  <2>2. \A s \in Slot : req[s] = Idle
    BY <1>1 DEF JobWorks
  <2>3. QED
    BY <1>0, <1>2, <1>3, <1>6, <1>8, <1>10, <2>1, <2>2, JobFlow
<1>11. CASE JobRefundsInitial
  <2>1. /\ paidOut' = [paidOut EXCEPT ![e] = @ - job.initial]
        /\ job' = [job EXCEPT !.pc = JobStage(0, job.extra)] /\ job.pc = "initial"
    BY <1>2, <1>11 DEF JobRefundsInitial, CreditForEvent
  <2>2. /\ job'.event = e /\ job'.extra = job.extra /\ job'.initial = job.initial
        /\ job'.list = job.list /\ job'.pc \in {"extra", "mark"}
    BY <1>1, <1>2, <2>1 DEF JobWorks, JobFields, JobStage
  <2>3. job.initial >= 0
    BY <1>1, <2>1 DEF JobKnows
  <2>4. PICK b : b = job.initial + back
    OBVIOUS
  <2>5. b = ReturnedByJob(e)'
    <3>1. ReturnedByJob(e)' = (IF job.initial > 0 THEN job.initial ELSE 0) + back
      BY <1>1, <1>4, <1>7, <2>2 DEF ReturnedByJob
    <3>2. QED
      BY <1>3, <2>3, <2>4, <3>1
  <2>6. OtherEvents(e) /\ paidOut'[e] = paidOut[e] - job.initial
    BY <1>0, <1>3, <1>5, <2>1 DEF OtherEvents
  <2>7. b \in Int /\ paidOut'[e] + b = paidOut[e] + a
    BY <1>3, <1>5, <1>8, <1>9, <2>1, <2>4, <2>6
  <2>8. QED
    BY <1>10, <2>2, <2>5, <2>6, <2>7
<1>12. CASE JobRefundsExtra
  <2>1. PICK f \in job.extra :
          /\ paidOut' = [paidOut EXCEPT ![e] = @ - fund[f].amount]
          /\ job' = [job EXCEPT !.extra = @ \ {f}, !.pc = JobStage(0, job.extra \ {f})]
    BY <1>2, <1>12 DEF JobRefundsExtra, CreditForEvent
  <2>2. PICK r : r = job.extra \ {f}
    OBVIOUS
  <2>3. /\ job'.event = e /\ job'.extra = r /\ job'.initial = job.initial
        /\ job'.list = job.list /\ job'.pc = JobStage(0, r) /\ job.pc = "extra"
    <3>1. job.pc = "extra"
      BY <1>12 DEF JobRefundsExtra
    <3>2. job' = [job EXCEPT !.extra = r, !.pc = JobStage(0, r)]
      BY <2>1, <2>2
    <3>3. QED
      BY <1>1, <1>2, <3>1, <3>2 DEF JobWorks, JobFields
  <2>4. PICK total : total = SumFunctionOnSet(AmountOf, Granted(e) \ r)
    OBVIOUS
  <2>5. PICK amount : amount = fund[f].amount
    OBVIOUS
  <2>6. amount \in Int /\ AmountOf[f] = amount /\ f \in FundRequest
    BY <1>1, <1>3, <2>5 DEF Granted, FundsTyped, FundRow, AmountOf
  <2>7. total \in Int /\ back = total - amount
    <3>1. PICK S : S = Granted(e) \ r
      OBVIOUS
    <3>2. S \in SUBSET FundRequest /\ f \in S /\ S \ {f} = Granted(e) \ job.extra
      BY <1>3, <2>2, <2>6, <3>1 DEF Granted
    <3>3. SumFunctionOnSet(AmountOf, S \ {f}) = SumFunctionOnSet(AmountOf, S) - AmountOf[f]
          /\ SumFunctionOnSet(AmountOf, S) \in Int
      BY <1>1, <3>2, RowSums
    <3>4. QED
      BY <1>7, <2>4, <2>6, <3>1, <3>2, <3>3
  <2>8. PICK first : first = IF job.initial > 0 THEN job.initial ELSE 0
    OBVIOUS
  <2>9. ReturnedByJob(e)' = first + total
    <3>1. job'.pc \in {"extra", "mark"}
      BY <2>3 DEF JobStage
    <3>2. QED
      BY <1>1, <1>4, <2>3, <2>4, <2>8, <3>1 DEF ReturnedByJob
  <2>10. OtherEvents(e) /\ paidOut'[e] = paidOut[e] - amount
    BY <1>0, <1>3, <1>5, <2>1, <2>5 DEF OtherEvents
  <2>11. a = first + back /\ first \in Int
    BY <1>3, <1>8, <2>3, <2>8
  <2>12. first + total \in Int /\ paidOut'[e] + (first + total) = paidOut[e] + a
    BY <1>5, <1>9, <2>6, <2>7, <2>10, <2>11
  <2>13. QED
    BY <1>10, <2>3, <2>9, <2>10, <2>12
<1>13. QED
  BY <1>11, <1>12

LEMMA JobReadsStatusFlow ==
    ASSUME IsFiniteSet(Slot), ReviewInv, ReviewInv', JobReadsStatus
    PROVE  FlowMoves
<1>0. /\ job.pc = "mark" /\ job' = [job EXCEPT !.prior = Status(job.event), !.pc = "set"]
      /\ UNCHANGED <<event, trail, paidOut, req, fund>>
  BY DEF JobReadsStatus, vars, ledgerVars
<1>1. JobWorks /\ JobKnows /\ FundsTyped /\ AmountOf' = AmountOf
  <2>1. JobWorks
    BY <1>0, AtWork
  <2>2. JobKnows
    BY <1>0, <2>1 DEF JobWorks
  <2>3. QED
    BY <1>0, <2>1, <2>2 DEF ReviewInv, TablesInv, FundsTyped, AmountOf
<1>2. PICK e \in Event : e = job.event
  BY <1>1 DEF JobKnows
<1>3. /\ job'.event = e /\ job'.extra = job.extra /\ job'.initial = job.initial
      /\ job'.list = job.list /\ job'.pc = "set"
  BY <1>0, <1>1, <1>2 DEF JobWorks, JobFields
<1>4. PICK a : a = ReturnedByJob(e)
  OBVIOUS
<1>5. a \in Int
  BY <1>1, <1>2, <1>4, ReturnedIs
<1>6. a = ReturnedByJob(e)'
  BY <1>0, <1>1, <1>2, <1>3, <1>4 DEF ReturnedByJob
<1>7. OtherEvents(e) /\ MovesBy(e, paidOut[e] + a, paidOut'[e] + a)
  BY <1>0 DEF OtherEvents, MovesBy, Status
<1>8. \A s \in Slot : req[s] = Idle
  BY <1>1 DEF JobWorks
<1>9. QED
  BY <1>0, <1>2, <1>3, <1>4, <1>5, <1>6, <1>7, <1>8, JobFlow

LEMMA JobCancelsFlow ==
    ASSUME IsFiniteSet(Slot), ReviewInv, ReviewInv', JobCancels
    PROVE  FlowMoves
<1>0. /\ job.pc = "set" /\ SetStatus(job.event, job.prior, "CANCELLED") /\ JobMovesOn
      /\ UNCHANGED <<paidOut, req, fund>>
  BY DEF JobCancels, ledgerVars
<1>1. JobWorks /\ JobKnows /\ FundsTyped
  <2>1. JobWorks
    BY <1>0, AtWork
  <2>2. JobKnows
    BY <1>0, <2>1 DEF JobWorks
  <2>3. QED
    BY <2>1, <2>2 DEF ReviewInv, TablesInv, FundsTyped
<1>2. PICK e \in Event : e = job.event
  BY <1>1 DEF JobKnows
<1>3. /\ Sound(e) /\ IF Status(e) = "FUNDED" THEN Owed(e, 0) ELSE Booked(e)
      /\ Status(e) \in AutoCancelable
      /\ DOMAIN event = Event /\ DOMAIN trail = Event /\ DOMAIN event[e] = EventFields
  BY <1>0, <1>1, <1>2 DEF JobWorks, JobKnows, ReviewInv, TablesInv, Expects, Sound
<1>4. OtherEvents(e) /\ Status(e)' = "CANCELLED"
  BY <1>0, <1>2, <1>3 DEF SetStatus, OtherEvents, EventFields, Status
<1>5. job'.event = NoEvent
  BY <1>0 DEF JobMovesOn, IdleJob
<1>6. ReturnedByJob(e)' = 0
  BY <1>5, LifecycleAssumption DEF ReturnedByJob
<1>7. PICK a : a = ReturnedByJob(e)
  OBVIOUS
<1>8. a \in Int /\ (Status(e) # "FUNDED" => a = 0)
  BY <1>1, <1>2, <1>7, ReturnedIs
<1>9. paidOut'[e] = paidOut[e] /\ paidOut[e] \in Int
  BY <1>0, <1>3 DEF Sound
<1>10. MovesBy(e, paidOut[e] + a, paidOut'[e] + 0)
  <2>1. CASE Status(e) = "FUNDED"
    <3>1. paidOut[e] <= 0
      BY <1>1, <1>3, <1>9, <2>1, PaidWithin DEF Owed
    <3>2. QED
      BY <1>4, <1>9, <2>1, <3>1 DEF MovesBy, Passes
  <2>2. CASE Status(e) \in {"DRAFT", "SUBMITTED"}
    <3>1. paidOut[e] = 0
      BY <1>3, <2>2 DEF Booked, Unfunded
    <3>2. QED
      BY <1>4, <1>9, <2>2, <3>1 DEF MovesBy, Passes
  <2>3. CASE Status(e) = "UNDER_REVIEW"
    BY <1>4, <1>8, <1>9, <2>3 DEF MovesBy, Passes
  <2>4. QED
    BY <1>3, <2>1, <2>2, <2>3 DEF Sound, AutoCancelable
<1>11. \A s \in Slot : req[s] = Idle
  BY <1>1 DEF JobWorks
<1>12. PICK b \in Int : b = 0
  OBVIOUS
<1>13. QED
  BY <1>0, <1>2, <1>4, <1>5, <1>6, <1>7, <1>8, <1>10, <1>11, <1>12, JobFlow

-----------------------------------------------------------------------------
(* The refinement *)

LEMMA FlowStep ==
    ASSUME IsFiniteSet(Slot), FundOp \subseteq {"askfund", "review"}, ~Overlap,
           ReviewInv, ReviewInv', OneByOne, OneByOne', NobodyDies, NobodyDies',
           [FundingNext]_allVars
    PROVE  FlowMoves
<1>1. Apart => job = IdleJob
  BY DEF Apart, ReviewInv, JobInv, JobKnows
<1>2. CASE Apart /\ Next /\ Composed
  <2>1. job = IdleJob /\ job' = job
    BY <1>1, <1>2 DEF Composed
  <2>2. \A s \in Slot : FundOfKept(s)
    BY <1>2 DEF FundOfKept, Composed
  <2>3. ASSUME NEW s \in Slot, Continue(s) PROVE FlowMoves
    <3>1. req[s] # Idle
      BY <2>3, NobodyBlocks
         DEF Continue, Running, WriteUpdate, WriteExtend, LockEvent, WriteDelete, ReadWorkflow,
         ClearApprovals, InsertApproval, ReadForHistory, WriteStatus, Decide, CheckFunds,
         Disburse, CommitFunded, Reread, Refund, InsertExpense, WriteActual, FailOnDeleted
    <3>2. PICK e : e = Ev(s)
      OBVIOUS
    <3>3. Informed(s) /\ e \in Event
      BY <3>1, <3>2 DEF ReviewInv, Informed
    <3>4. GoesOn(s, e)
      BY <2>1, <2>2, <3>1, <3>2, <3>3 DEF GoesOn, ReviewInv, TablesInv, FundsTyped
    <3>5. QED
      BY <2>3, <3>4, ContinueFlow
  <2>4. ASSUME NEW s \in Slot, Abort(s) PROVE FALSE
    BY <2>4 DEF Abort, NobodyDies
  <2>5. CASE Environment
    BY <2>1, <2>5, CreateFlow, EndFlow DEF Environment
  <2>6. QED
    BY <1>2, <2>1, <2>2, <2>3, <2>4, <2>5, BeginFlow DEF Next
<1>3. CASE Apart /\ \E s \in Slot : FundBegin(s) \/ FundContinue(s)
  <2>1. ASSUME NEW s \in Slot, FundContinue(s) PROVE FlowMoves
    <3>1. /\ req[s] # Idle /\ job' = job
          /\ fundOf' = fundOf \/ \E f : fundOf' = [fundOf EXCEPT ![s] = f]
      BY <2>1, NobodyBlocks
         DEF FundContinue, Running, CheckPending, CreateFund, FindFund, CheckTransfer,
           Transfer, MarkApproved, RaiseBudget, Refuse, OpenApprove, CheckDisburse, TransferFund,
           ReadEvent, CommitFund, OpenReject, RejectInTx, TakeoverRefund, CommitReject, StartFund,
           FinishFund, FundTimesOut, fundVars
    <3>2. PICK e : e = Ev(s)
      OBVIOUS
    <3>3. Informed(s) /\ e \in Event
      BY <3>1, <3>2 DEF ReviewInv, Informed
    <3>4. FundOfKept(s)
      BY <3>1 DEF FundOfKept, ReviewInv, TablesInv
    <3>5. GoesOn(s, e)
      BY <1>1, <1>3, <3>1, <3>2, <3>3, <3>4 DEF GoesOn, ReviewInv, TablesInv, FundsTyped
    <3>6. QED
      BY <2>1, <3>5, FundContinueFlow
  <2>2. QED
    BY <1>1, <1>3, <2>1, FundBeginFlow
<1>4. ~ \E u \in User, e \in Event \cup {NoEvent}, a \in FundAmount : CreateRequest(u, e, a)
  BY DEF CreateRequest
<1>5. CASE JobStep
  BY <1>5, JobStartsFlow, JobPicksFlow, JobRefundsFlow, JobReadsStatusFlow, JobCancelsFlow,
     JobFindsEvent DEF JobStep
<1>6. ~JobAborts
  BY DEF JobAborts, NobodyDies
<1>7. CASE UNCHANGED allVars
  <2>1. /\ event' = event /\ req' = req /\ paidOut' = paidOut /\ job' = job /\ fund' = fund
    BY <1>7 DEF allVars, fundVars, vars, eventVars, ledgerVars
  <2>2. /\ \A s \in Slot, e \in Event : InTransit(s, e)' = InTransit(s, e)
        /\ \A e \in Event : ReturnedByJob(e)' = ReturnedByJob(e) /\ Status(e)' = Status(e)
    BY <2>1 DEF InTransit, ReturnedByJob, AmountOf, Ev, At, Status
  <2>3. Held' = Held
    BY <2>1, <2>2 DEF Held
  <2>4. QED
    BY <2>2, <2>3 DEF FlowMoves, Flow!flowVars
<1>8. QED
  BY <1>2, <1>3, <1>4, <1>5, <1>6, <1>7 DEF FundingNext

LEMMA FlowInitially ==
    ASSUME IsFiniteSet(Slot), FundingInit
    PROVE  Flow!FlowInit
<1>1. /\ job = IdleJob /\ \A s \in Slot : req[s] = Idle
      /\ \A e \in Event : Status(e) = "ABSENT" /\ paidOut[e] = 0
  BY DEF FundingInit, Init, LedgerInit, Status
<1>2. ASSUME NEW e \in Event PROVE Held[e] = 0
  <2>1. ReturnedByJob(e) = 0
    BY <1>1, LifecycleAssumption DEF ReturnedByJob, IdleJob
  <2>2. \A s \in Slot : InTransit(s, e) = 0
    BY <1>1, TransitIs
  <2>3. PICK g : g = [s \in Slot |-> InTransit(s, e)]
    OBVIOUS
  <2>4. SumFunction(g) = 0
    BY <2>2, <2>3, SlotsSum
  <2>5. Carried(e) = 0
    BY <2>3, <2>4 DEF Carried
  <2>6. QED
    BY <1>1, <2>1, <2>5, HeldIs
<1>3. Held = [e \in Event |-> 0]
  BY <1>2 DEF Held
<1>4. QED
  BY <1>1, <1>3 DEF Flow!FlowInit

(***************************************************************************)
(* Under the same conditions, for any number of handlers in flight, every   *)
(* step of every handler and of the job is a step of EventFlow or a         *)
(* stutter: an event's life is what EventFlow says, and its money moves     *)
(* with its status, although the code moves the two in transactions of      *)
(* their own.                                                               *)
(***************************************************************************)
THEOREM StatusFollowsFlow ==
    ASSUME IsFiniteSet(Slot), FundOp \subseteq {"askfund", "review"}, ~Overlap
    PROVE  FundingSpec /\ []OneByOne /\ []NobodyDies => ImplementsFlow
<1>1. FundingSpec /\ []OneByOne /\ []NobodyDies => []ReviewInv
  BY ReviewHolds
<1>2. FundingInit => Flow!FlowInit
  BY FlowInitially
<1>3. /\ ReviewInv /\ ReviewInv' /\ OneByOne /\ OneByOne' /\ NobodyDies /\ NobodyDies'
      /\ [FundingNext]_allVars
      => [Flow!FlowNext]_(Flow!flowVars)
  BY FlowStep DEF FlowMoves
<1>4. QED
  BY <1>1, <1>2, <1>3, PTL DEF FundingSpec, ImplementsFlow, Flow!FlowSpec

-----------------------------------------------------------------------------
(* Somebody can go on with every open event *)

\* Each group has a treasurer.
GroupsHaveTreasurer == \A g \in Group : HoldersOf("TREASURER", g) # {}

\* The approver of r may decide it, and may look at e.
Asked(e, r) ==
    /\ r \in ApprovalRow /\ RoleOf[r.approver] \in {"TREASURER", "LEADER"}
    /\ HasGroupAccess(r.approver, GroupOfEvent(e))

\* Paid out, and more may be asked for or has been.
PaidReview == {"FUNDED", "UNDER_REVIEW"}

IsAwaited(e) == \E r \in approvals[e] : r.status = "PENDING"

ApprovalsFit(e) ==
    /\ \A r \in approvals[e] : Asked(e, r)
    /\ Status(e) = "ABSENT" => approvals[e] = {}
    /\ Status(e) = "SUBMITTED" => IsAwaited(e)
    /\ Status(e) \in PaidReview => ~IsAwaited(e)
    /\ Status(e) # "ABSENT" => event[e].creator \in Organizers

\* No other step is open than the one s is about to approve.
Concludes(s) ==
    /\ req[s].verdict = "APPROVED"
    /\ \A q \in approvals[Ev(s)] : q.status = "PENDING" => q \in req[s].rows

\* What a submission is about to write, and an approval leaves for others to decide.
Carries(s) ==
    /\ req[s].op = "submit" /\ req[s].pc \in {"clear", "insert"} =>
            /\ req[s].rows # {}
            /\ \A r \in req[s].rows : Asked(Ev(s), r) /\ r.status = "PENDING"
    /\ req[s].op = "submit" /\ req[s].pc \in {"mark", "set"} => IsAwaited(Ev(s))
    /\ req[s].op = "approve" => req[s].verdict \in ApprovalStatus
    /\ req[s].op = "approve" /\ req[s].pc = "decide" /\ req[s].target = "SUBMITTED"
            /\ req[s].verdict # "PENDING" =>
            \E q \in approvals[Ev(s)] :
                /\ q.status = "PENDING"
                /\ \A r \in req[s].rows : r.step # q.step \/ r.approver # q.approver
    /\ req[s].op = "approve" /\ (req[s].pc # "decide" \/ req[s].target = "FUNDED") => Concludes(s)

ReachInv ==
    /\ DOMAIN approvals = Event
    /\ \A e \in Event : ApprovalsFit(e)
    /\ \A s \in Slot : req[s] # Idle => Carries(s)

\* Who asked for more is the event's group.
FromFits ==
    \A f \in FundRequest : fund[f].event # NoEvent => fund[f].from = GroupOfEvent(fund[f].event)

\* Whose event it is does not change.
CreatorsStay == \A e \in Event : Status(e) # "ABSENT" => event'[e].creator = event[e].creator

\* e is submitted and paid out, and its row comes and goes, in other steps only.
Moved(e) ==
    \/ Status(e)' = Status(e)
    \/ Status(e) # "ABSENT" /\ Status(e)' \notin {"ABSENT", "SUBMITTED"} \cup PaidReview
    \/ Status(e) \in PaidReview /\ Status(e)' \in PaidReview
    \/ Status(e) = "ABSENT" /\ Status(e)' = "DRAFT" /\ event'[e].creator \in Organizers

\* s goes on with the same call, whose row may be gone.
SameCall(s) ==
    /\ req'[s].op = req[s].op /\ req'[s].pc = req[s].pc /\ req'[s].event = req[s].event
    /\ req'[s].rows = req[s].rows /\ req'[s].target = req[s].target
    /\ req'[s].verdict = req[s].verdict

LEMMA CarriesSame ==
    ASSUME NEW s \in Slot, SameCall(s), approvals'[Ev(s)] = approvals[Ev(s)],
           GroupOfEvent(Ev(s))' = GroupOfEvent(Ev(s)), Carries(s)
    PROVE  Carries(s)'
<1>1. PICK e : e = Ev(s)
  OBVIOUS
<1>2. Ev(s)' = e /\ GroupOfEvent(e)' = GroupOfEvent(e) /\ approvals'[e] = approvals[e]
  BY <1>1 DEF Ev, SameCall
<1>3. \A r : Asked(e, r)' <=> Asked(e, r)
  BY <1>2 DEF Asked
<1>4. IsAwaited(e)' <=> IsAwaited(e)
  BY <1>2 DEF IsAwaited
<1>5. Concludes(s)' <=> Concludes(s)
  BY <1>1, <1>2 DEF Concludes, SameCall
<1>6. QED
  BY <1>1, <1>2, <1>3, <1>4, <1>5, Zenon DEF Carries, SameCall

LEMMA FitSame ==
    ASSUME NEW e \in Event, approvals'[e] = approvals[e],
           Status(e) # "ABSENT" => event'[e].creator = event[e].creator,
           Moved(e), ApprovalsFit(e)
    PROVE  ApprovalsFit(e)'
<1>1. CASE Status(e) = "ABSENT"
  <2>1. approvals'[e] = {} /\ Status(e)' \in {"ABSENT", "DRAFT"}
    BY <1>1 DEF ApprovalsFit, Moved, PaidReview
  <2>2. Status(e)' # "ABSENT" => event'[e].creator \in Organizers
    BY <1>1 DEF Moved, PaidReview
  <2>3. QED
    BY <2>1, <2>2 DEF ApprovalsFit, PaidReview
<1>2. CASE Status(e) # "ABSENT"
  <2>1. GroupOfEvent(e)' = GroupOfEvent(e)
    BY <1>2 DEF GroupOfEvent
  <2>2. \A r : Asked(e, r)' <=> Asked(e, r)
    BY <2>1 DEF Asked
  <2>3. IsAwaited(e)' <=> IsAwaited(e)
    BY DEF IsAwaited
  <2>4. QED
    BY <1>2, <2>2, <2>3 DEF ApprovalsFit, Moved, PaidReview
<1>3. QED
  BY <1>1, <1>2

\* The approval rows are not written, and no event is submitted or forgotten.
LEMMA ReachStays ==
    ASSUME ReviewInv, ReachInv, approvals' = approvals, CreatorsStay,
           \A e \in Event : Moved(e),
           \A s \in Slot : req'[s] # Idle => (req[s] # Idle /\ SameCall(s)) \/ Carries(s)'
    PROVE  ReachInv'
<1>1. \A e \in Event : ApprovalsFit(e)'
  BY FitSame DEF ReachInv, CreatorsStay
<1>2. ASSUME NEW s \in Slot, req[s] # Idle, SameCall(s) PROVE Carries(s)'
  <2>1. Carries(s) /\ Ev(s) \in Event /\ Status(Ev(s)) # "ABSENT"
    BY <1>2 DEF ReachInv, ReviewInv, Informed, EditsEvent, ApprovesEvent, CancelsEvent,
       ReportsEvent, MovesEvent, AsksForMore, ReviewsFunds, Unfunded
  <2>2. GroupOfEvent(Ev(s))' = GroupOfEvent(Ev(s))
    <3>1. PICK e \in Event : e = Ev(s)
      BY <2>1
    <3>2. event'[e].creator = event[e].creator /\ Ev(s)' = e
      BY <1>2, <2>1, <3>1 DEF CreatorsStay, Ev, SameCall
    <3>3. QED
      BY <3>1, <3>2 DEF GroupOfEvent
  <2>3. QED
    BY <1>2, <2>1, <2>2, CarriesSame
<1>3. QED
  BY <1>1, <1>2 DEF ReachInv

\* s, at work on e, writes the approval rows of e or its status.
LEMMA ReachWritten ==
    ASSUME NEW s \in Slot, NEW e, GoesOn(s, e), ReachInv, NEW n, Leaves(s, e, n),
           DOMAIN approvals' = Event, \A f \in Event \ {e} : approvals'[f] = approvals[f],
           \A f \in Event \ {e} : event'[f] = event[f], ApprovalsFit(e)',
           n = Idle \/ Carries(s)'
    PROVE  ReachInv'
<1>1. e \in Event
  BY DEF GoesOn
<1>2. DOMAIN approvals' = Event /\ \A f \in Event \ {e} : approvals'[f] = approvals[f]
  OBVIOUS
<1>3. ASSUME NEW f \in Event PROVE ApprovalsFit(f)'
  <2>1. CASE f = e
    BY <2>1
  <2>2. CASE f # e
    <3>1. event'[f] = event[f] /\ approvals'[f] = approvals[f]
      BY <1>2, <2>2
    <3>2. QED
      BY <3>1, FitSame DEF Moved, Status, ReachInv
  <2>3. QED
    BY <2>1, <2>2
<1>4. ASSUME NEW t \in Slot, req'[t] # Idle PROVE Carries(t)'
  <2>1. CASE t = s
    BY <1>4, <2>1 DEF Leaves
  <2>2. CASE t # s
    <3>1. req'[t] = req[t] /\ Ev(t) # e
      BY <1>4, <2>2 DEF Leaves, OtherSlots
    <3>2. Carries(t) /\ Ev(t) \in Event
      BY <1>4, <3>1 DEF ReachInv, GoesOn, ReviewInv, Informed
    <3>3. PICK f \in Event \ {e} : f = Ev(t)
      BY <3>1, <3>2
    <3>4. event'[f] = event[f] /\ approvals'[f] = approvals[f] /\ Ev(t)' = f
      BY <1>2, <3>1, <3>3 DEF Ev
    <3>5. GroupOfEvent(Ev(t))' = GroupOfEvent(Ev(t))
      BY <3>3, <3>4 DEF GroupOfEvent
    <3>6. QED
      BY <3>1, <3>2, <3>3, <3>4, <3>5, CarriesSame DEF SameCall
  <2>3. QED
    BY <2>1, <2>2
<1>5. QED
  BY <1>2, <1>3, <1>4 DEF ReachInv

-----------------------------------------------------------------------------
(* Steps that write no approval row *)

\* The rows keep their creators, and none is submitted, paid out or forgotten.
RowsKept == CreatorsStay /\ \A e \in Event : Moved(e)

LEMMA RowKept ==
    ASSUME NEW f, \A e \in Event \ {f} : event'[e] = event[e],
           f \in Event => event'[f].creator = event[f].creator /\ Moved(f)
    PROVE  RowsKept
<1>1. ASSUME NEW e \in Event
      PROVE  event'[e].creator = event[e].creator /\ Moved(e)
  <2>1. CASE e = f
    BY <2>1
  <2>2. CASE e # f
    BY <2>2 DEF Moved, Status
  <2>3. QED
    BY <2>1, <2>2
<1>2. QED
  BY <1>1 DEF RowsKept, CreatorsStay

LEMMA NoRowWritten == ASSUME event' = event PROVE RowsKept
  BY DEF RowsKept, CreatorsStay, Moved, Status

LEMMA ReachReads ==
    ASSUME NEW s \in Slot, NEW e, GoesOn(s, e), ReachInv, approvals' = approvals, RowsKept,
           NEW n, Leaves(s, e, n), n = Idle \/ Carries(s)'
    PROVE  ReachInv'
<1>1. ASSUME NEW t \in Slot, req'[t] # Idle
      PROVE  (req[t] # Idle /\ SameCall(t)) \/ Carries(t)'
  <2>1. CASE t = s
    BY <1>1, <2>1 DEF Leaves
  <2>2. CASE t # s
    <3>1. req'[t] = req[t]
      BY <1>1, <2>2 DEF Leaves, OtherSlots
    <3>2. QED
      BY <1>1, <3>1 DEF SameCall
  <2>3. QED
    BY <2>1, <2>2
<1>2. QED
  BY <1>1, ReachStays DEF GoesOn, RowsKept

LEMMA CarriesNothing ==
    ASSUME NEW s, req'[s].op \notin {"submit", "approve"}
    PROVE  Carries(s)'
  BY DEF Carries

LEMMA MarkReach ==
    ASSUME NEW s \in Slot, NEW e, GoesOn(s, e), ReachInv, req[s].op # "submit",
           ReadForHistory(s) \/ WriteStatus(s)
    PROVE  ReachInv'
<1>0. /\ approvals' = approvals /\ req[s].pc \in {"mark", "set"} /\ DOMAIN req[s] = HandlerFields
      /\ Ev(s) = e /\ DOMAIN event = Event /\ DOMAIN event[e] = EventFields /\ e \in Event
  BY DEF ReadForHistory, WriteStatus, eventVars, GoesOn, Informed, Sound, ReviewInv, TablesInv
<1>1. /\ req[s].op # "approve" /\ Status(e) # "ABSENT"
      /\ \/ req[s].target \notin {"ABSENT", "SUBMITTED"} \cup PaidReview
         \/ Status(e) \in PaidReview /\ req[s].target \in PaidReview
  BY <1>0 DEF GoesOn, Informed, EditsEvent, ApprovesEvent, CancelsEvent, ReportsEvent, MovesEvent,
     AsksForMore, ReviewsFunds, PaidReview, Unfunded
<1>2. PICK n : /\ req' = [req EXCEPT ![s] = n]
               /\ n = Idle \/ n.op = req[s].op
  <2>1. CASE ReadForHistory(s)
    <3>1. PICK n : n = [req[s] EXCEPT !.prior = Status(e), !.pc = "set"]
      OBVIOUS
    <3>2. req' = [req EXCEPT ![s] = n] /\ n.op = req[s].op
      BY <1>0, <2>1, <3>1 DEF ReadForHistory, HandlerFields
    <3>3. QED
      BY <3>2
  <2>2. CASE WriteStatus(s)
    <3>1. PICK n : n = AfterStatus(req[s])
      OBVIOUS
    <3>2. req' = [req EXCEPT ![s] = n]
      BY <2>2, <3>1 DEF WriteStatus
    <3>3. n = Idle \/ n.op = req[s].op
      BY <1>0, <3>1 DEF AfterStatus, HandlerFields
    <3>4. QED
      BY <3>2, <3>3
  <2>3. QED
    BY <2>1, <2>2
<1>3. Leaves(s, e, n)
  BY <1>2, SetLeaves DEF GoesOn
<1>4. n = Idle \/ Carries(s)'
  BY <1>1, <1>2, <1>3, CarriesNothing DEF Leaves
<1>5. RowsKept
  <2>1. CASE ReadForHistory(s)
    BY <2>1, NoRowWritten DEF ReadForHistory, eventVars
  <2>2. CASE WriteStatus(s)
    <3>1. PICK x : x = req[s].target
      OBVIOUS
    <3>2. event' = [event EXCEPT ![e].status = x]
      BY <1>0, <2>2, <3>1 DEF WriteStatus, SetStatus
    <3>3. /\ \A f \in Event \ {e} : event'[f] = event[f]
          /\ event'[e].creator = event[e].creator /\ event'[e].status = x
      BY <1>0, <3>2 DEF EventFields
    <3>4. Moved(e)
      BY <1>1, <3>1, <3>3 DEF Moved, Status
    <3>5. QED
      BY <3>3, <3>4, RowKept
  <2>3. QED
    BY <2>1, <2>2
<1>6. QED
  BY <1>0, <1>3, <1>4, <1>5, ReachReads

\* Every operation but a submission, an approval or a deletion.
LEMMA PlainReach ==
    ASSUME NEW s \in Slot, NEW e, GoesOn(s, e), ReachInv,
           req[s].op \notin {"submit", "approve", "delete"}, Continue(s)
    PROVE  ReachInv'
<1>0. /\ Ev(s) = e /\ DOMAIN event = Event /\ DOMAIN event[e] = EventFields /\ e \in Event
      /\ DOMAIN req = Slot /\ DOMAIN req[s] = HandlerFields
  BY DEF GoesOn, Informed, Sound, ReviewInv, TablesInv
<1>1. CASE ReadForHistory(s) \/ WriteStatus(s)
  BY <1>1, MarkReach
<1>2. CASE ~(ReadForHistory(s) \/ WriteStatus(s))
  <2>0. ~FailOnDeleted(s) /\ ~Deadlock(s) /\ ~TimesOut(s)
    BY NotDeleted, NobodyBlocks DEF GoesOn
  <2>1. \/ \E late \in BOOLEAN : WriteUpdate(s, late) \/ WriteExtend(s, late)
        \/ Reread(s) \/ Refund(s) \/ InsertExpense(s) \/ WriteActual(s)
    BY <1>2, <2>0, Zenon DEF Continue, LockEvent, WriteDelete, ReadWorkflow, ClearApprovals,
       InsertApproval, Decide, CheckFunds, Disburse, CommitFunded, At
  <2>2. approvals' = approvals
    BY <2>1 DEF WriteUpdate, WriteExtend, Reread, Refund, InsertExpense, WriteActual, eventVars
  <2>3. PICK n : req' = [req EXCEPT ![s] = n] /\ (n = Idle \/ n.op = req[s].op)
    <3>1. ASSUME NEW pc, Goto(s, pc) PROVE \E n : /\ req' = [req EXCEPT ![s] = n]
                                                  /\ n = Idle \/ n.op = req[s].op
      <4>1. PICK n : n = [req[s] EXCEPT !.pc = pc]
        OBVIOUS
      <4>2. req' = [req EXCEPT ![s] = n] /\ n.op = req[s].op
        BY <1>0, <3>1, <4>1 DEF Goto, HandlerFields
      <4>3. QED
        BY <4>2
    <3>2. CASE \E late \in BOOLEAN : WriteUpdate(s, late) \/ WriteExtend(s, late)
      BY <3>1, <3>2 DEF WriteUpdate, WriteExtend, Finish
    <3>3. CASE Refund(s) \/ WriteActual(s)
      BY <3>1, <3>3 DEF Refund, WriteActual, Finish
    <3>4. CASE Reread(s)
      <4>1. PICK n : n = CancelRequest(req[s].user, Ev(s))
        OBVIOUS
      <4>2. n.op = req[s].op
        BY <3>4, <4>1 DEF Reread, At, CancelRequest, Call, Idle
      <4>3. req' = [req EXCEPT ![s] = n] \/ req' = [req EXCEPT ![s] = Idle]
        BY <3>4, <4>1 DEF Reread
      <4>4. QED
        BY <4>2, <4>3
    <3>5. CASE InsertExpense(s)
      <4>1. PICK a, pc : req' = [req EXCEPT ![s].left = @ - a, ![s].pc = pc]
        BY <3>5 DEF InsertExpense
      <4>2. PICK x : x = req[s].left - a
        OBVIOUS
      <4>3. PICK n : n = [req[s] EXCEPT !.left = x, !.pc = pc]
        OBVIOUS
      <4>4. req' = [req EXCEPT ![s] = n] /\ n.op = req[s].op
        BY <1>0, <4>1, <4>2, <4>3 DEF HandlerFields
      <4>5. QED
        BY <4>4
    <3>6. QED
      BY <2>1, <3>2, <3>3, <3>4, <3>5
  <2>4. Leaves(s, e, n)
    BY <2>3, SetLeaves DEF GoesOn
  <2>5. n = Idle \/ Carries(s)'
    BY <2>3, <2>4, CarriesNothing DEF Leaves
  <2>6. RowsKept
    <3>1. CASE \E late \in BOOLEAN : WriteUpdate(s, late)
      <4>1. PICK late, x : event' = [event EXCEPT ![e].budget = x, ![e].ended = late]
        BY <1>0, <3>1 DEF WriteUpdate
      <4>2. QED
        BY <1>0, <4>1, RowKept DEF EventFields, Moved, Status
    <3>2. CASE \E late \in BOOLEAN : WriteExtend(s, late)
      <4>1. PICK late : event' = [event EXCEPT ![e].ended = late]
        BY <1>0, <3>2 DEF WriteExtend
      <4>2. QED
        BY <1>0, <4>1, RowKept DEF EventFields, Moved, Status
    <3>3. CASE WriteActual(s)
      <4>1. PICK x : event' = [event EXCEPT ![e].actual = x]
        BY <1>0, <3>3 DEF WriteActual
      <4>2. QED
        BY <1>0, <4>1, RowKept DEF EventFields, Moved, Status
    <3>4. CASE Reread(s) \/ Refund(s) \/ InsertExpense(s)
      BY <3>4, NoRowWritten DEF Reread, Refund, InsertExpense, eventVars
    <3>5. QED
      BY <2>1, <3>1, <3>2, <3>3, <3>4
  <2>7. QED
    BY <2>2, <2>4, <2>5, <2>6, ReachReads
<1>3. QED
  BY <1>1, <1>2

-----------------------------------------------------------------------------
(* Submitting and deleting *)

LEMMA WorkflowAsked ==
    ASSUME NEW e \in Event, event[e].creator \in User, NEW w \in Workflows(e)
    PROVE  w # {} /\ \A r \in w : Asked(e, r) /\ r.status = "PENDING"
<1>1. PICK g : g = GroupOfEvent(e)
  OBVIOUS
<1>2. g \in Group
  BY <1>1, OrganizationAssumption DEF GroupOfEvent
<1>3. ASSUME NEW u \in Treasurers(g), NEW r, r = Pending(1, u)
      PROVE  Asked(e, r) /\ r.status = "PENDING"
  <2>1. u \in User /\ RoleOf[u] = "TREASURER" /\ HasGroupAccess(u, g)
    BY <1>2 DEF Treasurers, HoldersOf, HasGroupAccess
  <2>2. r \in ApprovalRow /\ r.approver = u /\ r.status = "PENDING"
    BY <1>3, <2>1 DEF Pending, ApprovalRow, ApprovalStatus
  <2>3. QED
    BY <1>1, <2>1, <2>2 DEF Asked
<1>4. ASSUME NEW u \in Leaders(g), NEW r, r = Pending(2, u)
      PROVE  Asked(e, r) /\ r.status = "PENDING"
  <2>1. u \in User /\ RoleOf[u] = "LEADER" /\ HasGroupAccess(u, g)
    BY <1>2 DEF Leaders, HoldersOf, HasGroupAccess
  <2>2. r \in ApprovalRow /\ r.approver = u /\ r.status = "PENDING"
    BY <1>4, <2>1 DEF Pending, ApprovalRow, ApprovalStatus
  <2>3. QED
    BY <1>1, <2>1, <2>2 DEF Asked
<1>5. \/ \E t \in Treasurers(g) : w = {Pending(1, t)}
      \/ \E t \in Treasurers(g), l \in Leaders(g) : w = {Pending(1, t), Pending(2, l)}
  BY <1>1 DEF Workflows
<1>6. QED
  BY <1>3, <1>4, <1>5

LEMMA Submits ==
    ASSUME NEW s \in Slot, NEW e, GoesOn(s, e), ReachInv, req[s].op = "submit"
    PROVE  /\ Status(e) \in {"DRAFT", "REJECTED"} /\ req[s].target = "SUBMITTED" /\ Carries(s)
           /\ req[s].event = e /\ Ev(s) = e /\ e \in Event /\ DOMAIN req[s] = HandlerFields
           /\ ApprovalsFit(e) /\ DOMAIN approvals = Event /\ event[e].creator \in User
           /\ DOMAIN event = Event /\ DOMAIN event[e] = EventFields
<1>1. EditsEvent(s) /\ Ev(s) = e
  BY OpTells DEF GoesOn
<1>2. QED
  BY <1>1 DEF EditsEvent, GoesOn, Informed, ReachInv, Sound, ReviewInv, TablesInv, Ev

LEMMA WorkflowReach ==
    ASSUME NEW s \in Slot, NEW e, GoesOn(s, e), ReachInv, ReadWorkflow(s)
    PROVE  ReachInv'
<1>0. req[s].op = "submit" /\ approvals' = approvals /\ event' = event
  BY DEF ReadWorkflow, At, eventVars
<1>1. /\ req[s].event = e /\ Ev(s) = e /\ e \in Event /\ DOMAIN req[s] = HandlerFields
      /\ event[e].creator \in User
  BY <1>0, Submits
<1>2. RowsKept
  BY <1>0, NoRowWritten
<1>3. CASE Finish(s)
  BY <1>0, <1>2, <1>3, FinishLeaves, ReachReads
<1>4. ASSUME NEW w \in Workflows(e), req' = [req EXCEPT ![s].rows = w, ![s].pc = "clear"]
      PROVE  ReachInv'
  <2>1. PICK n : n = [req[s] EXCEPT !.rows = w, !.pc = "clear"]
    OBVIOUS
  <2>2. req' = [req EXCEPT ![s] = n]
    BY <1>4, <2>1
  <2>3. Leaves(s, e, n)
    BY <1>1, <2>2, SetLeaves DEF GoesOn
  <2>4. n.op = "submit" /\ n.event = e /\ n.pc = "clear" /\ n.rows = w
    BY <1>0, <1>1, <2>1 DEF HandlerFields
  <2>5. w # {} /\ \A r \in w : Asked(e, r)' /\ r.status = "PENDING"
    <3>1. w # {} /\ \A r \in w : Asked(e, r) /\ r.status = "PENDING"
      BY <1>1, WorkflowAsked
    <3>2. GroupOfEvent(e)' = GroupOfEvent(e)
      BY <1>0 DEF GroupOfEvent
    <3>3. QED
      BY <3>1, <3>2 DEF Asked
  <2>6. Carries(s)'
    BY <2>3, <2>4, <2>5 DEF Carries, Leaves, Ev
  <2>7. QED
    BY <1>0, <1>2, <2>3, <2>6, ReachReads
<1>5. QED
  BY <1>1, <1>3, <1>4 DEF ReadWorkflow

LEMMA ClearReach ==
    ASSUME NEW s \in Slot, NEW e, GoesOn(s, e), ReachInv, ClearApprovals(s)
    PROVE  ReachInv'
<1>0. /\ req[s].op = "submit" /\ req[s].pc = "clear" /\ event' = event
      /\ approvals' = [approvals EXCEPT ![Ev(s)] = {}]
  BY DEF ClearApprovals, At
<1>1. /\ Status(e) \in {"DRAFT", "REJECTED"} /\ Carries(s)
      /\ req[s].event = e /\ Ev(s) = e /\ e \in Event /\ DOMAIN req[s] = HandlerFields
      /\ DOMAIN approvals = Event /\ ApprovalsFit(e)
  BY <1>0, Submits
<1>2. PICK n : n = [req[s] EXCEPT !.pc = "insert"]
  OBVIOUS
<1>3. Leaves(s, e, n)
  <2>1. ForgetRows(s, Ev(s), n)
    BY <1>2 DEF ClearApprovals
  <2>2. QED
    BY <1>1, <2>1, ForgetLeaves DEF GoesOn
<1>4. n.op = "submit" /\ n.event = e /\ n.pc = "insert" /\ n.rows = req[s].rows
  BY <1>0, <1>1, <1>2 DEF HandlerFields
<1>5. /\ DOMAIN approvals' = Event /\ approvals'[e] = {}
      /\ \A f \in Event \ {e} : approvals'[f] = approvals[f]
  BY <1>0, <1>1
<1>6. ApprovalsFit(e)'
  BY <1>0, <1>1, <1>5 DEF ApprovalsFit, Status, PaidReview
<1>7. Carries(s)'
  <2>1. req[s].rows # {} /\ \A r \in req[s].rows : Asked(e, r) /\ r.status = "PENDING"
    BY <1>0, <1>1 DEF Carries
  <2>2. GroupOfEvent(e)' = GroupOfEvent(e)
    BY <1>0 DEF GroupOfEvent
  <2>3. \A r \in req[s].rows : Asked(e, r)'
    BY <2>1, <2>2 DEF Asked
  <2>4. QED
    BY <1>3, <1>4, <2>1, <2>3 DEF Carries, Leaves, Ev
<1>8. QED
  BY <1>0, <1>3, <1>5, <1>6, <1>7, ReachWritten

LEMMA InsertReach ==
    ASSUME NEW s \in Slot, NEW e, GoesOn(s, e), ReachInv, InsertApproval(s)
    PROVE  ReachInv'
<1>0. req[s].op = "submit" /\ req[s].pc = "insert" /\ event' = event
  BY DEF InsertApproval, At
<1>1. /\ Status(e) \in {"DRAFT", "REJECTED"} /\ Carries(s)
      /\ req[s].event = e /\ Ev(s) = e /\ e \in Event /\ DOMAIN req[s] = HandlerFields
      /\ DOMAIN approvals = Event /\ ApprovalsFit(e)
  BY <1>0, Submits
<1>2. CASE Finish(s) /\ approvals' = approvals
  BY <1>0, <1>2, NoRowWritten, FinishLeaves, ReachReads
<1>3. ASSUME NEW r \in req[s].rows, NEW rest, rest = req[s].rows \ {r},
             NEW pc, pc = IF rest = {} THEN "mark" ELSE "insert",
             NEW rows, rows = approvals[e] \cup {r}, approvals' = [approvals EXCEPT ![e] = rows],
             req' = [req EXCEPT ![s].rows = rest, ![s].pc = pc]
      PROVE  ReachInv'
  <2>1. PICK n : n = [req[s] EXCEPT !.rows = rest, !.pc = pc]
    OBVIOUS
  <2>2. req' = [req EXCEPT ![s] = n]
    BY <1>3, <2>1
  <2>3. Leaves(s, e, n)
    BY <1>1, <2>2, SetLeaves DEF GoesOn
  <2>4. n.op = "submit" /\ n.event = e /\ n.pc = pc /\ n.rows = rest
    BY <1>0, <1>1, <2>1 DEF HandlerFields
  <2>5. /\ DOMAIN approvals' = Event /\ approvals'[e] = rows
        /\ \A f \in Event \ {e} : approvals'[f] = approvals[f]
    BY <1>1, <1>3
  <2>6. \A q \in req[s].rows : Asked(e, q) /\ q.status = "PENDING"
    BY <1>0, <1>1 DEF Carries
  <2>7. \A q : Asked(e, q)' <=> Asked(e, q)
    BY <1>0 DEF Asked, GroupOfEvent
  <2>8. ApprovalsFit(e)'
    BY <1>0, <1>1, <1>3, <2>5, <2>6, <2>7 DEF ApprovalsFit, Status, PaidReview
  <2>9. IsAwaited(e)'
    BY <1>3, <2>5, <2>6 DEF IsAwaited
  <2>10. Carries(s)'
    <3>1. req'[s] = n /\ Ev(s)' = e
      BY <2>3, <2>4 DEF Leaves, Ev
    <3>2. CASE rest = {}
      <4>1. n.pc = "mark"
        BY <1>3, <2>4, <3>2
      <4>2. QED
        BY <2>4, <2>9, <3>1, <4>1 DEF Carries
    <3>3. CASE rest # {}
      <4>1. n.pc = "insert"
        BY <1>3, <2>4, <3>3
      <4>2. \A q \in rest : Asked(e, q)' /\ q.status = "PENDING"
        BY <1>3, <2>6, <2>7
      <4>3. QED
        BY <2>4, <3>1, <3>3, <4>1, <4>2 DEF Carries
    <3>4. QED
      BY <3>2, <3>3
  <2>11. QED
    BY <1>0, <2>3, <2>5, <2>8, <2>10, ReachWritten
<1>4. PICK r \in req[s].rows :
        \/ Finish(s) /\ approvals' = approvals
        \/ /\ approvals' = [approvals EXCEPT ![e] = @ \cup {r}]
           /\ req' = [req EXCEPT ![s].rows = req[s].rows \ {r},
                                 ![s].pc = IF req[s].rows \ {r} = {} THEN "mark" ELSE "insert"]
  BY <1>1 DEF InsertApproval
<1>5. PICK rest : rest = req[s].rows \ {r}
  OBVIOUS
<1>6. PICK pc : pc = IF rest = {} THEN "mark" ELSE "insert"
  OBVIOUS
<1>7. PICK rows : rows = approvals[e] \cup {r}
  OBVIOUS
<1>8. CASE /\ approvals' = [approvals EXCEPT ![e] = @ \cup {r}]
           /\ req' = [req EXCEPT ![s].rows = req[s].rows \ {r},
                                 ![s].pc = IF req[s].rows \ {r} = {} THEN "mark" ELSE "insert"]
  <2>1. approvals' = [approvals EXCEPT ![e] = rows]
    BY <1>7, <1>8
  <2>2. req' = [req EXCEPT ![s].rows = rest, ![s].pc = pc]
    BY <1>5, <1>6, <1>8
  <2>3. QED
    BY <1>3, <1>5, <1>6, <1>7, <2>1, <2>2
<1>9. QED
  BY <1>2, <1>4, <1>8

LEMMA SubmissionReach ==
    ASSUME NEW s \in Slot, NEW e, GoesOn(s, e), ReachInv, req[s].op = "submit",
           ReadForHistory(s) \/ WriteStatus(s)
    PROVE  ReachInv'
<1>0. approvals' = approvals /\ req[s].pc \in {"mark", "set"}
  BY DEF ReadForHistory, WriteStatus, eventVars
<1>1. /\ Carries(s) /\ req[s].target = "SUBMITTED"
      /\ req[s].event = e /\ Ev(s) = e /\ e \in Event /\ DOMAIN req[s] = HandlerFields
      /\ DOMAIN approvals = Event /\ ApprovalsFit(e)
      /\ DOMAIN event = Event /\ DOMAIN event[e] = EventFields
  BY Submits
<1>2. IsAwaited(e) /\ IsAwaited(e)'
  BY <1>0, <1>1 DEF Carries, IsAwaited
<1>3. CASE ReadForHistory(s)
  <2>1. PICK n : n = [req[s] EXCEPT !.prior = Status(e), !.pc = "set"]
    OBVIOUS
  <2>2. req' = [req EXCEPT ![s] = n]
    BY <1>1, <1>3, <2>1 DEF ReadForHistory
  <2>3. Leaves(s, e, n)
    BY <1>1, <2>2, SetLeaves DEF GoesOn
  <2>4. n.op = "submit" /\ n.event = e /\ n.pc = "set"
    BY <1>1, <2>1 DEF HandlerFields
  <2>5. Carries(s)'
    BY <1>2, <2>3, <2>4 DEF Carries, Leaves, Ev
  <2>6. RowsKept
    BY <1>3, NoRowWritten DEF ReadForHistory, eventVars
  <2>7. QED
    BY <1>0, <2>3, <2>5, <2>6, ReachReads
<1>4. CASE WriteStatus(s)
  <2>1. event' = [event EXCEPT ![e].status = "SUBMITTED"]
    BY <1>1, <1>4 DEF WriteStatus, SetStatus
  <2>2. req' = [req EXCEPT ![s] = Idle]
    BY <1>4 DEF WriteStatus, AfterStatus
  <2>3. Leaves(s, e, Idle)
    BY <1>1, <2>2, SetLeaves DEF GoesOn
  <2>4. /\ \A f \in Event \ {e} : event'[f] = event[f]
        /\ event'[e].status = "SUBMITTED" /\ event'[e].creator = event[e].creator
    BY <1>1, <2>1 DEF EventFields
  <2>5. ApprovalsFit(e)'
    <3>1. \A q : Asked(e, q)' <=> Asked(e, q)
      BY <2>4 DEF Asked, GroupOfEvent
    <3>2. event'[e].creator \in Organizers
      BY <1>1, <2>4, Submits DEF ApprovalsFit
    <3>3. QED
      BY <1>0, <1>1, <1>2, <2>4, <3>1, <3>2 DEF ApprovalsFit, Status, PaidReview
  <2>6. QED
    BY <1>0, <1>1, <2>3, <2>4, <2>5, ReachWritten
<1>5. QED
  BY <1>3, <1>4

LEMMA DeletionReach ==
    ASSUME NEW s \in Slot, NEW e, GoesOn(s, e), ReachInv, req[s].op = "delete", Continue(s)
    PROVE  ReachInv'
<1>0. /\ Ev(s) = e /\ e \in Event /\ DOMAIN approvals = Event /\ req[s].pc \in {"write", "cascade"}
      /\ DOMAIN event = Event /\ DOMAIN event[e] = EventFields /\ event[e].creator \in Organizers
      /\ DOMAIN req[s] = HandlerFields
  BY OpTells DEF GoesOn, Informed, EditsEvent, ReachInv, ApprovalsFit, Sound, ReviewInv, TablesInv
<1>1. LockEvent(s) \/ WriteDelete(s)
  <2>1. ~FailOnDeleted(s) /\ ~Deadlock(s) /\ ~TimesOut(s)
    BY NotDeleted, NobodyBlocks DEF GoesOn
  <2>2. QED
    BY <1>0, <2>1, Zenon DEF Continue, WriteUpdate, WriteExtend, ReadWorkflow, ClearApprovals,
       InsertApproval, ReadForHistory, WriteStatus, Decide, CheckFunds, Disburse, CommitFunded,
       Reread, Refund, InsertExpense, WriteActual, At
<1>2. CASE LockEvent(s)
  <2>1. PICK n : n = [req[s] EXCEPT !.pc = "cascade"]
    OBVIOUS
  <2>2. req' = [req EXCEPT ![s] = n] /\ n.op = "delete"
    BY <1>0, <1>2, <2>1 DEF LockEvent, Goto, HandlerFields
  <2>3. Leaves(s, e, n)
    BY <1>0, <2>2, SetLeaves DEF GoesOn
  <2>4. Carries(s)'
    BY <2>2, <2>3, CarriesNothing DEF Leaves
  <2>5. approvals' = approvals /\ RowsKept
    BY <1>2, NoRowWritten DEF LockEvent, eventVars
  <2>6. QED
    BY <2>3, <2>4, <2>5, ReachReads
<1>3. CASE WriteDelete(s)
  <2>1. Leaves(s, e, Idle)
    BY <1>0, <1>3, ForgetLeaves DEF GoesOn, WriteDelete
  <2>2. /\ \A f \in Event \ {e} : event'[f] = event[f]
        /\ event'[e].status = "DELETED" /\ event'[e].creator = event[e].creator
    BY <1>0, <1>3 DEF WriteDelete, EventFields
  <2>3. /\ DOMAIN approvals' = Event /\ approvals'[e] = {}
        /\ \A f \in Event \ {e} : approvals'[f] = approvals[f]
    BY <1>0, <1>3 DEF WriteDelete
  <2>4. ApprovalsFit(e)'
    BY <1>0, <2>2, <2>3 DEF ApprovalsFit, Status, PaidReview
  <2>5. QED
    BY <2>1, <2>2, <2>3, <2>4, ReachWritten
<1>4. QED
  BY <1>1, <1>2, <1>3

-----------------------------------------------------------------------------
(* Approving *)

LEMMA Approves ==
    ASSUME NEW s \in Slot, NEW e, GoesOn(s, e), ReachInv, req[s].op = "approve"
    PROVE  /\ Status(e) = "SUBMITTED" /\ Carries(s) /\ req[s].verdict \in ApprovalStatus
           /\ req[s].event = e /\ Ev(s) = e /\ e \in Event /\ DOMAIN req[s] = HandlerFields
           /\ ApprovalsFit(e) /\ IsAwaited(e) /\ DOMAIN approvals = Event
           /\ DOMAIN event = Event /\ DOMAIN event[e] = EventFields
<1>1. ApprovesEvent(s) /\ Ev(s) = e /\ Carries(s)
  BY OpTells DEF GoesOn, ReachInv
<1>2. Status(e) = "SUBMITTED" /\ req[s].verdict \in ApprovalStatus
  BY <1>1 DEF ApprovesEvent, Carries
<1>3. /\ req[s].event = e /\ e \in Event /\ DOMAIN req[s] = HandlerFields
      /\ ApprovalsFit(e) /\ DOMAIN approvals = Event
      /\ DOMAIN event = Event /\ DOMAIN event[e] = EventFields
  BY <1>1 DEF GoesOn, Informed, ReachInv, Sound, ReviewInv, TablesInv, Ev
<1>4. QED
  BY <1>1, <1>2, <1>3 DEF ApprovalsFit

\* What the decision makes of a row: the same one, or with the verdict.
LEMMA RowsDecided ==
    ASSUME NEW s \in Slot, NEW e, GoesOn(s, e), ReachInv, req[s].op = "approve",
           approvals' = Decided(s), event'[e].creator = event[e].creator
    PROVE  /\ DOMAIN approvals' = Event
           /\ \A f \in Event \ {e} : approvals'[f] = approvals[f]
           /\ \A r \in approvals'[e] : Asked(e, r)'
           /\ \A q \in approvals[e] :
                q.status = "PENDING" /\ (\/ req[s].verdict = "PENDING"
                                         \/ \A r \in req[s].rows : r.step # q.step \/ r.approver # q.approver)
                => IsAwaited(e)'
           /\ Concludes(s) => ~IsAwaited(e)'
<1>0. /\ req[s].verdict \in ApprovalStatus /\ Ev(s) = e /\ e \in Event /\ ApprovalsFit(e)
      /\ DOMAIN approvals = Event
  BY Approves
<1>1. PICK rows : rows = {IF \E mine \in req[s].rows : mine.step = r.step /\ mine.approver = r.approver
                          THEN [r EXCEPT !.status = req[s].verdict] ELSE r : r \in approvals[e]}
  OBVIOUS
<1>2. approvals' = [approvals EXCEPT ![e] = rows]
  BY <1>0, <1>1 DEF Decided
<1>3. /\ DOMAIN approvals' = Event /\ approvals'[e] = rows
      /\ \A f \in Event \ {e} : approvals'[f] = approvals[f]
  BY <1>0, <1>2
<1>4. ASSUME NEW r \in rows PROVE Asked(e, r)'
  <2>1. PICK x \in approvals[e] : r = x \/ r = [x EXCEPT !.status = req[s].verdict]
    BY <1>1
  <2>2. Asked(e, x)
    BY <1>0 DEF ApprovalsFit
  <2>3. r \in ApprovalRow /\ r.approver = x.approver
    <3>1. CASE r = x
      BY <2>2, <3>1 DEF Asked
    <3>2. CASE r = [x EXCEPT !.status = req[s].verdict]
      BY <1>0, <2>2, <3>2 DEF Asked, ApprovalRow
    <3>3. QED
      BY <2>1, <3>1, <3>2
  <2>4. QED
    BY <2>2, <2>3 DEF Asked, GroupOfEvent
<1>5. ASSUME NEW q \in approvals[e], q.status = "PENDING",
             \/ req[s].verdict = "PENDING"
             \/ \A r \in req[s].rows : r.step # q.step \/ r.approver # q.approver
      PROVE  IsAwaited(e)'
  <2>1. Asked(e, q)
    BY <1>0 DEF ApprovalsFit
  <2>2. PICK r : r = IF \E mine \in req[s].rows : mine.step = q.step /\ mine.approver = q.approver
                     THEN [q EXCEPT !.status = req[s].verdict] ELSE q
    OBVIOUS
  <2>3. r \in rows
    BY <1>1, <2>2
  <2>4. r.status = "PENDING"
    <3>1. CASE r = q
      BY <1>5, <3>1
    <3>2. CASE r = [q EXCEPT !.status = req[s].verdict] /\ req[s].verdict = "PENDING"
      BY <2>1, <3>2 DEF Asked, ApprovalRow
    <3>3. QED
      BY <1>5, <2>2, <3>1, <3>2
  <2>5. QED
    BY <1>3, <2>3, <2>4 DEF IsAwaited
<1>6. ASSUME Concludes(s), NEW r \in rows PROVE r.status # "PENDING"
  <2>1. PICK x \in approvals[e] :
          r = IF \E mine \in req[s].rows : mine.step = x.step /\ mine.approver = x.approver
              THEN [x EXCEPT !.status = req[s].verdict] ELSE x
    BY <1>1
  <2>2. Asked(e, x)
    BY <1>0 DEF ApprovalsFit
  <2>3. CASE r = [x EXCEPT !.status = req[s].verdict]
    BY <1>6, <2>2, <2>3 DEF Asked, ApprovalRow, Concludes
  <2>4. CASE /\ r = x
             /\ ~ \E mine \in req[s].rows : mine.step = x.step /\ mine.approver = x.approver
    BY <1>0, <1>6, <2>4 DEF Concludes
  <2>5. QED
    BY <2>1, <2>3, <2>4
<1>7. Concludes(s) => ~IsAwaited(e)'
  BY <1>3, <1>6 DEF IsAwaited
<1>8. QED
  BY <1>3, <1>4, <1>5, <1>7

LEMMA ApprovalGoes ==
    ASSUME NEW s \in Slot, NEW e, GoesOn(s, e), ReachInv, req[s].op = "approve",
           approvals' = approvals, event' = event,
           \/ Finish(s)
           \/ /\ req[s].pc # "decide" \/ req[s].target = "FUNDED"
              /\ \E pc \in {"fund", "pay", "commit"} : Goto(s, pc)
    PROVE  ReachInv'
<1>0. /\ req[s].verdict \in ApprovalStatus /\ req[s].event = e /\ Ev(s) = e
      /\ DOMAIN req[s] = HandlerFields /\ Carries(s)
  BY Approves
<1>1. CASE Finish(s)
  BY <1>1, NoRowWritten, FinishLeaves, ReachReads
<1>2. ASSUME NEW pc \in {"fund", "pay", "commit"}, Goto(s, pc), Concludes(s) PROVE ReachInv'
  <2>1. PICK n : n = [req[s] EXCEPT !.pc = pc]
    OBVIOUS
  <2>2. req' = [req EXCEPT ![s] = n]
    BY <1>2, <2>1 DEF Goto
  <2>3. Leaves(s, e, n)
    BY <1>0, <2>2, SetLeaves DEF GoesOn
  <2>4. /\ n.op = "approve" /\ n.pc = pc /\ n.verdict = req[s].verdict
        /\ n.rows = req[s].rows /\ n.event = e
    BY <1>0, <2>1 DEF HandlerFields
  <2>5. Carries(s)'
    <3>1. req'[s] = n /\ Ev(s)' = e
      BY <2>3, <2>4 DEF Leaves, Ev
    <3>2. Concludes(s)'
      BY <1>0, <1>2, <2>4, <3>1 DEF Concludes
    <3>3. QED
      BY <1>0, <2>4, <3>1, <3>2 DEF Carries
  <2>6. QED
    BY <2>3, <2>5, NoRowWritten, ReachReads
<1>3. QED
  BY <1>0, <1>1, <1>2 DEF Carries

LEMMA DecideReach ==
    ASSUME NEW s \in Slot, NEW e, GoesOn(s, e), ReachInv, Decide(s)
    PROVE  ReachInv'
<1>0. req[s].op = "approve" /\ req[s].pc = "decide"
  BY DEF Decide, At
<1>1. /\ Status(e) = "SUBMITTED" /\ Carries(s) /\ Ev(s) = e /\ e \in Event
      /\ IsAwaited(e) /\ DOMAIN event = Event /\ DOMAIN event[e] = EventFields
      /\ ApprovalsFit(e)
  BY <1>0, Approves
<1>2. CASE /\ approvals' = approvals /\ event' = event
           /\ Finish(s) \/ (req[s].target = "FUNDED" /\ Goto(s, "fund"))
  BY <1>0, <1>2, ApprovalGoes
<1>3. CASE approvals' = Decided(s) /\ SetStatus(e, "SUBMITTED", "REJECTED") /\ Finish(s)
  <2>1. /\ \A f \in Event \ {e} : event'[f] = event[f]
        /\ event'[e].status = "REJECTED" /\ event'[e].creator = event[e].creator
    BY <1>1, <1>3 DEF SetStatus, EventFields
  <2>2. /\ DOMAIN approvals' = Event /\ \A r \in approvals'[e] : Asked(e, r)'
        /\ \A f \in Event \ {e} : approvals'[f] = approvals[f]
    BY <1>0, <1>3, <2>1, RowsDecided
  <2>3. ApprovalsFit(e)'
    BY <1>1, <2>1, <2>2 DEF ApprovalsFit, Status, PaidReview
  <2>4. QED
    BY <1>3, <2>1, <2>2, <2>3, FinishLeaves, ReachWritten
<1>4. CASE /\ approvals' = Decided(s) /\ event' = event /\ Finish(s) /\ req[s].target = "SUBMITTED"
  <2>1. /\ DOMAIN approvals' = Event /\ \A r \in approvals'[e] : Asked(e, r)'
        /\ \A f \in Event \ {e} : approvals'[f] = approvals[f]
        /\ \A q \in approvals[e] :
                q.status = "PENDING" /\ (\/ req[s].verdict = "PENDING"
                                         \/ \A r \in req[s].rows : r.step # q.step \/ r.approver # q.approver)
                => IsAwaited(e)'
    BY <1>0, <1>4, RowsDecided
  <2>2. IsAwaited(e)'
    <3>1. CASE req[s].verdict = "PENDING"
      BY <1>1, <2>1, <3>1 DEF IsAwaited
    <3>2. CASE req[s].verdict # "PENDING"
      <4>1. PICK q \in approvals[e] :
              /\ q.status = "PENDING"
              /\ \A r \in req[s].rows : r.step # q.step \/ r.approver # q.approver
        BY <1>0, <1>1, <1>4, <3>2 DEF Carries
      <4>2. QED
        BY <2>1, <4>1
    <3>3. QED
      BY <3>1, <3>2
  <2>3. ApprovalsFit(e)'
    BY <1>1, <1>4, <2>1, <2>2 DEF ApprovalsFit, Status, PaidReview
  <2>4. QED
    BY <1>4, <2>1, <2>3, FinishLeaves, ReachWritten
<1>5. QED
  BY <1>1, <1>2, <1>3, <1>4 DEF Decide, eventVars

LEMMA CommitReach ==
    ASSUME NEW s \in Slot, NEW e, GoesOn(s, e), ReachInv, CommitFunded(s)
    PROVE  ReachInv'
<1>0. req[s].op = "approve" /\ req[s].pc = "commit" /\ approvals' = Decided(s) /\ Finish(s)
  BY DEF CommitFunded, At
<1>1. /\ Ev(s) = e /\ e \in Event /\ DOMAIN event = Event /\ DOMAIN event[e] = EventFields
      /\ Status(e) = "SUBMITTED" /\ ApprovalsFit(e) /\ Concludes(s)
  BY <1>0, Approves DEF Carries
<1>2. /\ \A f \in Event \ {e} : event'[f] = event[f]
      /\ event'[e].status = "FUNDED" /\ event'[e].creator = event[e].creator
  BY <1>1 DEF CommitFunded, SetStatus, EventFields
<1>3. /\ DOMAIN approvals' = Event /\ \A r \in approvals'[e] : Asked(e, r)'
      /\ \A f \in Event \ {e} : approvals'[f] = approvals[f]
      /\ ~IsAwaited(e)'
  BY <1>0, <1>1, <1>2, RowsDecided
<1>4. ApprovalsFit(e)'
  BY <1>1, <1>2, <1>3 DEF ApprovalsFit, Status, PaidReview
<1>5. QED
  BY <1>0, <1>2, <1>3, <1>4, FinishLeaves, ReachWritten

LEMMA ContinueReach ==
    ASSUME NEW s \in Slot, NEW e, GoesOn(s, e), ReachInv, Continue(s)
    PROVE  ReachInv'
<1>0. ~FailOnDeleted(s) /\ ~Deadlock(s) /\ ~TimesOut(s)
  BY NotDeleted, NobodyBlocks DEF GoesOn
<1>1. CASE req[s].op = "submit"
  <2>1. req[s].pc \in {"rows", "clear", "insert", "mark", "set"}
    BY <1>1, OpTells DEF GoesOn, EditsEvent
  <2>2. \/ ReadWorkflow(s) \/ ClearApprovals(s) \/ InsertApproval(s)
        \/ ReadForHistory(s) \/ WriteStatus(s)
    BY <1>0, <1>1, <2>1, Zenon DEF Continue, WriteUpdate, WriteExtend, LockEvent, WriteDelete, Decide,
       CheckFunds, Disburse, CommitFunded, Reread, Refund, InsertExpense, WriteActual, At
  <2>3. QED
    BY <1>1, <2>2, WorkflowReach, ClearReach, InsertReach, SubmissionReach
<1>2. CASE req[s].op = "approve"
  <2>1. req[s].pc \in {"decide", "fund", "pay", "commit"}
    BY <1>2, OpTells DEF GoesOn, ApprovesEvent
  <2>2. Decide(s) \/ CheckFunds(s) \/ Disburse(s) \/ CommitFunded(s)
    BY <1>0, <1>2, <2>1, Zenon DEF Continue, WriteUpdate, WriteExtend, LockEvent, WriteDelete,
       ReadWorkflow, ClearApprovals, InsertApproval, ReadForHistory, WriteStatus, Reread, Refund,
       InsertExpense, WriteActual, At
  <2>3. CASE CheckFunds(s) \/ Disburse(s)
    <3>1. /\ approvals' = approvals /\ event' = event /\ req[s].pc # "decide"
          /\ Finish(s) \/ \E pc \in {"fund", "pay", "commit"} : Goto(s, pc)
      BY <2>3 DEF CheckFunds, Disburse, At, eventVars
    <3>2. QED
      BY <1>2, <3>1, ApprovalGoes
  <2>4. QED
    BY <2>2, <2>3, DecideReach, CommitReach
<1>3. CASE req[s].op \notin {"submit", "approve"}
  BY <1>3, PlainReach, DeletionReach
<1>4. QED
  BY <1>1, <1>2, <1>3

-----------------------------------------------------------------------------
(* Asking for more, and the answer *)

LEMMA OneMoves ==
    ASSUME ReviewInv, ReachInv, approvals' = approvals, RowsKept, NEW s \in Slot, NEW n,
           req' = [req EXCEPT ![s] = n], n = Idle \/ Carries(s)'
    PROVE  ReachInv'
<1>1. req'[s] = n /\ \A t \in Slot : t # s => req'[t] = req[t]
  BY OneSlot DEF ReviewInv, TablesInv
<1>2. ASSUME NEW t \in Slot, req'[t] # Idle
      PROVE  (req[t] # Idle /\ SameCall(t)) \/ Carries(t)'
  BY <1>1, <1>2 DEF SameCall
<1>3. QED
  BY <1>2, ReachStays DEF RowsKept

LEMMA FundContinueReach ==
    ASSUME NEW s \in Slot, NEW e, GoesOn(s, e), ReachInv, FundContinue(s)
    PROVE  ReachInv' /\ CreatorsStay
<1>0. /\ Ev(s) = e /\ DOMAIN event = Event /\ DOMAIN event[e] = EventFields /\ e \in Event
      /\ DOMAIN req = Slot /\ DOMAIN req[s] = HandlerFields
  BY DEF GoesOn, Informed, Sound, ReviewInv, TablesInv
<1>1. req[s].op \notin {"approvefund", "rejectfund"}
  BY DEF GoesOn, Informed, EditsEvent, ApprovesEvent, CancelsEvent, ReportsEvent, MovesEvent,
     AsksForMore, ReviewsFunds
<1>2. \/ CheckPending(s) \/ CreateFund(s) \/ FindFund(s) \/ CheckTransfer(s) \/ Transfer(s)
      \/ MarkApproved(s) \/ RaiseBudget(s) \/ Refuse(s)
  <2>1. ~FundDeadlock(s)
    BY NobodyBlocks DEF GoesOn
  <2>2. QED
    BY <1>1, <2>1, Zenon DEF FundContinue, OpenApprove, CheckDisburse, TransferFund, ReadEvent,
       CommitFund, OpenReject, TakeoverRefund, CommitReject, FundTimesOut, At
<1>3. req[s].op \in {"askfund", "review"} /\ approvals' = approvals
  BY <1>2 DEF CheckPending, CreateFund, FindFund, CheckTransfer, Transfer, MarkApproved,
     RaiseBudget, Refuse, At, eventVars
<1>4. PICK n : req' = [req EXCEPT ![s] = n] /\ (n = Idle \/ n.op = req[s].op)
  <2>1. ASSUME NEW pc, Goto(s, pc) PROVE \E n : /\ req' = [req EXCEPT ![s] = n]
                                                /\ n = Idle \/ n.op = req[s].op
    <3>1. PICK n : n = [req[s] EXCEPT !.pc = pc]
      OBVIOUS
    <3>2. req' = [req EXCEPT ![s] = n] /\ n.op = req[s].op
      BY <1>0, <2>1, <3>1 DEF Goto, HandlerFields
    <3>3. QED
      BY <3>2
  <2>2. CASE Finish(s)
    BY <2>2 DEF Finish
  <2>3. CASE CheckPending(s) \/ CreateFund(s) \/ CheckTransfer(s) \/ Transfer(s)
    BY <2>1, <2>2, <2>3 DEF CheckPending, CreateFund, CheckTransfer, Transfer, FinishFund
  <2>4. CASE MarkApproved(s) \/ RaiseBudget(s) \/ Refuse(s)
    BY <2>1, <2>4 DEF MarkApproved, RaiseBudget, Refuse
  <2>5. CASE FindFund(s)
    <3>1. PICK pc, a : Finish(s) \/ req' = [req EXCEPT ![s] = [req[s] EXCEPT !.pc = pc, !.amount = a]]
      <4>1. CASE Finish(s)
        BY <4>1
      <4>2. CASE ~Finish(s)
        <5>1. PICK f : StartFund(s, [req[s] EXCEPT
                    !.pc = IF req[s].verdict = "APPROVED"
                           THEN "checkTransfer" ELSE "refuse",
                    !.amount = IF @ = 0 THEN fund[f].amount ELSE @], f)
          BY <2>5, <4>2, Zenon DEF FindFund
        <5>2. PICK pc : pc = IF req[s].verdict = "APPROVED" THEN "checkTransfer" ELSE "refuse"
          OBVIOUS
        <5>3. PICK a : a = IF req[s].amount = 0 THEN fund[f].amount ELSE req[s].amount
          OBVIOUS
        <5>4. req' = [req EXCEPT ![s] = [req[s] EXCEPT !.pc = pc, !.amount = a]]
          BY <5>1, <5>2, <5>3 DEF StartFund, Start
        <5>5. QED
          BY <5>4
      <4>3. QED
        BY <4>1, <4>2
    <3>2. PICK n : n = [req[s] EXCEPT !.pc = pc, !.amount = a]
      OBVIOUS
    <3>3. n.op = req[s].op
      BY <1>0, <3>2 DEF HandlerFields
    <3>4. Finish(s) \/ req' = [req EXCEPT ![s] = n]
      BY <3>1, <3>2
    <3>5. QED
      BY <2>2, <3>3, <3>4
  <2>6. QED
    BY <1>2, <2>3, <2>4, <2>5
<1>5. n = Idle \/ Carries(s)'
  BY <1>0, <1>3, <1>4, OneSlot, CarriesNothing
<1>6. RowsKept
  <2>1. CASE RaiseBudget(s)
    <3>1. PICK x : event' = [event EXCEPT ![e].budget = x]
      BY <1>0, <2>1 DEF RaiseBudget
    <3>2. QED
      BY <1>0, <3>1, RowKept DEF EventFields, Moved, Status
  <2>2. CASE ~RaiseBudget(s)
    BY <1>2, <2>2, NoRowWritten DEF CheckPending, CreateFund, FindFund, CheckTransfer, Transfer,
       MarkApproved, Refuse, eventVars
  <2>3. QED
    BY <2>1, <2>2
<1>7. QED
  BY <1>3, <1>4, <1>5, <1>6, OneMoves DEF GoesOn, RowsKept

-----------------------------------------------------------------------------
(* A call begins *)

LEMMA ApproveReach ==
    ASSUME ReviewInv, ReachInv, NEW s \in Slot, NEW u, NEW e \in Event,
           NEW v \in ApprovalStatus, BeginApprove(s, u, e, v)
    PROVE  ReachInv'
<1>0. approvals' = approvals /\ event' = event /\ ApprovalsFit(e)
  BY DEF BeginApprove, MayApprove, NextStepOf, eventVars, ReachInv
<1>1. PICK pending : pending = {q \in approvals[e] : q.status = "PENDING"}
  OBVIOUS
<1>2. PICK r \in pending :
        Start(s, [Call("approve", u, e, "decide",
                       IF v = "REJECTED" THEN "REJECTED"
                       ELSE IF v = "APPROVED" /\ pending = {r} THEN "FUNDED"
                       ELSE "SUBMITTED")
                  EXCEPT !.rows = {r}, !.verdict = v])
  BY <1>1, Zenon DEF BeginApprove, MayApprove, NextStepOf
<1>3. PICK target : target = IF v = "REJECTED" THEN "REJECTED"
                             ELSE IF v = "APPROVED" /\ pending = {r} THEN "FUNDED"
                             ELSE "SUBMITTED"
  OBVIOUS
<1>4. PICK c : c = Call("approve", u, e, "decide", target)
  OBVIOUS
<1>5. PICK n : n = [c EXCEPT !.rows = {r}, !.verdict = v]
  OBVIOUS
<1>6. /\ n.op = "approve" /\ n.event = e /\ n.pc = "decide" /\ n.target = target
      /\ n.rows = {r} /\ n.verdict = v
  BY <1>4, <1>5, CallIs DEF HandlerFields
<1>7. req' = [req EXCEPT ![s] = n]
  BY <1>2, <1>3, <1>4, <1>5 DEF Start
<1>8. req'[s] = n /\ Ev(s)' = e
  BY <1>6, <1>7, OneSlot DEF ReviewInv, TablesInv, Ev
<1>9. ASSUME target = "SUBMITTED", v # "PENDING"
      PROVE  \E q \in approvals'[e] : /\ q.status = "PENDING"
                                      /\ r.step # q.step \/ r.approver # q.approver
  <2>1. v = "APPROVED" /\ pending # {r}
    BY <1>3, <1>9 DEF ApprovalStatus
  <2>2. PICK q \in pending : q # r
    BY <2>1
  <2>3. q \in ApprovalRow /\ r \in ApprovalRow /\ q.status = r.status
    BY <1>0, <1>1 DEF ApprovalsFit, Asked
  <2>4. r.step # q.step \/ r.approver # q.approver
    BY <2>2, <2>3 DEF ApprovalRow
  <2>5. QED
    BY <1>0, <1>1, <2>4
<1>10. ASSUME target = "FUNDED" PROVE Concludes(s)'
  <2>1. v = "APPROVED" /\ pending = {r}
    BY <1>3, <1>10
  <2>2. \A q \in approvals'[e] : q.status = "PENDING" => q \in n.rows
    BY <1>0, <1>1, <1>6, <2>1
  <2>3. QED
    BY <1>6, <1>8, <2>1, <2>2 DEF Concludes
<1>11. Carries(s)'
  BY <1>6, <1>8, <1>9, <1>10 DEF Carries
<1>12. QED
  BY <1>0, <1>7, <1>11, NoRowWritten, OneMoves

LEMMA BeginReach ==
    ASSUME ReviewInv, ReachInv, NEW s \in Slot, Begin(s)
    PROVE  ReachInv' /\ CreatorsStay
<1>0. approvals' = approvals /\ event' = event /\ CreatorsStay
  BY BeginIs, NoRowWritten DEF eventVars, RowsKept
<1>1. PICK u \in User, e \in Event :
        \/ \E b \in Budget : BeginUpdate(s, u, e, b)
        \/ BeginDelete(s, u, e)
        \/ BeginSubmit(s, u, e)
        \/ \E v \in ApprovalStatus : BeginApprove(s, u, e, v)
        \/ BeginCancel(s, u, e)
        \/ \E total \in Spending, rest \in Remaining : BeginExpense(s, u, e, total, rest)
        \/ BeginExtend(s, u, e)
        \/ BeginSettle(s, u, e)
        \/ BeginView(s, u, e)
  BY DEF Begin
<1>2. ASSUME NEW n, req' = [req EXCEPT ![s] = n], n.op # "approve", n.op = "submit" => n.pc = "rows"
      PROVE  ReachInv' /\ CreatorsStay
  <2>1. req'[s] = n
    BY <1>2, OneSlot DEF ReviewInv, TablesInv
  <2>2. Carries(s)'
    BY <1>2, <2>1 DEF Carries
  <2>3. QED
    BY <1>0, <1>2, <2>2, NoRowWritten, OneMoves
<1>3. ASSUME NEW b, BeginUpdate(s, u, e, b) PROVE ReachInv'
  <2>1. PICK c : c = Call("update", u, e, "write", "DRAFT")
    OBVIOUS
  <2>2. PICK n : n = [c EXCEPT !.budget = b]
    OBVIOUS
  <2>3. req' = [req EXCEPT ![s] = n] /\ n.op = "update"
    BY <1>3, <2>1, <2>2, CallIs DEF BeginUpdate, MayUpdate, Start, HandlerFields
  <2>4. QED
    BY <1>2, <2>3
<1>4. CASE \/ BeginDelete(s, u, e) \/ BeginSubmit(s, u, e) \/ BeginExtend(s, u, e)
           \/ BeginSettle(s, u, e) \/ BeginView(s, u, e)
  <2>1. PICK op, pc, target : /\ Start(s, Call(op, u, e, pc, target)) /\ op # "approve"
                              /\ op = "submit" => pc = "rows"
    BY <1>4 DEF BeginDelete, MayDelete, BeginSubmit, MaySubmit, BeginExtend, MayExtend,
       BeginSettle, MaySettle, BeginView
  <2>2. PICK c : c = Call(op, u, e, pc, target)
    OBVIOUS
  <2>3. req' = [req EXCEPT ![s] = c] /\ c.op = op /\ c.pc = pc
    BY <2>1, <2>2, CallIs DEF Start
  <2>4. QED
    BY <1>2, <2>1, <2>3
<1>5. ASSUME NEW total, NEW rest, BeginExpense(s, u, e, total, rest) PROVE ReachInv'
  <2>1. PICK c : c = Call("expense", u, e, "expense", "ONGOING")
    OBVIOUS
  <2>2. PICK n : n = [c EXCEPT !.spent = total, !.left = total, !.amount = rest]
    OBVIOUS
  <2>3. req' = [req EXCEPT ![s] = n] /\ n.op = "expense"
    BY <1>5, <2>1, <2>2, CallIs DEF BeginExpense, MayReport, Start, HandlerFields
  <2>4. QED
    BY <1>2, <2>3
<1>6. CASE BeginCancel(s, u, e)
  <2>1. PICK n : n = CancelRequest(u, e)
    OBVIOUS
  <2>2. n.op = "cancel"
    BY <2>1 DEF CancelRequest, Call, Idle
  <2>3. Start(s, Call("cancel", u, e, "mark", "COMPLETED")) \/ Start(s, n)
    BY <1>6, <2>1 DEF BeginCancel, MayCancel
  <2>4. CASE Start(s, Call("cancel", u, e, "mark", "COMPLETED"))
    <3>1. PICK c : c = Call("cancel", u, e, "mark", "COMPLETED")
      OBVIOUS
    <3>2. req' = [req EXCEPT ![s] = c] /\ c.op = "cancel"
      BY <2>4, <3>1, CallIs DEF Start
    <3>3. QED
      BY <1>2, <3>2
  <2>5. CASE Start(s, n)
    BY <1>2, <2>2, <2>5 DEF Start
  <2>6. QED
    BY <2>3, <2>4, <2>5
<1>7. CASE \E v \in ApprovalStatus : BeginApprove(s, u, e, v)
  BY <1>0, <1>7, ApproveReach
<1>8. QED
  BY <1>0, <1>1, <1>3, <1>4, <1>5, <1>6, <1>7

LEMMA FundBeginReach ==
    ASSUME ReviewInv, ReachInv, FundOp \subseteq {"askfund", "review"}, NEW s \in Slot, FundBegin(s)
    PROVE  ReachInv' /\ CreatorsStay
<1>1. PICK u \in User :
        \/ \E e \in Event, a \in FundAmount : BeginAsk(s, u, e, a)
        \/ \E e \in Event, yes \in BOOLEAN, a \in FundAmount \cup {0} :
              BeginReview(s, u, e, yes, a)
  BY DEF FundBegin, BeginApproveFund, BeginRejectFund, MayCallFund
<1>2. approvals' = approvals /\ event' = event
  BY <1>1 DEF BeginAsk, MayAskFund, BeginReview, MayReview, eventVars
<1>3. ASSUME NEW n, req' = [req EXCEPT ![s] = n], n.op \in {"askfund", "review"} PROVE ReachInv'
  <2>1. req'[s] = n
    BY <1>3, OneSlot DEF ReviewInv, TablesInv
  <2>2. Carries(s)'
    BY <1>3, <2>1, CarriesNothing
  <2>3. QED
    BY <1>2, <1>3, <2>2, NoRowWritten, OneMoves
<1>4. ASSUME NEW e \in Event, NEW a, BeginAsk(s, u, e, a) PROVE ReachInv'
  <2>1. PICK c : c = Call("askfund", u, e, "checkPending", "UNDER_REVIEW")
    OBVIOUS
  <2>2. PICK n : n = [c EXCEPT !.amount = a]
    OBVIOUS
  <2>3. req' = [req EXCEPT ![s] = n] /\ n.op = "askfund"
    BY <1>4, <2>1, <2>2, CallIs DEF BeginAsk, MayAskFund, Start, HandlerFields
  <2>4. QED
    BY <1>3, <2>3
<1>5. ASSUME NEW e \in Event, NEW yes, NEW a, BeginReview(s, u, e, yes, a) PROVE ReachInv'
  <2>1. PICK c : c = Call("review", u, e, "findFund", "FUNDED")
    OBVIOUS
  <2>2. PICK v : v = IF yes THEN "APPROVED" ELSE "REJECTED"
    OBVIOUS
  <2>3. PICK n : n = [c EXCEPT !.amount = a, !.verdict = v]
    OBVIOUS
  <2>4. req' = [req EXCEPT ![s] = n] /\ n.op = "review"
    BY <1>5, <2>1, <2>2, <2>3, CallIs DEF BeginReview, MayReview, Start, HandlerFields
  <2>5. QED
    BY <1>3, <2>4
<1>6. QED
  BY <1>1, <1>2, <1>4, <1>5, NoRowWritten DEF RowsKept

-----------------------------------------------------------------------------
(* The clock, new events and the job *)

LEMMA AwayReach ==
    ASSUME ReviewInv, ReachInv, approvals' = approvals, req' = req, RowsKept
    PROVE  ReachInv'
<1>1. \A s \in Slot : SameCall(s)
  BY DEF SameCall
<1>2. QED
  BY <1>1, ReachStays DEF RowsKept

LEMMA EnvironmentReach ==
    ASSUME ReviewInv, ReachInv, Environment
    PROVE  ReachInv' /\ CreatorsStay
<1>0. /\ DOMAIN event = Event /\ \A e \in Event : DOMAIN event[e] = EventFields
      /\ approvals' = approvals /\ req' = req
  BY DEF ReviewInv, TablesInv, Sound, Environment, Create, EndDatePasses
<1>1. ASSUME NEW u \in User, NEW e \in Event, NEW b, NEW late, Create(u, e, b, late) PROVE RowsKept
  <2>1. PICK row : row = [status |-> "DRAFT", creator |-> u, budget |-> b,
                          actual |-> 0, ended |-> late]
    OBVIOUS
  <2>2. /\ event' = [event EXCEPT ![e] = row] /\ Status(e) = "ABSENT" /\ row.status = "DRAFT"
        /\ row.creator \in Organizers
    BY <1>1, <2>1 DEF Create
  <2>3. event'[e] = row /\ \A f \in Event \ {e} : event'[f] = event[f]
    BY <1>0, <2>2
  <2>4. ASSUME NEW f \in Event
        PROVE  /\ Status(f) # "ABSENT" => event'[f].creator = event[f].creator
               /\ Moved(f)
    <3>1. CASE f = e
      BY <2>2, <2>3, <3>1 DEF Status, Moved
    <3>2. CASE f # e
      BY <2>3, <3>2 DEF Status, Moved
    <3>3. QED
      BY <3>1, <3>2
  <2>5. QED
    BY <2>4 DEF RowsKept, CreatorsStay
<1>2. ASSUME NEW e \in Event, EndDatePasses(e) PROVE RowsKept
  <2>1. event' = [event EXCEPT ![e].ended = TRUE]
    BY <1>2 DEF EndDatePasses
  <2>2. QED
    BY <1>0, <2>1, RowKept DEF EventFields, Moved, Status
<1>3. RowsKept
  BY <1>1, <1>2 DEF Environment
<1>4. QED
  BY <1>0, <1>3, AwayReach DEF RowsKept

LEMMA JobReach ==
    ASSUME ReviewInv, ReachInv, JobStep
    PROVE  ReachInv' /\ CreatorsStay /\ fund' = fund
<1>0. /\ DOMAIN event = Event /\ \A e \in Event : DOMAIN event[e] = EventFields
  BY DEF ReviewInv, TablesInv, Sound
<1>1. approvals' = approvals /\ req' = req /\ fund' = fund
  BY DEF JobStep, JobStarts, JobPicks, JobRefundsInitial, JobRefundsExtra, JobReadsStatus, JobCancels,
     JobFailsOnDeleted, vars, eventVars
<1>2. CASE JobCancels
  <2>1. PICK e : e = job.event
    OBVIOUS
  <2>2. event' = [event EXCEPT ![e].status = "CANCELLED"]
    BY <1>2, <2>1 DEF JobCancels, SetStatus
  <2>3. /\ \A f \in Event \ {e} : event'[f] = event[f]
        /\ e \in Event => event'[e].creator = event[e].creator /\ event'[e].status = "CANCELLED"
    BY <1>0, <2>2 DEF EventFields
  <2>4. e \in Event /\ Status(e) # "ABSENT"
    <3>1. JobKnows /\ Expects(e)
      BY <1>2, <2>1 DEF JobCancels, JobRuns, ReviewInv, JobInv, JobKnows, IdleJob
    <3>2. QED
      BY <2>1, <3>1 DEF JobKnows, Expects, AutoCancelable
  <2>5. Moved(e)
    BY <2>3, <2>4 DEF Moved, Status, PaidReview
  <2>6. RowsKept
    BY <2>3, <2>5, RowKept
  <2>7. QED
    BY <1>1, <2>6, AwayReach DEF RowsKept
<1>3. CASE ~JobCancels
  <2>1. event' = event
    BY <1>3 DEF JobStep, JobStarts, JobPicks, JobRefundsInitial, JobRefundsExtra, JobReadsStatus,
       JobFailsOnDeleted, vars, eventVars
  <2>2. QED
    BY <1>1, <2>1, NoRowWritten, AwayReach DEF RowsKept
<1>4. QED
  BY <1>2, <1>3

LEMMA ContinueCreators ==
    ASSUME NEW s \in Slot, NEW e, GoesOn(s, e), Continue(s)
    PROVE  CreatorsStay
<1>0. /\ Ev(s) = e /\ DOMAIN event = Event /\ DOMAIN event[e] = EventFields /\ e \in Event
  BY DEF GoesOn, Sound, ReviewInv, TablesInv
<1>1. ASSUME \A f \in Event \ {e} : event'[f] = event[f], event'[e].creator = event[e].creator
      PROVE  CreatorsStay
  <2>1. ASSUME NEW f \in Event PROVE event'[f].creator = event[f].creator
    <3>1. CASE f = e
      BY <1>1, <3>1
    <3>2. CASE f # e
      BY <1>1, <3>2
    <3>3. QED
      BY <3>1, <3>2
  <2>2. QED
    BY <2>1 DEF CreatorsStay
<1>2. CASE event' = event
  BY <1>2 DEF CreatorsStay
<1>3. ASSUME NEW x, event' = [event EXCEPT ![e].status = x] PROVE CreatorsStay
  BY <1>0, <1>1, <1>3 DEF EventFields
<1>4. ASSUME NEW x, event' = [event EXCEPT ![e].actual = x] PROVE CreatorsStay
  BY <1>0, <1>1, <1>4 DEF EventFields
<1>5. ASSUME NEW x, event' = [event EXCEPT ![e].ended = x] PROVE CreatorsStay
  BY <1>0, <1>1, <1>5 DEF EventFields
<1>6. ASSUME NEW x, NEW y, event' = [event EXCEPT ![e].budget = x, ![e].ended = y] PROVE CreatorsStay
  BY <1>0, <1>1, <1>6 DEF EventFields
<1>7. CASE \E late \in BOOLEAN : WriteUpdate(s, late)
  BY <1>0, <1>6, <1>7 DEF WriteUpdate
<1>8. CASE \E late \in BOOLEAN : WriteExtend(s, late)
  BY <1>0, <1>5, <1>8 DEF WriteExtend
<1>9. CASE WriteActual(s)
  BY <1>0, <1>4, <1>9 DEF WriteActual
<1>10. CASE WriteDelete(s) \/ WriteStatus(s) \/ CommitFunded(s)
  BY <1>0, <1>3, <1>10 DEF WriteDelete, WriteStatus, CommitFunded, SetStatus
<1>11. CASE Decide(s)
  BY <1>0, <1>2, <1>3, <1>11 DEF Decide, SetStatus, eventVars
<1>12. ~Deadlock(s) /\ ~TimesOut(s)
  BY NobodyBlocks DEF GoesOn
<1>13. QED
  BY <1>2, <1>7, <1>8, <1>9, <1>10, <1>11, <1>12
     DEF Continue, LockEvent, ReadWorkflow, ClearApprovals, InsertApproval, ReadForHistory,
         CheckFunds, Disburse, Reread, Refund, InsertExpense, FailOnDeleted, eventVars

-----------------------------------------------------------------------------
(* Whose request it is *)

LEMMA FromStays ==
    ASSUME ReviewInv, FromFits, CreatorsStay,
           \A f \in FundRequest :
             \/ fund'[f].event = NoEvent
             \/ fund'[f].event = fund[f].event /\ fund'[f].from = fund[f].from
             \/ fund'[f].from = (GroupOfEvent(fund[f].event))'
    PROVE  FromFits'
<1>1. ASSUME NEW f \in FundRequest, fund'[f].event # NoEvent,
             fund'[f].event = fund[f].event, fund'[f].from = fund[f].from
      PROVE  fund'[f].from = (GroupOfEvent(fund[f].event))'
  <2>1. PICK e : e = fund[f].event
    OBVIOUS
  <2>2. e \in Event /\ fund[f].from = GroupOfEvent(e)
    BY <1>1, <2>1 DEF ReviewInv, TablesInv, FundRow, FromFits
  <2>3. f \in FundsOf(e)
    BY <2>1 DEF FundsOf
  <2>4. Status(e) # "ABSENT"
    BY <2>2, <2>3 DEF ReviewInv, TablesInv, Sound, FundedOnce
  <2>5. event'[e].creator = event[e].creator
    BY <2>2, <2>4 DEF CreatorsStay
  <2>6. GroupOfEvent(e)' = GroupOfEvent(e)
    BY <2>5 DEF GroupOfEvent
  <2>7. QED
    BY <1>1, <2>1, <2>2, <2>6
<1>2. QED
  BY <1>1 DEF FromFits

LEMMA FromKept ==
    ASSUME ReviewInv, FromFits, CreatorsStay, fund' = fund
    PROVE  FromFits'
  BY FromStays

LEMMA ComposedFrom ==
    ASSUME ReviewInv, FromFits, CreatorsStay, Composed
    PROVE  FromFits'
<1>1. ASSUME NEW f \in FundRequest
      PROVE  \/ fund'[f].event = NoEvent
             \/ fund'[f].event = fund[f].event /\ fund'[f].from = fund[f].from
  <2>1. DOMAIN fund[f] = {"status", "event", "from", "amount", "approved"}
    BY DEF ReviewInv, TablesInv, FundRow
  <2>2. fund'[f] = fund[f] \/ fund'[f] = [fund[f] EXCEPT !.event = NoEvent]
    BY DEF Composed
  <2>3. QED
    BY <2>1, <2>2
<1>2. QED
  BY <1>1, FromStays

LEMMA FundContinueFrom ==
    ASSUME NEW s \in Slot, NEW e, GoesOn(s, e), FromFits, CreatorsStay, FundContinue(s)
    PROVE  FromFits'
<1>0. /\ Ev(s) = e /\ e \in Event /\ fund \in [FundRequest -> FundRow] /\ ReviewInv
  BY DEF GoesOn, FundsTyped
<1>1. CASE CreateFund(s)
  <2>1. PICK f \in Unused : NewFund(f, GroupOfEvent(e), e, req[s].amount)
    BY <1>0, <1>1 DEF CreateFund
  <2>2. PICK row : row = [status |-> "PENDING", event |-> e, from |-> GroupOfEvent(e),
                          amount |-> req[s].amount, approved |-> 0]
    OBVIOUS
  <2>3. /\ fund' = [fund EXCEPT ![f] = row] /\ row.event = e /\ row.from = GroupOfEvent(e)
        /\ event' = event
    BY <1>1, <2>1, <2>2 DEF NewFund, CreateFund, eventVars
  <2>4. GroupOfEvent(e)' = GroupOfEvent(e)
    BY <2>3 DEF GroupOfEvent
  <2>5. ASSUME NEW g \in FundRequest
        PROVE  \/ fund'[g].event = fund[g].event /\ fund'[g].from = fund[g].from
               \/ fund'[g].from = (GroupOfEvent(fund[g].event))'
    <3>1. CASE g = f
      <4>1. fund'[g] = row
        BY <1>0, <2>3, <3>1
      <4>2. QED
        BY <2>3, <2>4, <4>1
    <3>2. CASE g # f
      BY <1>0, <2>3, <3>2
    <3>3. QED
      BY <3>1, <3>2
  <2>6. QED
    BY <1>0, <2>5, FromStays
<1>2. ASSUME NEW f, NEW x, NEW y,
             \/ fund' = [fund EXCEPT ![f].status = x]
             \/ fund' = [fund EXCEPT ![f].status = x, ![f].approved = y]
      PROVE  FromFits'
  <2>1. \A g \in FundRequest : DOMAIN fund[g] = {"status", "event", "from", "amount", "approved"}
    BY <1>0 DEF FundRow
  <2>2. CASE fund' = [fund EXCEPT ![f].status = x]
    <3>1. \A g \in FundRequest : fund'[g].event = fund[g].event /\ fund'[g].from = fund[g].from
      BY <1>0, <2>1, <2>2
    <3>2. QED
      BY <1>0, <3>1, FromStays
  <2>3. CASE fund' = [fund EXCEPT ![f].status = x, ![f].approved = y]
    <3>1. \A g \in FundRequest : fund'[g].event = fund[g].event /\ fund'[g].from = fund[g].from
      BY <1>0, <2>1, <2>3
    <3>2. QED
      BY <1>0, <3>1, FromStays
  <2>4. QED
    BY <1>2, <2>2, <2>3
<1>3. CASE MarkApproved(s)
  BY <1>2, <1>3 DEF MarkApproved
<1>4. CASE Refuse(s) \/ CommitFund(s) \/ OpenReject(s) \/ CommitReject(s)
  BY <1>0, <1>2, <1>4, FromKept DEF Refuse, CommitFund, OpenReject, CommitReject, RejectInTx
<1>5. CASE ~(CreateFund(s) \/ MarkApproved(s) \/ Refuse(s) \/ CommitFund(s) \/ OpenReject(s)
             \/ CommitReject(s))
  <2>1. fund' = fund
    <3>1. ~FundDeadlock(s)
      BY NobodyBlocks DEF GoesOn
    <3>2. QED
      BY <1>5, <3>1, Zenon DEF FundContinue, CheckPending, FindFund, CheckTransfer, Transfer,
         RaiseBudget, OpenApprove, CheckDisburse, TransferFund, ReadEvent, TakeoverRefund,
         FundTimesOut, fundVars
  <2>2. QED
    BY <1>0, <2>1, FromKept
<1>6. QED
  BY <1>1, <1>3, <1>4, <1>5

-----------------------------------------------------------------------------
(* Whoever may go on with an event finds it *)

LEMMA ReachStep ==
    ASSUME FundOp \subseteq {"askfund", "review"}, ~Overlap,
           ReviewInv, OneByOne, NobodyDies, NobodyDies', ReachInv, FromFits,
           [FundingNext]_allVars
    PROVE  ReachInv' /\ FromFits'
<1>1. Apart => job = IdleJob
  BY DEF Apart, ReviewInv, JobInv, JobKnows
<1>2. CASE Apart /\ Next /\ Composed
  <2>1. job = IdleJob /\ job' = job
    BY <1>1, <1>2 DEF Composed
  <2>2. \A s \in Slot : FundOfKept(s)
    BY <1>2 DEF FundOfKept, Composed
  <2>3. ASSUME NEW s \in Slot, Continue(s) PROVE ReachInv' /\ CreatorsStay
    <3>1. req[s] # Idle
      BY <2>3, NobodyBlocks
         DEF Continue, Running, WriteUpdate, WriteExtend, LockEvent, WriteDelete, ReadWorkflow,
         ClearApprovals, InsertApproval, ReadForHistory, WriteStatus, Decide, CheckFunds,
         Disburse, CommitFunded, Reread, Refund, InsertExpense, WriteActual, FailOnDeleted
    <3>2. PICK e : e = Ev(s)
      OBVIOUS
    <3>3. Informed(s) /\ e \in Event
      BY <3>1, <3>2 DEF ReviewInv, Informed
    <3>4. GoesOn(s, e)
      BY <2>1, <2>2, <3>1, <3>2, <3>3 DEF GoesOn, ReviewInv, TablesInv, FundsTyped
    <3>5. QED
      BY <2>3, <3>4, ContinueReach, ContinueCreators
  <2>4. ASSUME NEW s \in Slot, Abort(s) PROVE FALSE
    BY <2>4 DEF Abort, NobodyDies
  <2>5. ReachInv' /\ CreatorsStay
    BY <1>2, <2>3, <2>4, BeginReach, EnvironmentReach DEF Next
  <2>6. QED
    BY <1>2, <2>5, ComposedFrom
<1>3. CASE Apart /\ \E s \in Slot : FundBegin(s) \/ FundContinue(s)
  <2>1. ASSUME NEW s \in Slot, FundContinue(s) PROVE ReachInv' /\ FromFits'
    <3>1. /\ req[s] # Idle /\ job' = job
          /\ fundOf' = fundOf \/ \E f : fundOf' = [fundOf EXCEPT ![s] = f]
      BY <2>1, NobodyBlocks
         DEF FundContinue, Running, CheckPending, CreateFund, FindFund, CheckTransfer,
           Transfer, MarkApproved, RaiseBudget, Refuse, OpenApprove, CheckDisburse, TransferFund,
           ReadEvent, CommitFund, OpenReject, RejectInTx, TakeoverRefund, CommitReject, StartFund,
           FinishFund, FundTimesOut, fundVars
    <3>2. PICK e : e = Ev(s)
      OBVIOUS
    <3>3. Informed(s) /\ e \in Event
      BY <3>1, <3>2 DEF ReviewInv, Informed
    <3>4. FundOfKept(s)
      BY <3>1 DEF FundOfKept, ReviewInv, TablesInv
    <3>5. GoesOn(s, e)
      BY <1>1, <1>3, <3>1, <3>2, <3>3, <3>4 DEF GoesOn, ReviewInv, TablesInv, FundsTyped
    <3>6. QED
      BY <2>1, <3>5, FundContinueReach, FundContinueFrom
  <2>2. ASSUME NEW s \in Slot, FundBegin(s) PROVE ReachInv' /\ FromFits'
    <3>1. fund' = fund
      BY <2>2 DEF FundBegin, BeginAsk, MayAskFund, BeginReview, MayReview, BeginApproveFund,
         BeginRejectFund,
         MayCallFund, fundVars
    <3>2. QED
      BY <2>2, <3>1, FundBeginReach, FromKept
  <2>3. QED
    BY <1>3, <2>1, <2>2
<1>4. ~ \E u \in User, e \in Event \cup {NoEvent}, a \in FundAmount : CreateRequest(u, e, a)
  BY DEF CreateRequest
<1>5. CASE JobStep
  BY <1>5, JobReach, FromKept
<1>6. ~JobAborts
  BY DEF JobAborts, NobodyDies
<1>7. CASE UNCHANGED allVars
  <2>1. event' = event /\ req' = req /\ approvals' = approvals /\ fund' = fund
    BY <1>7 DEF allVars, fundVars, vars, eventVars
  <2>2. QED
    BY <2>1, NoRowWritten, AwayReach, FromKept DEF RowsKept
<1>8. QED
  BY <1>2, <1>3, <1>4, <1>5, <1>6, <1>7 DEF FundingNext

LEMMA ReachInitially ==
    ASSUME FundingInit
    PROVE  ReachInv /\ FromFits
<1>1. /\ DOMAIN approvals = Event /\ \A s \in Slot : req[s] = Idle
      /\ \A e \in Event : Status(e) = "ABSENT" /\ approvals[e] = {}
      /\ \A f \in FundRequest : fund[f].event = NoEvent
  BY DEF FundingInit, Init, Status
<1>2. QED
  BY <1>1 DEF ReachInv, FromFits, ApprovalsFit, PaidReview

LEMMA ReachHolds ==
    ASSUME FundOp \subseteq {"askfund", "review"}, ~Overlap
    PROVE  FundingSpec /\ []OneByOne /\ []NobodyDies => [](ReachInv /\ FromFits)
<1>1. FundingSpec /\ []OneByOne /\ []NobodyDies => []ReviewInv
  BY ReviewHolds
<1>2. FundingInit => ReachInv /\ FromFits
  BY ReachInitially
<1>3. /\ ReviewInv /\ OneByOne /\ NobodyDies /\ NobodyDies' /\ ReachInv /\ FromFits
      /\ [FundingNext]_allVars
      => ReachInv' /\ FromFits'
  BY ReachStep
<1>4. QED
  BY <1>1, <1>2, <1>3, PTL DEF FundingSpec

\* u's page offers the next step of e, and u's work list leads to it.
Finds(u, e) ==
    /\ Loaded(u, e) /\ NextStep[Status(e)] \in Offers(u, e)
    /\ NextStep[Status(e)] \in {"approve", "expense"} => e \in ActionRequired(u)

LEMMA CreatorFinds ==
    ASSUME ReviewInv, NEW e \in Event, Status(e) \in {"DRAFT", "REJECTED", "COMPLETED"}
    PROVE  \E u \in User : Finds(u, e)
<1>1. PICK u \in User : u = event[e].creator
  BY DEF ReviewInv, TablesInv, Sound
<1>2. Loaded(u, e)
  BY <1>1 DEF Loaded, Exists, EventStatus, HasGroupAccess, GroupOfEvent
<1>3. CASE Status(e) \in {"DRAFT", "REJECTED"}
  <2>1. canSubmit(u, e) /\ NextStep[Status(e)] = "submit"
    BY <1>1, <1>3 DEF canSubmit, isCreator, NextStep
  <2>2. QED
    BY <1>2, <2>1 DEF Finds, Offers
<1>4. CASE Status(e) = "COMPLETED"
  <2>1. canSettle(u, e) /\ NextStep[Status(e)] = "settle"
    BY <1>1, <1>4 DEF canSettle, isCreator, NextStep
  <2>2. QED
    BY <1>2, <2>1 DEF Finds, Offers
<1>5. QED
  BY <1>3, <1>4

LEMMA ApproverFinds ==
    ASSUME ReachInv, NEW e \in Event, Status(e) = "SUBMITTED"
    PROVE  \E u \in User : Finds(u, e)
<1>1. /\ \A r \in approvals[e] : Asked(e, r) /\ r.step \in {1, 2}
      /\ \E r \in approvals[e] : r.status = "PENDING"
  BY DEF ReachInv, ApprovalsFit, IsAwaited, Asked, ApprovalRow
<1>2. PICK r \in approvals[e] :
        /\ r.status = "PENDING"
        /\ \A other \in approvals[e] : other.status = "PENDING" => r.step <= other.step
  <2>1. CASE \E r \in approvals[e] : r.status = "PENDING" /\ r.step = 1
    BY <1>1, <2>1
  <2>2. CASE \A r \in approvals[e] : r.status = "PENDING" => r.step = 2
    BY <1>1, <2>2
  <2>3. QED
    BY <1>1, <2>1, <2>2
<1>3. PICK u \in User : u = r.approver
  BY <1>1 DEF Asked, ApprovalRow
<1>4. RoleOf[u] \in {"TREASURER", "LEADER"} /\ Loaded(u, e) /\ e \in Listed(u)
  BY <1>1, <1>3 DEF Asked, Loaded, Listed, Exists, EventStatus
<1>5. r \in currentPendingApproval(e)
  BY <1>2 DEF currentPendingApproval
<1>6. canApprove(u, e) /\ NextStep[Status(e)] = "approve"
  BY <1>3, <1>4, <1>5 DEF canApprove, NextStep
<1>7. "approve" \in Offers(u, e)
  BY <1>6 DEF Offers
<1>8. e \in ActionRequired(u)
  BY <1>2, <1>3, <1>4 DEF ActionRequired, TreasurersWork, LeadersWork
<1>9. QED
  BY <1>4, <1>6, <1>7, <1>8 DEF Finds

LEMMA TreasurerFinds ==
    ASSUME ReviewInv, GroupsHaveTreasurer, NEW e \in Event, Status(e) = "FUNDED"
    PROVE  \E u \in User : Finds(u, e)
<1>1. GroupOfEvent(e) \in Group
  BY OrganizationAssumption DEF ReviewInv, TablesInv, Sound, GroupOfEvent
<1>2. PICK u \in User : RoleOf[u] = "TREASURER" /\ GroupOf[u] = GroupOfEvent(e)
  BY <1>1 DEF GroupsHaveTreasurer, HoldersOf
<1>3. Loaded(u, e) /\ e \in Listed(u)
  BY <1>2 DEF Loaded, Listed, Exists, EventStatus, HasGroupAccess
<1>4. canSubmitExpenseReport(u, e) /\ NextStep[Status(e)] = "expense"
  BY <1>2 DEF canSubmitExpenseReport, isSameGroup, NextStep
<1>5. "expense" \in Offers(u, e)
  BY <1>4 DEF Offers
<1>6. e \in ActionRequired(u)
  BY <1>2, <1>3 DEF ActionRequired, TreasurersWork
<1>7. QED
  BY <1>3, <1>4, <1>5, <1>6 DEF Finds

LEMMA ParentFinds ==
    ASSUME ReviewInv, FromFits, GroupsHaveTreasurer, NEW e \in Event, Booked(e),
           Status(e) = "UNDER_REVIEW"
    PROVE  \E u \in User : Finds(u, e)
<1>1. PICK f \in FundRequest : PendingFunds(e) = {f}
  BY DEF Booked
<1>2. f \in PendingFunds(e) /\ fund[f].event = e /\ fund[f].status = "PENDING" /\ e # NoEvent
  BY <1>1, LifecycleAssumption DEF PendingFunds
<1>3. fund[f].from = GroupOfEvent(e) /\ Target(f) # NoGroup /\ Target(f) = ParentOf[GroupOfEvent(e)]
  BY <1>2 DEF FromFits, Target, ReviewInv, TablesInv
<1>4. GroupOfEvent(e) \in Group
  BY OrganizationAssumption DEF ReviewInv, TablesInv, Sound, GroupOfEvent
<1>5. Target(f) \in Group
  BY <1>3, <1>4, OrganizationAssumption
<1>6. PICK u \in User : RoleOf[u] = "TREASURER" /\ GroupOf[u] = Target(f)
  BY <1>5 DEF GroupsHaveTreasurer, HoldersOf
<1>7. Loaded(u, e)
  BY <1>3, <1>6 DEF Loaded, Exists, EventStatus, HasGroupAccess
<1>8. canReviewAdditionalFund(u, e) /\ NextStep[Status(e)] = "review"
  BY <1>2, <1>6 DEF canReviewAdditionalFund, NextStep
<1>9. "review" \in Offers(u, e)
  BY <1>8 DEF Offers
<1>10. QED
  BY <1>7, <1>8, <1>9 DEF Finds

(***************************************************************************)
(* Under the same conditions somebody's page offers the next step of every  *)
(* open event that nobody works on, and a reviewer who is to approve or to  *)
(* report finds it on the work list, if every group has a treasurer: what   *)
(* is left to decide was laid out for people who may look at the event, a   *)
(* request for more is the parent group's to answer, and a rejected event   *)
(* is its creator's again.                                                  *)
(***************************************************************************)
THEOREM EventsAreOffered ==
    ASSUME FundOp \subseteq {"askfund", "review"}, ~Overlap, GroupsHaveTreasurer
    PROVE  FundingSpec /\ []OneByOne /\ []NobodyDies => []EveryEventIsOffered
<1>1. ReviewInv /\ ReachInv /\ FromFits => EveryEventIsOffered
  <2> SUFFICES ASSUME ReviewInv, ReachInv, FromFits, NEW e \in Event, Still(e),
                      Status(e) \in DOMAIN NextStep
               PROVE  \E u \in User : Finds(u, e)
    BY DEF EveryEventIsOffered, Finds
  <2>1. Status(e) \in {"DRAFT", "REJECTED", "SUBMITTED", "FUNDED", "UNDER_REVIEW", "COMPLETED"}
    BY DEF NextStep
  <2>2. Booked(e)
    BY AtRestBooked DEF Still
  <2>3. QED
    BY <2>1, <2>2, CreatorFinds, ApproverFinds, TreasurerFinds, ParentFinds
<1>2. FundingSpec /\ []OneByOne /\ []NobodyDies => []ReviewInv
  BY ReviewHolds
<1>3. FundingSpec /\ []OneByOne /\ []NobodyDies => [](ReachInv /\ FromFits)
  BY ReachHolds
<1>4. QED
  BY <1>1, <1>2, <1>3, PTL

-----------------------------------------------------------------------------
(* What a page offers is accepted *)

\* The backend serves every button of the pages.
ButtonsAreServed == AllOps \ {"create", "view"} \subseteq Op /\ {"askfund", "review"} \subseteq FundOp

\* Administrators lead groups under another one.
AdminsHaveParent == \A u \in User : RoleOf[u] = "ADMIN" => ParentOf[GroupOf[u]] # NoGroup

Answered(u, e, op) ==
    \/ AskedAtThreshold(e, op) \/ NobodyToApprove(e, op) \/ WalletIsShort(u, e, op)
    \/ WithinBounds(e, op) => \E s \in Slot : Accepted(s, u, e, op)

LEMMA FreeToCall ==
    ASSUME NEW u \in User, NEW e \in Event, Still(e), Loaded(u, e), NEW s \in Slot
    PROVE  /\ \A op \in Op : MayCall(s, op, u, e)
           /\ \A op \in FundOp : MayCallFund(s, op, u)
<1>1. \A t \in Slot : req[t] = Idle
  BY DEF Still
<1>2. Idle.user = NoUser /\ u # NoUser
  BY LifecycleAssumption DEF Idle
<1>3. \A t \in Slot : req[t].user # u
  BY <1>1, <1>2
<1>4. QED
  BY <1>1, <1>3 DEF MayCall, MayCallFund, Loaded

LEMMA CreatorIsAnswered ==
    ASSUME ReachInv, ButtonsAreServed, Slot # {}, NEW u \in User, NEW e \in Event, Still(e),
           Loaded(u, e), NEW op \in {"edit", "delete", "submit", "extend", "settle", "cancel"},
           op \in Offers(u, e)
    PROVE  Answered(u, e, op)
<1>1. PICK s \in Slot : TRUE
  OBVIOUS
<1>2. \A o \in {"update", "delete", "submit", "extend", "settle", "cancel"} : MayCall(s, o, u, e)
  BY FreeToCall DEF ButtonsAreServed, AllOps
<1>3. event[e].creator = u
  BY Zenon DEF Offers, canEdit, canDelete, canSubmit, canExtendDate, canSettle, canCancel, isCreator
<1>4. HasGroupAccess(u, GroupOfEvent(e))
  BY DEF Loaded
<1>5. u \in Organizers
  BY <1>3 DEF ReachInv, ApprovalsFit, Loaded, Exists, EventStatus
<1>6. CASE op = "edit"
  <2>1. Status(e) \in editableStatuses
    BY <1>6 DEF Offers, canEdit, editableStatuses
  <2>2. Accepted(s, u, e, op)
    BY <1>2, <1>3, <1>4, <1>5, <1>6, <2>1 DEF Accepted, handleEdit, MayUpdate
  <2>3. QED
    BY <2>2 DEF Answered
<1>7. CASE op = "delete"
  <2>1. Status(e) = "DRAFT"
    BY <1>7 DEF Offers, canDelete
  <2>2. Accepted(s, u, e, op)
    BY <1>2, <1>3, <1>4, <1>5, <1>7, <2>1 DEF Accepted, handleDelete, MayDelete
  <2>3. QED
    BY <2>2 DEF Answered
<1>8. CASE op = "submit"
  <2>1. Status(e) \in submittableStatuses
    BY <1>8 DEF Offers, canSubmit, submittableStatuses
  <2>2. Workflows(e) # {} => Accepted(s, u, e, op)
    BY <1>2, <1>3, <1>4, <1>5, <1>8, <2>1 DEF Accepted, handleSubmitForApproval, MaySubmit
  <2>3. QED
    BY <1>8, <2>2 DEF Answered, NobodyToApprove
<1>9. CASE op = "extend"
  <2>1. Status(e) = "ONGOING"
    BY <1>9 DEF Offers, canExtendDate
  <2>2. Accepted(s, u, e, op)
    BY <1>2, <1>3, <1>4, <1>5, <1>9, <2>1 DEF Accepted, handleExtendDate, MayExtend
  <2>3. QED
    BY <2>2 DEF Answered
<1>10. CASE op = "settle"
  <2>1. Status(e) = "COMPLETED"
    BY <1>10 DEF Offers, canSettle
  <2>2. Accepted(s, u, e, op)
    BY <1>2, <1>3, <1>4, <1>5, <1>10, <2>1 DEF Accepted, handleSettle, MaySettle
  <2>3. QED
    BY <2>2 DEF Answered
<1>11. CASE op = "cancel"
  <2>1. Status(e) \in Cancelable
    BY <1>11 DEF Offers, canCancel, Cancelable, EventStatus
  <2>2. WithinBounds(e, op) => Accepted(s, u, e, op)
    BY <1>2, <1>4, <1>5, <1>11, <2>1 DEF Accepted, handleCancel, MayCancel, WithinBounds
  <2>3. QED
    BY <2>2 DEF Answered
<1>12. QED
  BY <1>6, <1>7, <1>8, <1>9, <1>10, <1>11

\* An event that is not up for approval has no step left to decide.
LEMMA ApproverIsAnswered ==
    ASSUME ReachInv, ButtonsAreServed, Slot # {}, NEW u \in User, NEW e \in Event, Still(e),
           Loaded(u, e), "approve" \in Offers(u, e)
    PROVE  Answered(u, e, "approve")
<1>1. PICK s \in Slot : TRUE
  OBVIOUS
<1>2. MayCall(s, "approve", u, e)
  BY FreeToCall DEF ButtonsAreServed, AllOps
<1>3. canApprove(u, e)
  BY DEF Offers
<1>4. u \in Reviewers
  BY <1>3 DEF canApprove, Reviewers
<1>5. PICK r \in approvals[e] :
        /\ r.status = "PENDING" /\ r.approver = u
        /\ \A other \in approvals[e] : other.status = "PENDING" => r.step <= other.step
  BY <1>3 DEF canApprove, currentPendingApproval
<1>6. r \in NextStepOf(u, e)
  BY <1>5 DEF NextStepOf
<1>7. Status(e) = "SUBMITTED"
  BY <1>3, <1>5 DEF canApprove, ReachInv, ApprovalsFit, IsAwaited, PaidReview
<1>8. WalletIsShort(u, e, "approve") \/ Accepted(s, u, e, "approve")
  BY <1>2, <1>4, <1>6, <1>7 DEF WalletIsShort, Accepted, handleApproval, MayApprove
<1>9. QED
  BY <1>8 DEF Answered

LEMMA ReportIsAnswered ==
    ASSUME ReviewInv, ButtonsAreServed, Slot # {}, NEW u \in User, NEW e \in Event, Still(e),
           Loaded(u, e), "expense" \in Offers(u, e)
    PROVE  Answered(u, e, "expense")
<1>1. PICK s \in Slot : TRUE
  OBVIOUS
<1>2. MayCall(s, "expense", u, e)
  BY FreeToCall DEF ButtonsAreServed, AllOps
<1>3. Status(e) = "FUNDED" /\ RoleOf[u] = "TREASURER" /\ HasGroupAccess(u, GroupOfEvent(e))
  BY DEF Offers, canSubmitExpenseReport, Loaded
<1>4. ASSUME NEW total \in Spending, NEW rest \in Remaining, ReportIsValid(e, total, rest)
      PROVE  Balanced(total, rest, event[e].budget)
  <2>1. total \in Int /\ rest \in Int /\ event[e].budget \in Int /\ Tolerance \in Nat
    BY LifecycleAssumption DEF ReviewInv, TablesInv, Sound
  <2>2. total + rest - event[e].budget = 0
    BY <1>4, <2>1 DEF ReportIsValid
  <2>3. QED
    BY <2>1, <2>2 DEF Balanced
<1>5. WithinBounds(e, "expense") => Accepted(s, u, e, "expense")
  BY <1>2, <1>3, <1>4 DEF Accepted, handleExpenseReport, MayReport, WithinBounds
<1>6. QED
  BY <1>5 DEF Answered

LEMMA AskIsAnswered ==
    ASSUME ReviewInv, ButtonsAreServed, AdminsHaveParent, Slot # {}, NEW u \in User,
           NEW e \in Event, Still(e), Loaded(u, e), "ask" \in Offers(u, e)
    PROVE  Answered(u, e, "ask")
<1>1. PICK s \in Slot : TRUE
  OBVIOUS
<1>2. MayCallFund(s, "askfund", u)
  BY FreeToCall DEF ButtonsAreServed
<1>3. canRequestAdditionalFund(u, e)
  BY DEF Offers
<1>4. ParentOf[GroupOfEvent(e)] # NoGroup
  BY <1>3 DEF canRequestAdditionalFund, isCreator, GroupOfEvent, AdminsHaveParent
<1>5. event[e].budget # Threshold => event[e].budget > Threshold
  <2>1. event[e].budget \in Nat /\ Threshold \in Nat
    BY LifecycleAssumption DEF ReviewInv, TablesInv, Sound
  <2>2. QED
    BY <1>3, <2>1 DEF canRequestAdditionalFund, isHighBudget
<1>6. ~AskedAtThreshold(e, "ask") /\ WithinBounds(e, "ask") => Accepted(s, u, e, "ask")
  BY <1>2, <1>3, <1>4, <1>5 DEF canRequestAdditionalFund, Accepted, handleRequestAdditionalFund,
     AskedAtThreshold, MayAskFund, WithinBounds, Loaded
<1>7. QED
  BY <1>6 DEF Answered

\* The page looks at one pending request, and there is no other.
LEMMA ReviewIsAnswered ==
    ASSUME ReviewInv, ButtonsAreServed, Slot # {}, NEW u \in User, NEW e \in Event, Still(e),
           Loaded(u, e), "review" \in Offers(u, e)
    PROVE  Answered(u, e, "review")
<1>1. PICK s \in Slot : TRUE
  OBVIOUS
<1>2. MayCallFund(s, "review", u)
  BY FreeToCall DEF ButtonsAreServed
<1>3. canReviewAdditionalFund(u, e)
  BY DEF Offers
<1>4. Booked(e)
  BY AtRestBooked DEF Still
<1>5. \A f \in PendingFunds(e) : GroupOf[u] = Target(f)
  BY <1>3, <1>4 DEF canReviewAdditionalFund, Booked
<1>6. WalletIsShort(u, e, "review") \/ Accepted(s, u, e, "review")
  BY <1>2, <1>3, <1>5 DEF WalletIsShort, canReviewAdditionalFund, Accepted,
     handleReviewAdditionalFund, MayReview, Loaded
<1>7. QED
  BY <1>6 DEF Answered

(***************************************************************************)
(* Under the same conditions a button of a freshly loaded event page is     *)
(* refused for the three reasons of the property only (asking for more at   *)
(* exactly the threshold, a submission nobody could approve, a wallet that  *)
(* does not cover the amount), whoever looks at it and whatever happened to *)
(* the event before, if administrators lead groups under another one: an    *)
(* event is its organizer's, no step is left open once it is paid out, and  *)
(* one under review has a single request, whose group is the reviewer's.    *)
(***************************************************************************)
THEOREM OffersStayAccepted ==
    ASSUME FundOp \subseteq {"askfund", "review"}, ~Overlap, ButtonsAreServed, Slot # {},
           AdminsHaveParent
    PROVE  FundingSpec /\ []OneByOne /\ []NobodyDies => []OffersAreAccepted
<1>1. ReviewInv /\ ReachInv => OffersAreAccepted
  <2> SUFFICES ASSUME ReviewInv, ReachInv, NEW u \in User, NEW e \in Event, Still(e), Loaded(u, e),
                      NEW op \in Offers(u, e)
               PROVE  Answered(u, e, op)
    BY DEF OffersAreAccepted, Answered
  <2>1. op \in {"edit", "delete", "submit", "approve", "expense", "ask", "review", "extend",
                "settle", "cancel"}
    BY DEF Offers
  <2>2. QED
    BY <2>1, CreatorIsAnswered, ApproverIsAnswered, ReportIsAnswered, AskIsAnswered, ReviewIsAnswered
<1>2. FundingSpec /\ []OneByOne /\ []NobodyDies => []ReviewInv
  BY ReviewHolds
<1>3. FundingSpec /\ []OneByOne /\ []NobodyDies => [](ReachInv /\ FromFits)
  BY ReachHolds
<1>4. QED
  BY <1>1, <1>2, <1>3, PTL
=============================================================================
