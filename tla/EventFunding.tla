----------------------------- MODULE EventFunding -----------------------------
(***************************************************************************)
(* The events module with the money that comes from the parent group: fund  *)
(* requests (FundRequestsService), the additional-fund endpoints and the    *)
(* hourly auto-cancellation (EventsService), over the handlers of           *)
(* EventLifecycle.                                                          *)
(***************************************************************************)
EXTENDS EventLifecycle, FiniteSets, Functions

CONSTANTS
    FundRequest,    \* ids of fund requests: a bound on their number
    NoRequest,
    FundOp,         \* the fund operations clients use in this instance
    FundAmount,     \* amounts asked for
    Scheduler,      \* TRUE: the hourly job runs
    Overlap         \* TRUE: also while handlers are in flight

AllFundOps == {"createfund", "approvefund", "rejectfund", "askfund", "review"}

ASSUME FundingAssumption ==
    /\ NoRequest \notin FundRequest /\ IsFiniteSet(FundRequest) /\ Group # {}
    /\ FundOp \subseteq AllFundOps
    /\ FundAmount \subseteq Nat \ {0}
    /\ Scheduler \in BOOLEAN /\ Overlap \in BOOLEAN

VARIABLES
    fund,       \* [FundRequest -> FundRow], the FundRequest table
    fundOf,     \* [Slot -> FundRequest \cup {NoRequest}], the row a handler works on
    job         \* the hourly job

fundVars == <<fund, fundOf, job>>
allVars == <<vars, fundVars>>

\* approved: approvedAmount, 0 when null.  The target is the parent of from.
FundRow == [status : {"ABSENT", "PENDING", "APPROVED", "REJECTED"},
            event : Event \cup {NoEvent}, from : Group, amount : Nat, approved : Nat]

FundPc == {"checkPending", "createFund", "findFund", "checkTransfer", "transfer",
           "markApproved", "raise", "refuse", "openApprove", "checkDisburse",
           "transferFund", "readEvent", "commitFund", "openReject", "takeover",
           "commitReject"}

\* What the job's query returned of an event, and where the job is.
Expired == [status : RowStatus, budget : Nat, extra : SUBSET FundRequest]
NotExpired == [status |-> "ABSENT", budget |-> 0, extra |-> {}]
IdleJob == [pc |-> "idle", event |-> NoEvent, prior |-> "DRAFT", initial |-> 0, extra |-> {},
            list |-> [e \in Event |-> NotExpired]]
Job == [pc : {"idle", "next", "initial", "extra", "mark", "set"},
        event : Event \cup {NoEvent}, prior : RowStatus, initial : Int,
        extra : SUBSET FundRequest, list : [Event -> Expired]]

\* Every row and local variable keeps its declared type.
FundingTypeOK ==
    /\ LifecycleTypeOK
    /\ req \in [Slot -> RequestOf(AllOps \cup AllFundOps, Pc \cup FundPc)]
    /\ fund \in [FundRequest -> FundRow]
    /\ fundOf \in [Slot -> FundRequest \cup {NoRequest}]
    /\ job \in Job

FundingInit ==
    /\ Init
    /\ fund = [f \in FundRequest |->
                 [status |-> "ABSENT", event |-> NoEvent, from |-> CHOOSE g \in Group : TRUE,
                  amount |-> 0, approved |-> 0]]
    /\ fundOf = [s \in Slot |-> NoRequest]
    /\ job = IdleJob

-----------------------------------------------------------------------------
Target(f) == ParentOf[fund[f].from]
PendingFunds(e) == {f \in FundRequest : fund[f].status = "PENDING" /\ fund[f].event = e}
Unused == {f \in FundRequest : fund[f].status = "ABSENT"}

\* s has a transaction open that has updated its fund request, and its event.
InFundTx(s) == req[s].pc \in {"checkDisburse", "transferFund", "readEvent", "commitFund",
                              "takeover", "commitReject"}
FundRowFree(f) == \A t \in Slot : fundOf[t] = f => ~InFundTx(t)
EventRowFree(e) == \A t \in Slot : Ev(t) = e => req[t].pc \notin {"takeover", "commitReject"}

\* A handler of a fund operation may start; free ids bound the requests created.
MayCallFund(s, op, u) ==
    /\ op \in FundOp
    /\ req[s] = Idle
    /\ OnePerUser => \A t \in Slot : req[t].user # u

MayCreateFund == Cardinality(Unused) > Cardinality({t \in Slot : req[t].op = "askfund"})

\* s goes on with, or answers and lets go of, its fund request.
StartFund(s, r, f) == Start(s, r) /\ fundOf' = [fundOf EXCEPT ![s] = f]
FinishFund(s) == Finish(s) /\ fundOf' = [fundOf EXCEPT ![s] = NoRequest]

NewFund(f, g, e, a) ==
    fund' = [fund EXCEPT ![f] = [status |-> "PENDING", event |-> e, from |-> g,
                                 amount |-> a, approved |-> 0]]

-----------------------------------------------------------------------------
(* EventsService: asking the parent group for more, and its answer *)

MayAskFund(s, u, e) ==
    /\ MayCallFund(s, "askfund", u) /\ Exists(e) /\ MayCreateFund
    /\ Status(e) = "FUNDED"
    /\ RoleOf[u] = "ADMIN" /\ HasGroupAccess(u, GroupOfEvent(e))
    /\ event[e].budget > Threshold
    /\ ParentOf[GroupOfEvent(e)] # NoGroup

BeginAsk(s, u, e, a) ==
    /\ MayAskFund(s, u, e)
    /\ Start(s, [Call("askfund", u, e, "checkPending", "UNDER_REVIEW") EXCEPT !.amount = a])
    /\ UNCHANGED <<eventVars, aborts, ledgerVars, fundVars>>

CheckPending(s) ==
    /\ Running(s) /\ At(s, "askfund", "checkPending")
    /\ IF PendingFunds(Ev(s)) # {} THEN Finish(s) ELSE Goto(s, "createFund")
    /\ UNCHANGED <<eventVars, aborts, ledgerVars, fundVars>>

\* Mutant: the status without the request.
CreateFundForgotten(s) ==
    /\ Running(s) /\ At(s, "askfund", "createFund")
    /\ Goto(s, "mark")
    /\ UNCHANGED <<eventVars, aborts, ledgerVars, fundVars>>
CreateFund(s) ==
    /\ Running(s) /\ At(s, "askfund", "createFund")
    /\ NoDeletion(Ev(s))
    /\ \E f \in Unused : NewFund(f, GroupOfEvent(Ev(s)), Ev(s), req[s].amount)
    /\ Goto(s, "mark")
    /\ UNCHANGED <<eventVars, aborts, ledgerVars, fundOf, job>>

MayReview(s, u, e) ==
    /\ MayCallFund(s, "review", u) /\ Exists(e)
    /\ Status(e) = "UNDER_REVIEW"
    /\ RoleOf[u] = "TREASURER"

\* a = 0: no approvedAmount in the answer.
BeginReview(s, u, e, yes, a) ==
    /\ MayReview(s, u, e)
    /\ Start(s, [Call("review", u, e, "findFund", "FUNDED") EXCEPT
                   !.amount = a, !.verdict = IF yes THEN "APPROVED" ELSE "REJECTED"])
    /\ UNCHANGED <<eventVars, aborts, ledgerVars, fundVars>>

FindFund(s) ==
    /\ Running(s) /\ At(s, "review", "findFund")
    /\ \/ /\ PendingFunds(Ev(s)) = {}
          /\ Finish(s) /\ UNCHANGED fundOf
       \/ \E f \in PendingFunds(Ev(s)) :
            \/ /\ GroupOf[req[s].user] # Target(f)
               /\ Finish(s) /\ UNCHANGED fundOf
            \/ /\ GroupOf[req[s].user] = Target(f)
               /\ StartFund(s, [req[s] EXCEPT
                    !.pc = IF req[s].verdict = "APPROVED"
                           THEN "checkTransfer" ELSE "refuse",
                    !.amount = IF @ = 0 THEN fund[f].amount ELSE @], f)
    /\ UNCHANGED <<eventVars, aborts, ledgerVars, fund, job>>

\* transferInterGroup: check, then its transaction.
CheckTransfer(s) ==
    /\ Running(s) /\ At(s, "review", "checkTransfer")
    /\ IF balance[Target(fundOf[s])] < req[s].amount
       THEN FinishFund(s) ELSE Goto(s, "transfer") /\ UNCHANGED fundOf
    /\ UNCHANGED <<eventVars, aborts, ledgerVars, fund, job>>

Transfer(s) ==
    /\ Running(s) /\ At(s, "review", "transfer")
    /\ TransferBetween(Target(fundOf[s]), fund[fundOf[s]].from, req[s].amount)
    /\ Goto(s, "markApproved")
    /\ UNCHANGED <<eventVars, aborts, fundVars>>

MarkApproved(s) ==
    /\ Running(s) /\ At(s, "review", "markApproved")
    /\ FundRowFree(fundOf[s])
    /\ fund' = [fund EXCEPT ![fundOf[s]].status = "APPROVED",
                            ![fundOf[s]].approved = req[s].amount]
    /\ Goto(s, "raise")
    /\ UNCHANGED <<eventVars, aborts, ledgerVars, fundOf, job>>

\* Mutant: the amount asked for is added, not the one granted.
RaiseBudgetUnadjusted(s) ==
    /\ Running(s) /\ At(s, "review", "raise")
    /\ EventRowFree(Ev(s)) /\ NoDeletion(Ev(s))
    /\ event' = [event EXCEPT ![Ev(s)].budget = req[s].budget + fund[fundOf[s]].amount]
    /\ Goto(s, "mark")
    /\ UNCHANGED <<approvals, expenses, trail, aborts, ledgerVars, fundVars>>
\* The new budget is computed from the one read at the start.
RaiseBudget(s) ==
    /\ Running(s) /\ At(s, "review", "raise")
    /\ EventRowFree(Ev(s)) /\ NoDeletion(Ev(s))
    /\ event' = [event EXCEPT ![Ev(s)].budget = req[s].budget + req[s].amount]
    /\ Goto(s, "mark")
    /\ UNCHANGED <<approvals, expenses, trail, aborts, ledgerVars, fundVars>>

Refuse(s) ==
    /\ Running(s) /\ At(s, "review", "refuse")
    /\ FundRowFree(fundOf[s])
    /\ fund' = [fund EXCEPT ![fundOf[s]].status = "REJECTED"]
    /\ Goto(s, "mark")
    /\ UNCHANGED <<eventVars, aborts, ledgerVars, fundOf, job>>

-----------------------------------------------------------------------------
(* FundRequestsService: any event of the group, in any status, or none *)

CreateRequest(u, e, a) ==
    /\ "createfund" \in FundOp /\ MayCreateFund
    /\ RoleOf[u] \in {"ADMIN", "TREASURER"}
    /\ ParentOf[GroupOf[u]] # NoGroup
    /\ e # NoEvent => Exists(e) /\ GroupOfEvent(e) = GroupOf[u] /\ NoDeletion(e)
    /\ \E f \in Unused : NewFund(f, GroupOf[u], e, a)
    /\ UNCHANGED <<eventVars, req, aborts, ledgerVars, fundOf, job>>

\* The request is still open and addressed to the treasurer's group.
MayDecide(u, f) ==
    RoleOf[u] = "TREASURER" /\ fund[f].status = "PENDING" /\ GroupOf[u] = Target(f)

BeginApproveFund(s, u, f) ==
    /\ MayCallFund(s, "approvefund", u)
    /\ MayDecide(u, f)
    /\ StartFund(s, [Idle EXCEPT !.op = "approvefund", !.user = u, !.event = fund[f].event,
                                 !.pc = "openApprove", !.amount = fund[f].amount], f)
    /\ UNCHANGED <<eventVars, aborts, ledgerVars, fund, job>>

\* The transaction opens and marks the request; nobody else sees that yet.
OpenApprove(s) ==
    /\ Running(s) /\ At(s, "approvefund", "openApprove")
    /\ FundRowFree(fundOf[s])
    /\ Goto(s, "checkDisburse")
    /\ UNCHANGED <<eventVars, aborts, ledgerVars, fundVars>>

\* Mutant: a refusal for want of money does not undo the approval.
CheckDisburseSwallowed(s) ==
    /\ Running(s) /\ At(s, "approvefund", "checkDisburse")
    /\ Goto(s, IF balance[Target(fundOf[s])] < req[s].amount THEN "commitFund" ELSE "transferFund")
    /\ UNCHANGED <<eventVars, aborts, ledgerVars, fundVars>>
CheckDisburse(s) ==
    /\ Running(s) /\ At(s, "approvefund", "checkDisburse")
    /\ IF balance[Target(fundOf[s])] < req[s].amount
       THEN FinishFund(s) ELSE Goto(s, "transferFund") /\ UNCHANGED fundOf
    /\ UNCHANGED <<eventVars, aborts, ledgerVars, fund, job>>

\* transferAndDisburseForEvent: in and out of the requester's wallet, net a
\* debit of the parent's; without an event, transferInterGroup.
TransferFund(s) ==
    /\ Running(s) /\ At(s, "approvefund", "transferFund")
    /\ NoDeletion(Ev(s))
    /\ IF Ev(s) = NoEvent
       THEN TransferBetween(Target(fundOf[s]), fund[fundOf[s]].from, req[s].amount)
       ELSE DebitForEvent(Target(fundOf[s]), req[s].amount, Ev(s))
    /\ Goto(s, IF Ev(s) = NoEvent THEN "commitFund" ELSE "readEvent")
    /\ UNCHANGED <<eventVars, aborts, fundVars>>

ReadEvent(s) ==
    /\ Running(s) /\ At(s, "approvefund", "readEvent")
    /\ req' = [req EXCEPT ![s].prior = Status(Ev(s)), ![s].pc = "commitFund"]
    /\ UNCHANGED <<eventVars, aborts, ledgerVars, fundVars>>

CommitFund(s) ==
    /\ Running(s) /\ At(s, "approvefund", "commitFund")
    /\ EventRowFree(Ev(s)) /\ NoDeletion(Ev(s))
    /\ fund' = [fund EXCEPT ![fundOf[s]].status = "APPROVED"]
    /\ \/ Ev(s) = NoEvent /\ UNCHANGED <<event, trail>>
       \/ /\ Ev(s) # NoEvent /\ req[s].prior = "UNDER_REVIEW"
          /\ SetStatus(Ev(s), req[s].prior, "FUNDED")
       \/ /\ Ev(s) # NoEvent /\ req[s].prior # "UNDER_REVIEW"
          /\ trail' = [trail EXCEPT ![Ev(s)] = [prev |-> req[s].prior, new |-> req[s].prior]]
          /\ UNCHANGED event
    /\ Finish(s) /\ fundOf' = [fundOf EXCEPT ![s] = NoRequest]
    /\ UNCHANGED <<approvals, expenses, aborts, ledgerVars, job>>

\* The parent's treasurer rejects and decides: CANCEL_EVENT or CONTINUE_WITH_ORIGINAL.
BeginRejectFund(s, u, f, decision) ==
    /\ MayCallFund(s, "rejectfund", u)
    /\ MayDecide(u, f)
    /\ LET e == fund[f].event
           r == [Idle EXCEPT !.op = "rejectfund", !.user = u, !.event = e,
                             !.pc = "openReject", !.target = decision]
       IN  StartFund(s, IF e = NoEvent THEN r
                        ELSE [r EXCEPT !.prior = Status(e), !.budget = event[e].budget], f)
    /\ UNCHANGED <<eventVars, aborts, ledgerVars, fund, job>>

\* The request rejected and, with an event, its status overwritten: one transaction.
RejectInTx(s) ==
    /\ fund' = [fund EXCEPT ![fundOf[s]].status = "REJECTED"]
    /\ IF Ev(s) = NoEvent THEN UNCHANGED <<event, trail>>
       ELSE SetStatus(Ev(s), req[s].prior, req[s].target)
    /\ Finish(s) /\ fundOf' = [fundOf EXCEPT ![s] = NoRequest]

\* A refund is called for, and commits before the transaction around it.
TakesOver(s) == Ev(s) # NoEvent /\ req[s].target = "CANCELLED"
                /\ req[s].prior \in {"FUNDED", "ONGOING"}

OpenReject(s) ==
    /\ Running(s) /\ At(s, "rejectfund", "openReject")
    /\ FundRowFree(fundOf[s]) /\ EventRowFree(Ev(s)) /\ NoDeletion(Ev(s))
    /\ \/ /\ TakesOver(s)
          /\ Goto(s, "takeover")
          /\ UNCHANGED <<event, trail, fund, fundOf>>
       \/ ~TakesOver(s) /\ RejectInTx(s)
    /\ UNCHANGED <<approvals, expenses, aborts, ledgerVars, job>>

TakeoverRefund(s) ==
    /\ Running(s) /\ At(s, "rejectfund", "takeover")
    /\ CreditForEvent(GroupOfEvent(Ev(s)), req[s].budget, Ev(s))
    /\ Goto(s, "commitReject")
    /\ UNCHANGED <<eventVars, aborts, fundVars>>

CommitReject(s) ==
    /\ Running(s) /\ At(s, "rejectfund", "commitReject")
    /\ RejectInTx(s)
    /\ UNCHANGED <<approvals, expenses, aborts, ledgerVars, job>>

\* s has locked its fund request and needs the event's row, which a deletion that
\* waits for the request holds: PostgreSQL fails one of the two.
FundDeadlocked(s, d) ==
    /\ Running(s) /\ At(d, "delete", "cascade") /\ Ev(d) = Ev(s)
    /\ \/ At(s, "approvefund", "commitFund")
       \/ At(s, "rejectfund", "openReject") /\ FundRowFree(fundOf[s])

FundDeadlock(s) ==
    /\ \E t \in Slot : FundDeadlocked(s, t) \/ FundDeadlocked(t, s)
    /\ FinishFund(s)
    /\ UNCHANGED <<eventVars, aborts, ledgerVars, fund, job>>

\* The transfer waits for the event a deletion holds, inside a transaction that
\* holds the request: Prisma ends it after five seconds.
FundTimesOut(s) ==
    /\ Running(s) /\ At(s, "approvefund", "transferFund")
    /\ ~NoDeletion(Ev(s))
    /\ FinishFund(s)
    /\ UNCHANGED <<eventVars, aborts, ledgerVars, fund, job>>

-----------------------------------------------------------------------------
(* The hourly job: cancel what ended without having become ONGOING *)

AutoCancelable == {"DRAFT", "SUBMITTED", "UNDER_REVIEW", "APPROVED", "FUNDED"}
IsExpired(e) == Status(e) \in AutoCancelable /\ event[e].ended

Granted(e) == {f \in FundRequest : fund[f].event = e /\ fund[f].status = "APPROVED"}
AmountOf == [f \in FundRequest |-> fund[f].amount]

\* One query: the expired events and their approved fund requests.
JobStarts ==
    /\ Scheduler /\ job.pc = "idle"
    /\ Overlap \/ \A s \in Slot : req[s] = Idle
    /\ \E e \in Event : IsExpired(e)
    /\ job' = [job EXCEPT !.pc = "next",
                 !.list = [e \in Event |->
                    IF IsExpired(e)
                    THEN [status |-> Status(e), budget |-> event[e].budget, extra |-> Granted(e)]
                    ELSE NotExpired]]
    /\ UNCHANGED <<vars, fund, fundOf>>

\* Mutant: what is refunded before the granted requests is forgotten.
JobStageExtraOnly(initial, extra) == IF extra # {} THEN "extra" ELSE "mark"
\* What is left to refund of a funded event, and then its status.
JobStage(initial, extra) ==
    IF initial > 0 THEN "initial" ELSE IF extra # {} THEN "extra" ELSE "mark"

JobPicks(e) ==
    /\ job.pc = "next" /\ job.list[e] # NotExpired
    /\ LET funded == job.list[e].status = "FUNDED"
           extra == IF funded THEN job.list[e].extra ELSE {}
           initial == IF funded THEN job.list[e].budget - SumFunctionOnSet(AmountOf, extra)
                      ELSE 0
       IN  job' = [job EXCEPT !.event = e, !.initial = initial, !.extra = extra,
                              !.pc = JobStage(initial, extra)]
    /\ UNCHANGED <<vars, fund, fundOf>>

JobRuns == job.event # NoEvent /\ ~Deleted(job.event)

\* The initial money goes back to the event's group ...
JobRefundsInitial ==
    /\ JobRuns /\ job.pc = "initial"
    /\ NoDeletion(job.event)
    /\ CreditForEvent(GroupOfEvent(job.event), job.initial, job.event)
    /\ job' = [job EXCEPT !.pc = JobStage(0, job.extra)]
    /\ UNCHANGED <<eventVars, req, aborts, fund, fundOf>>

\* ... and each approved request's amount to the group it came from.
JobRefundsExtra ==
    /\ JobRuns /\ job.pc = "extra"
    /\ NoDeletion(job.event)
    /\ \E f \in job.extra :
        /\ CreditForEvent(Target(f), fund[f].amount, job.event)
        /\ job' = [job EXCEPT !.extra = @ \ {f}, !.pc = JobStage(0, job.extra \ {f})]
    /\ UNCHANGED <<eventVars, req, aborts, fund, fundOf>>

JobReadsStatus ==
    /\ JobRuns /\ job.pc = "mark"
    /\ job' = [job EXCEPT !.prior = Status(job.event), !.pc = "set"]
    /\ UNCHANGED <<vars, fund, fundOf>>

\* Mutant: the end of the list is not noticed.
JobMovesOnForever ==
    job' = [IdleJob EXCEPT !.pc = "next",
                           !.list = [job.list EXCEPT ![job.event] = NotExpired]]
\* On to the next event of the list, if any.
JobMovesOn ==
    LET rest == [job.list EXCEPT ![job.event] = NotExpired]
    IN  job' = IF \A e \in Event : rest[e] = NotExpired THEN IdleJob
               ELSE [IdleJob EXCEPT !.pc = "next", !.list = rest]

JobCancels ==
    /\ JobRuns /\ job.pc = "set"
    /\ EventRowFree(job.event) /\ NoDeletion(job.event)
    /\ SetStatus(job.event, job.prior, "CANCELLED")
    /\ JobMovesOn
    /\ UNCHANGED <<approvals, expenses, req, aborts, ledgerVars, fund, fundOf>>

\* An error on one event is logged and the job goes on.
JobFailsOnDeleted ==
    /\ job.event # NoEvent /\ Deleted(job.event)
    /\ JobMovesOn
    /\ UNCHANGED <<vars, fund, fundOf>>

JobAborts ==
    /\ aborts < MaxAborts /\ job.pc # "idle"
    /\ job' = IdleJob
    /\ aborts' = aborts + 1
    /\ UNCHANGED <<eventVars, req, ledgerVars, fund, fundOf>>

-----------------------------------------------------------------------------
(***************************************************************************)
(* A step of EventLifecycle waits for event rows another transaction has    *)
(* locked.  A deleted event's requests lose their eventId (SetNull), so a   *)
(* deletion that has locked its event waits for their rows too.             *)
(***************************************************************************)
Composed ==
    /\ \A e \in Event : ~EventRowFree(e) => event'[e] = event[e]
    /\ \A s \in Slot : At(s, "delete", "write") /\ ~EventRowFree(Ev(s)) =>
            req'[s].pc # "cascade"
    /\ \A f \in FundRequest : fund[f].event # NoEvent /\ ~FundRowFree(f) =>
            ~(Exists(fund[f].event) /\ event'[fund[f].event].status = "DELETED")
    /\ fund' = [f \in FundRequest |->
                  IF fund[f].event # NoEvent /\ event'[fund[f].event].status = "DELETED"
                  THEN [fund[f] EXCEPT !.event = NoEvent] ELSE fund[f]]
    /\ fundOf' = [s \in Slot |-> IF req'[s] = Idle THEN NoRequest ELSE fundOf[s]]
    /\ UNCHANGED job

\* The job and the handlers keep apart unless Overlap.
Apart == Overlap \/ job.pc = "idle"

FundBegin(s) ==
    \E u \in User :
        \/ \E e \in Event, a \in FundAmount : BeginAsk(s, u, e, a)
        \/ \E e \in Event, yes \in BOOLEAN, a \in FundAmount \cup {0} :
              BeginReview(s, u, e, yes, a)
        \/ \E f \in FundRequest :
              \/ BeginApproveFund(s, u, f)
              \/ \E d \in {"CANCELLED", "FUNDED"} : BeginRejectFund(s, u, f, d)

FundContinue(s) ==
    \/ CheckPending(s) \/ CreateFund(s)
    \/ FindFund(s) \/ CheckTransfer(s) \/ Transfer(s) \/ MarkApproved(s) \/ RaiseBudget(s)
    \/ Refuse(s)
    \/ OpenApprove(s) \/ CheckDisburse(s) \/ TransferFund(s) \/ ReadEvent(s) \/ CommitFund(s)
    \/ OpenReject(s) \/ TakeoverRefund(s) \/ CommitReject(s)
    \/ FundDeadlock(s) \/ FundTimesOut(s)

JobStep ==
    \/ JobStarts \/ (\E e \in Event : JobPicks(e))
    \/ JobRefundsInitial \/ JobRefundsExtra \/ JobReadsStatus \/ JobCancels
    \/ JobFailsOnDeleted

FundingNext ==
    \/ Apart /\ Next /\ Composed
    \/ Apart /\ \E s \in Slot : FundBegin(s) \/ FundContinue(s)
    \/ Apart /\ \E u \in User, e \in Event \cup {NoEvent}, a \in FundAmount : CreateRequest(u, e, a)
    \/ JobStep \/ JobAborts

FundingSpec == FundingInit /\ [][FundingNext]_allVars

\* Started handlers run to their end; @Cron starts the job every hour.
FundingFairSpec ==
    /\ FundingSpec
    /\ \A s \in Slot : SF_allVars(Apart /\ ((Continue(s) /\ Composed) \/ FundContinue(s)))
    /\ WF_allVars(JobStep)

-----------------------------------------------------------------------------
(* Properties *)

AtRest(e) == Quiet(e) /\ job.pc = "idle"

GrantedAmount(e) ==
    SumFunctionOnSet([f \in FundRequest |-> fund[f].approved], Granted(e))

(***************************************************************************)
(* A funded event's budget is what was paid out for it and what the parent  *)
(* group granted on review (the adjusted amount, not the one asked for).    *)
(***************************************************************************)
BudgetIsCovered ==
    \A e \in Event : AtRest(e) /\ Status(e) = "FUNDED" =>
        event[e].budget = paidOut[e] + GrantedAmount(e)

(***************************************************************************)
(* An event under review waits for exactly one answer: it has one pending   *)
(* request, for its treasurer of the parent group to grant or refuse.       *)
(***************************************************************************)
UnderReviewIsAnswerable ==
    \A e \in Event : AtRest(e) /\ Status(e) = "UNDER_REVIEW" =>
        /\ Cardinality(PendingFunds(e)) = 1
        /\ \A f \in PendingFunds(e) : HoldersOf("TREASURER", Target(f)) # {}

(***************************************************************************)
(* No request is granted without its money: what left a parent's wallet     *)
(* covers all its approved requests, also when approvals overlap, die or    *)
(* run beside a deletion.  (Two approvals of one request pay it twice.)     *)
(***************************************************************************)
ApprovedIsPaid ==
    \A g \in Group : ParentOf[g] = NoGroup =>
        Opening[g] - balance[g] >=
            SumFunctionOnSet(AmountOf, {f \in FundRequest :
                Target(f) = g /\ fund[f].status = "APPROVED"})

(***************************************************************************)
(* The job's promise: what has ended unconfirmed does not stay open.  (An   *)
(* event may leave the set otherwise: reported, rejected, postponed.)       *)
(***************************************************************************)
ExpiredIsClosed == \A e \in Event : IsExpired(e) ~> ~IsExpired(e)

\* The money that went out for e, from the group's wallet or its parent's.
Left(e) == paidOut[e] + GrantedAmount(e)
AskedFor(e) == SumFunctionOnSet(AmountOf, Granted(e))

(***************************************************************************)
(* Cancelling returns all the money that went out for an event, and returns *)
(* it once, whoever cancels it: its creator or the job.  Exempt are events  *)
(* under review, which both take for events without money; the budget of an *)
(* ONGOING one comes back on top of its report's refund, and the job gives  *)
(* back too much where more had been asked for than the budget.  To which   *)
(* wallet the money comes is not said here.                                 *)
(***************************************************************************)
CancelledReturnsMoney ==
    \A e \in Event :
        Status(e) = "CANCELLED" /\ trail[e].prev # "UNDER_REVIEW" /\ AtRest(e) =>
            /\ Left(e) <= 0
            /\ trail[e].prev # "ONGOING" /\ AskedFor(e) <= event[e].budget => Left(e) = 0
=============================================================================
