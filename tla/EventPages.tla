------------------------------ MODULE EventPages ------------------------------
(***************************************************************************)
(* The event pages of the web client over the handlers of the backend: the  *)
(* buttons the detail page offers (its permission matrix), the requests     *)
(* behind them with the inputs their dialogs let through, the work list of  *)
(* the dashboards, and the figures of the final report.  A page shows what  *)
(* it has just loaded, and a request is refused when the checks its handler *)
(* begins with (May...) do not hold.                                        *)
(***************************************************************************)
EXTENDS EventRefinement

\* u's page has loaded e: reading an event completes it first if it has ended.
Loaded(u, e) ==
    /\ Exists(e) /\ HasGroupAccess(u, GroupOfEvent(e))
    /\ ~(Status(e) = "ONGOING" /\ event[e].ended)

isCreator(u, e) == event[e].creator = u
isHighBudget(e) == event[e].budget >= Threshold
isSameGroup(u, e) == GroupOf[u] = GroupOfEvent(e)

\* Mutant: any pending step will do, not the first.
currentPendingAny(e) == {r \in approvals[e] : r.status = "PENDING"}
\* The first pending approval; the event comes with its approvals in step order.
currentPendingApproval(e) ==
    {r \in approvals[e] : r.status = "PENDING" /\
        \A other \in approvals[e] : other.status = "PENDING" => r.step <= other.step}

-----------------------------------------------------------------------------
(* The permission matrix *)

canEdit(u, e) == Status(e) \in {"DRAFT", "REJECTED"} /\ isCreator(u, e)
canDelete(u, e) == Status(e) = "DRAFT" /\ isCreator(u, e)
\* Mutant: a rejected event is not offered for submission again.
canSubmitDraft(u, e) == Status(e) = "DRAFT" /\ isCreator(u, e)
canSubmit(u, e) == Status(e) \in {"DRAFT", "REJECTED"} /\ isCreator(u, e)
canCancel(u, e) == Status(e) \in {"DRAFT", "SUBMITTED", "FUNDED", "ONGOING"} /\ isCreator(u, e)
canExtendDate(u, e) == Status(e) = "ONGOING" /\ isCreator(u, e)
canSettle(u, e) == Status(e) = "COMPLETED" /\ isCreator(u, e)

canRequestAdditionalFund(u, e) ==
    Status(e) = "FUNDED" /\ RoleOf[u] = "ADMIN" /\ isCreator(u, e) /\ isHighBudget(e)

canApprove(u, e) ==
    /\ Status(e) \in {"SUBMITTED", "UNDER_REVIEW"}
    /\ RoleOf[u] \in {"TREASURER", "LEADER"}
    /\ \E r \in currentPendingApproval(e) : r.approver = u

canSubmitExpenseReport(u, e) ==
    Status(e) = "FUNDED" /\ RoleOf[u] = "TREASURER" /\ isSameGroup(u, e)

\* Only the first pending fund request is looked at.
canReviewAdditionalFund(u, e) ==
    /\ Status(e) = "UNDER_REVIEW" /\ RoleOf[u] = "TREASURER"
    /\ \E f \in PendingFunds(e) : Target(f) = GroupOf[u]

\* The buttons on the action card.
Offers(u, e) ==
    {op \in {"edit", "delete", "submit", "approve", "expense", "ask", "review",
             "extend", "settle", "cancel"} :
        CASE op = "edit" -> canEdit(u, e)
          [] op = "delete" -> canDelete(u, e)
          [] op = "submit" -> canSubmit(u, e)
          [] op = "approve" -> canApprove(u, e)
          [] op = "expense" -> canSubmitExpenseReport(u, e)
          [] op = "ask" -> canRequestAdditionalFund(u, e)
          [] op = "review" -> canReviewAdditionalFund(u, e)
          [] op = "extend" -> canExtendDate(u, e)
          [] op = "settle" -> canSettle(u, e)
          [] op = "cancel" -> canCancel(u, e)}

-----------------------------------------------------------------------------
(* The requests behind the buttons: every input a dialog lets through *)

\* Every item has an amount, nothing is left over and nothing missing.
ReportIsValid(e, total, rest) == rest >= 0 /\ total + rest = event[e].budget

handleEdit(s, u, e) == MayUpdate(s, u, e)
handleDelete(s, u, e) == MayDelete(s, u, e)
\* An approver is found for every step.
handleSubmitForApproval(s, u, e) == MaySubmit(s, u, e) /\ Workflows(e) # {}
\* The last approval pays at once, if the wallet covers the budget.
IsLastApproval(u, e) == {r \in approvals[e] : r.status = "PENDING"} \subseteq NextStepOf(u, e)
Covers(g, amount) == balance[g] >= amount
handleApproval(s, u, e) ==
    /\ MayApprove(s, u, e)
    /\ IsLastApproval(u, e) => Covers(GroupOfEvent(e), event[e].budget)
handleExpenseReport(s, u, e) ==
    \A total \in Spending, rest \in Remaining :
        ReportIsValid(e, total, rest) => MayReport(s, u, e, total, rest)
handleRequestAdditionalFund(s, u, e) == MayAskFund(s, u, e)
\* The dialog lets any amount through; the treasurer's wallet has to cover it.
handleReviewAdditionalFund(s, u, e) ==
    /\ MayReview(s, u, e)
    /\ \A f \in PendingFunds(e) :
          /\ GroupOf[u] = Target(f)
          /\ \A a \in FundAmount \cup {fund[f].amount} : Covers(Target(f), a)
handleExtendDate(s, u, e) == MayExtend(s, u, e)
handleSettle(s, u, e) == MaySettle(s, u, e)
handleCancel(s, u, e) == MayCancel(s, u, e)

Accepted(s, u, e, op) ==
    CASE op = "edit" -> handleEdit(s, u, e)
      [] op = "delete" -> handleDelete(s, u, e)
      [] op = "submit" -> handleSubmitForApproval(s, u, e)
      [] op = "approve" -> handleApproval(s, u, e)
      [] op = "expense" -> handleExpenseReport(s, u, e)
      [] op = "ask" -> handleRequestAdditionalFund(s, u, e)
      [] op = "review" -> handleReviewAdditionalFund(s, u, e)
      [] op = "extend" -> handleExtendDate(s, u, e)
      [] op = "settle" -> handleSettle(s, u, e)
      [] op = "cancel" -> handleCancel(s, u, e)

-----------------------------------------------------------------------------
(* The work list of the dashboards, and the final report *)

\* What GET /events returns to u.
Listed(u) == {e \in Event : Exists(e) /\ HasGroupAccess(u, GroupOfEvent(e))}

\* The list has no fundRequests, so nothing under review shows up in it.
TreasurersWork(u) ==
    {e \in Listed(u) :
        \/ Status(e) = "SUBMITTED" /\ \E r \in approvals[e] : r.approver = u /\ r.status = "PENDING"
        \/ Status(e) = "FUNDED"}

LeadersWork(u) == {e \in Listed(u) : Status(e) = "SUBMITTED"}

ActionRequired(u) ==
    CASE RoleOf[u] = "TREASURER" -> TreasurersWork(u)
      [] RoleOf[u] = "LEADER" -> LeadersWork(u)
      [] OTHER -> {}

\* "Sisa Dana Dikembalikan" of the final report.
ReturnedShown(e) == event[e].budget - event[e].actual

-----------------------------------------------------------------------------
(* Properties *)

\* Nobody is acting: no handler is in flight, and the job rests.
Still(e) == AtRest(e) /\ \A s \in Slot : req[s] = Idle

\* The bounds of the model are not what refuses the request.
WithinBounds(e, op) ==
    /\ op \in {"cancel", "expense"} =>
          balance[GroupOfEvent(e)] <= MaxBalance /\ expenses[e] <= MaxExpenses
    /\ op = "ask" => MayCreateFund

\* The page says >= and the backend > of the threshold.
AskedAtThreshold(e, op) == op = "ask" /\ event[e].budget = Threshold
\* A draft of a group without the treasurer, or the leader, it needs.
NobodyToApprove(e, op) == op = "submit" /\ Workflows(e) = {}
\* The page does not show the wallet that is to pay.
WalletIsShort(u, e, op) ==
    \/ op = "approve" /\ IsLastApproval(u, e) /\ ~Covers(GroupOfEvent(e), event[e].budget)
    \/ op = "review" /\ \E f \in PendingFunds(e) : \E a \in FundAmount \cup {fund[f].amount} :
                           ~Covers(Target(f), a)

(***************************************************************************)
(* What the page offers, the backend accepts: a button of a freshly loaded  *)
(* page leads to a refusal, whatever its dialog lets through, for the three *)
(* reasons above only.                                                      *)
(***************************************************************************)
OffersAreAccepted ==
    \A u \in User, e \in Event : Still(e) /\ Loaded(u, e) =>
        \A op \in Offers(u, e) :
            \/ AskedAtThreshold(e, op) \/ NobodyToApprove(e, op) \/ WalletIsShort(u, e, op)
            \/ WithinBounds(e, op) => \E s \in Slot : Accepted(s, u, e, op)

NextStep == [DRAFT |-> "submit", REJECTED |-> "submit", SUBMITTED |-> "approve",
             FUNDED |-> "expense", UNDER_REVIEW |-> "review", COMPLETED |-> "settle"]

(***************************************************************************)
(* No open event is out of everybody's reach: someone's page offers its     *)
(* next step, and a reviewer who is to approve or report finds it on the    *)
(* work list of the dashboard.                                              *)
(***************************************************************************)
EveryEventIsOffered ==
    \A e \in Event : Still(e) /\ Status(e) \in DOMAIN NextStep =>
        \E u \in User :
            /\ Loaded(u, e) /\ NextStep[Status(e)] \in Offers(u, e)
            /\ NextStep[Status(e)] \in {"approve", "expense"} => e \in ActionRequired(u)

(***************************************************************************)
(* The final report tells what happened: the money it says came back is     *)
(* what did come back of the payments and grants, up to the tolerance.      *)
(***************************************************************************)
FinalReportIsTrue ==
    \A e \in Event : Still(e) /\ Status(e) \in {"COMPLETED", "SETTLED"} =>
        ReturnedShown(e) - (event[e].budget - GrantedAmount(e) - paidOut[e])
            \in -Tolerance..Tolerance
=============================================================================
