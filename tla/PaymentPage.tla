------------------------------ MODULE PaymentPage ------------------------------
(***************************************************************************)
(* The residents' payment page (ResidentPaymentPage.tsx) in front of        *)
(* Payments: it shows the orders as it last fetched them, opens the popup   *)
(* of the gateway, and polls the newest order it shows as pending.  A poll  *)
(* is one step here: what may come between its reads is in Payments.        *)
(***************************************************************************)
EXTENDS Payments, DuesProgress

CONSTANT Visitor    \* the resident whose page it is

ASSUME PageAssumption == Visitor \in User

VARIABLES
    shown,          \* [Order -> status], payments: what the page last fetched
    snap,           \* the order whose popup is open
    congratulated   \* the orders the success popup was shown for

pageVars == <<shown, snap, congratulated>>
allVars == <<vars, pageVars>>

PageTypeOK ==
    /\ PaymentsTypeOK
    /\ shown \in [Order -> PaymentGatewayStatus \cup {"ABSENT"}]
    /\ snap \in Order \cup {NoOrder}
    /\ congratulated \subseteq Order

\* getHistory, of the visitor's orders.
History(table) == [o \in Order |-> IF table[o].user = Visitor THEN table[o].status ELSE "ABSENT"]

PageInit ==
    /\ Init
    /\ shown = History(order)
    /\ snap = NoOrder
    /\ congratulated = {}

\* fetchPayments, as the database is after the step.
FetchPayments == shown' = History(order')

-----------------------------------------------------------------------------
(* Visiting the page and paying *)

Visit ==
    /\ UNCHANGED <<vars, congratulated>>
    /\ FetchPayments /\ snap' = NoOrder

\* One payment of this page at a time: payingRef.
ClickPay(s) ==
    /\ snap = NoOrder
    /\ Pay(s, Visitor)
    /\ UNCHANGED pageVars

StillPayable(s) == At(s, "askPending") /\ gateway[call[s].order] = "pending"
AnswersWithToken(s) == RequestToken(s) \/ (StillPayable(s) /\ AskPending(s))

\* The handler's answer to the click: a token, new or old, opens the popup.
Answered(s) ==
    /\ call[s].order # NoOrder /\ order[call[s].order].user = Visitor
    /\ AnswersWithToken(s)
    /\ snap' = call[s].order
    /\ UNCHANGED <<shown, congratulated>>

\* The steps of a handler before its answer, and the answers without token.
NotAnswered(s) ==
    /\ \/ ~StillPayable(s) /\ AskPending(s)
       \/ MarkOld(s)
       \/ \E o \in Order, m \in MonthCount : BillOrder(s, o, m)
       \/ Die(s)
    /\ UNCHANGED pageVars

\* onSuccess, onPending, onError and onClose: all fetch.
SnapCallback ==
    /\ snap # NoOrder
    /\ UNCHANGED <<vars, congratulated>>
    /\ FetchPayments /\ snap' = NoOrder

\* The other residents pay on pages of their own.
OthersPay(s) ==
    /\ \/ \E u \in User \ {Visitor} : Pay(s, u)
       \/ call[s].order # NoOrder /\ order[call[s].order].user # Visitor /\ AnswersWithToken(s)
    /\ UNCHANGED pageVars

-----------------------------------------------------------------------------
(* Polling: syncPaymentFromMidtrans as one step *)

PendingShown == {o \in Order : shown[o] = "PENDING" /\ order[o].for > 0}
Watched == IF PendingShown = {} THEN NoOrder ELSE Newest(PendingShown)

\* Mutant: only an order that is pending is looked at.
SyncUpdatesPending(o, st) ==
    /\ order[o].status = "PENDING"
    /\ gateway[o] \notin {"absent", "issued"}
    /\ st = StatusFor(gateway[o]) /\ st # "PENDING"
    /\ Book(o, st)
    /\ UNCHANGED <<gateway, call>>
\* The server answers updated: TRUE, having written status st.
SyncUpdates(o, st) ==
    /\ order[o].status # "PAID"
    /\ gateway[o] \notin {"absent", "issued"}
    /\ st = StatusFor(gateway[o])
    /\ ~(st = "PENDING" /\ order[o].status = "PENDING")
    /\ Book(o, st)
    /\ UNCHANGED <<gateway, call>>

\* Mutant: every answer of the server ends the polling with the popup.
PollTrusting(o) ==
    /\ o = Watched
    /\ UNCHANGED <<snap, vars>>
    /\ congratulated' = congratulated \cup {o}
    /\ FetchPayments
\* Anything but updated: TRUE leaves the page as it is.
Poll(o) ==
    /\ o = Watched
    /\ \E st \in PaymentGatewayStatus :
        /\ SyncUpdates(o, st)
        /\ IF st = "PENDING" THEN UNCHANGED shown ELSE FetchPayments
        /\ congratulated' = IF st = "PAID" THEN congratulated \cup {o} ELSE congratulated
    /\ UNCHANGED snap

\* The button that does the same, without the popup.
SyncPending(o) ==
    /\ o = Watched
    /\ \E st \in PaymentGatewayStatus : SyncUpdates(o, st)
    /\ FetchPayments
    /\ UNCHANGED <<snap, congratulated>>

-----------------------------------------------------------------------------
Webhook(o) ==
    /\ \E g \in GatewayStatus : Notification(o, g)
    /\ UNCHANGED pageVars

World(o) == Gateway(o) /\ UNCHANGED pageVars

Page ==
    \/ Visit \/ SnapCallback
    \/ \E s \in Slot : ClickPay(s) \/ Answered(s) \/ NotAnswered(s) \/ OthersPay(s)
    \/ \E o \in Order : Poll(o) \/ SyncPending(o)

PageNext ==
    \/ Page
    \/ \E o \in Order : Webhook(o) \/ World(o)
    \/ Environment /\ UNCHANGED pageVars

PageSpec == PageInit /\ [][PageNext]_allVars

\* The page polls every five seconds while it is open.
FairPageSpec == PageSpec /\ \A o \in Order : WF_allVars(Poll(o))

-----------------------------------------------------------------------------
(***************************************************************************)
(* The success popup tells the truth: the money of the order it was shown   *)
(* for is in the wallets.                                                   *)
(***************************************************************************)
PopupIsTrue == \A o \in congratulated : credited[o] = order[o].amount /\ credited[o] > 0

(***************************************************************************)
(* Polling alone is enough: an order the page watches and the gateway has   *)
(* settled does not stay without its money for ever, whether notifications  *)
(* reach the server or (as on localhost) none does.                         *)
(***************************************************************************)
PageFollowsOrder ==
    \A o \in Order :
        (Watched = o /\ gateway[o] = Settled) ~> (Watched # o \/ credited[o] > 0)
=============================================================================
