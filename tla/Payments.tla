------------------------------- MODULE Payments -------------------------------
(***************************************************************************)
(* Payment orders (PaymentService) between the database and the payment     *)
(* gateway Midtrans.  Three writers race on an order: the gateway's         *)
(* notifications, the client's polling, and a new payment of the same user. *)
(* A handler is cut at its awaits: each step is one statement, one answer   *)
(* of the gateway, or one Serializable transaction.                         *)
(***************************************************************************)
EXTENDS Dues

CONSTANTS
    Slot,           \* handlers that can be in flight at once
    MonthCount,     \* numbers of months a resident pays at once
    OtherAmount,    \* amounts of the orders that are not for dues
    Refusal         \* how the gateway ends an order by itself

ASSUME PaymentsAssumption ==
    /\ User # {}
    /\ MonthCount \subseteq 1 .. 12
    /\ OtherAmount \subseteq Nat \ {0}
    /\ Refusal \subseteq {"expire", "deny"}

VARIABLES
    order,      \* [Order -> OrderRow], the PaymentGatewayTx table
    gateway,    \* [Order -> GatewayStatus], what Midtrans holds
    call        \* [Slot -> Call], the handlers in flight

paymentVars == <<order, gateway, call>>
vars == <<duesVars, paymentVars>>

PaymentGatewayStatus == {"PENDING", "PAID", "FAILED", "EXPIRED", "REFUNDED", "CANCELLED"}

\* for: the months the order pays, monthCount; 0 for an order not for dues.
OrderRow == [status : PaymentGatewayStatus \cup {"ABSENT"}, user : User,
             amount : Nat, for : Nat]

\* issued: a token exists and no method of payment has been chosen yet; the
\* status API answers 404, as it does for an order it never saw.
GatewayStatus == {"absent", "issued", "pending", "settlement", "expire", "cancel", "deny"}
Settled == "settlement"

Idle == [pc |-> "idle", user |-> CHOOSE u \in User : TRUE, order |-> NoOrder,
         status |-> "PENDING"]
Call == [pc : {"idle", "askPending", "markOld", "bill", "snap", "askStatus", "update"},
         user : User, order : Order \cup {NoOrder}, status : PaymentGatewayStatus]

\* Every row and local variable keeps its type.
PaymentsTypeOK ==
    /\ DuesTypeOK
    /\ order \in [Order -> OrderRow]
    /\ gateway \in [Order -> GatewayStatus]
    /\ call \in [Slot -> Call]

Init ==
    /\ DuesInit
    /\ order = [o \in Order |-> [status |-> "ABSENT", user |-> CHOOSE u \in User : TRUE,
                                 amount |-> 0, for |-> 0]]
    /\ gateway = [o \in Order |-> "absent"]
    /\ call = [s \in Slot |-> Idle]

-----------------------------------------------------------------------------
Exists(o) == order[o].status # "ABSENT"
At(s, pc) == call[s].pc = pc
Start(s, c) == At(s, "idle") /\ call' = [call EXCEPT ![s] = c]
Finish(s) == call' = [call EXCEPT ![s] = Idle]

SetStatus(o, st) == order' = [order EXCEPT ![o].status = st]

\* Mutant: a word of the gateway that is not recognised is stored as it is.
StatusForRaw(g) == CASE g = Settled -> "PAID" [] g = "cancel" -> "CANCELLED"
                     [] g = "expire" -> "EXPIRED" [] OTHER -> g
\* The status a notification or an answer of the gateway is turned into.
StatusFor(g) ==
    CASE g = Settled -> "PAID"
      [] g = "cancel" -> "CANCELLED"
      [] g = "deny" -> "FAILED"
      [] g = "expire" -> "EXPIRED"
      [] OTHER -> "PENDING"

\* One transaction: the status and, when it is PAID, the distribution.
Book(o, st) ==
    /\ SetStatus(o, st)
    /\ IF st = "PAID" THEN DistributeContribution(order[o].user, order[o].amount, o)
       ELSE UNCHANGED duesVars

\* The distribution breaks a unique link: the whole transaction rolls back.
BookFails(o, st) ==
    /\ st = "PAID" /\ ~LinkIsFree(order[o].user, order[o].amount, o)
    /\ UNCHANGED <<order, duesVars>>

-----------------------------------------------------------------------------
(* createDuesPayment, and createTransaction for anything else *)

PendingDues(u) ==
    {o \in Order : order[o].status = "PENDING" /\ order[o].user = u /\ order[o].for > 0}
Newest(orders) == CHOOSE o \in orders : \A p \in orders : p <= o

Pay(s, u) ==
    /\ u \in Residents
    /\ Start(s, IF PendingDues(u) = {} THEN [Idle EXCEPT !.pc = "bill", !.user = u]
                ELSE [Idle EXCEPT !.pc = "askPending", !.user = u,
                                  !.order = Newest(PendingDues(u))])
    /\ UNCHANGED <<order, gateway, duesVars>>

\* pending: the old token is the answer; settlement: an error is.
AskPending(s) ==
    /\ At(s, "askPending")
    /\ LET answer == gateway[call[s].order]
           give(st) == call' = [call EXCEPT ![s].pc = "markOld", ![s].status = st]
       IN  CASE answer \in {"pending", Settled} -> Finish(s)
             [] answer = "expire" -> give("EXPIRED")
             [] answer \in {"cancel", "deny"} -> give("FAILED")
             [] OTHER -> give("CANCELLED")
    /\ UNCHANGED <<order, gateway, duesVars>>

\* By id, whatever the status is by now.
MarkOld(s) ==
    /\ At(s, "markOld")
    /\ SetStatus(call[s].order, call[s].status)
    /\ call' = [call EXCEPT ![s] = [Idle EXCEPT !.pc = "bill", !.user = call[s].user]]
    /\ UNCHANGED <<gateway, duesVars>>

\* The next id: orders are created in the order of their ids.
IsNext(o) == ~Exists(o) /\ \A p \in Order : p < o => Exists(p)
Insert(o, u, a, m) ==
    /\ IsNext(o)
    /\ order' = [order EXCEPT ![o] = [status |-> "PENDING", user |-> u,
                                      amount |-> a, for |-> m]]

\* Mutant: Math.floor.
RoundedDown(x) == (x \div Rupiah) * Rupiah
\* Math.round: the gateway takes whole rupiahs only.
Rounded(x) == ((2 * x + Rupiah) \div (2 * Rupiah)) * Rupiah

\* getMyBill's rates and the insert: an order billed before a new rate and
\* inserted after it is one inserted just before it.
BillOrder(s, o, m) ==
    /\ At(s, "bill")
    /\ IF MonthlyTotal(call[s].user) = 0
       THEN Finish(s) /\ UNCHANGED order
       ELSE /\ Insert(o, call[s].user, Rounded(MonthlyTotal(call[s].user) * m), m)
            /\ call' = [call EXCEPT ![s] = [Idle EXCEPT !.pc = "snap", !.order = o]]
    /\ UNCHANGED <<gateway, duesVars>>

CreateTransaction(s, u, o, a) ==
    /\ u \in Residents
    /\ Insert(o, u, a, 0)
    /\ Start(s, [Idle EXCEPT !.pc = "snap", !.order = o])
    /\ UNCHANGED <<gateway, duesVars>>

\* The token exists once it is saved: before that nobody can pay with it.
RequestToken(s) ==
    /\ At(s, "snap")
    /\ gateway' = [gateway EXCEPT ![call[s].order] = "issued"]
    /\ Finish(s)
    /\ UNCHANGED <<order, duesVars>>

-----------------------------------------------------------------------------
(* syncPaymentFromMidtrans: read, ask, then a transaction *)

Sync(s, o) ==
    /\ Exists(o) /\ order[o].status # "PAID"
    /\ Start(s, [Idle EXCEPT !.pc = "askStatus", !.order = o, !.status = order[o].status])
    /\ UNCHANGED <<order, gateway, duesVars>>

AskStatus(s) ==
    /\ At(s, "askStatus")
    /\ LET answer == gateway[call[s].order]
           st == StatusFor(answer)
       IN  IF \/ answer \in {"absent", "issued"}
              \/ st = "PENDING" /\ call[s].status = "PENDING"
           THEN Finish(s)
           ELSE call' = [call EXCEPT ![s].pc = "update", ![s].status = st]
    /\ UNCHANGED <<order, gateway, duesVars>>

Update(s) ==
    /\ At(s, "update")
    /\ Book(call[s].order, call[s].status) \/ BookFails(call[s].order, call[s].status)
    /\ Finish(s)
    /\ UNCHANGED gateway

-----------------------------------------------------------------------------
(* handleNotification: one transaction for each delivery *)

\* What the gateway may say of an order, now or again: each state it was in.
Notified(o) == CASE gateway[o] \in {"absent", "issued"} -> {}
                 [] OTHER -> {"pending", gateway[o]}

\* Mutant: only a pending order is looked at.
IgnoresMoreThanPaid(o) == order[o].status # "PENDING"
\* Already PAID: a duplicate.
Ignores(o) == order[o].status = "PAID"

Notification(o, g) ==
    /\ g \in Notified(o) /\ ~Ignores(o)
    /\ Book(o, StatusFor(g)) \/ BookFails(o, StatusFor(g))
    /\ UNCHANGED <<gateway, call>>

-----------------------------------------------------------------------------
(* The gateway and its users, cancelTransaction, and what ends a handler *)

GatewayStep(o, from, to) ==
    /\ gateway[o] = from
    /\ gateway' = [gateway EXCEPT ![o] = to]
    /\ UNCHANGED <<order, call, duesVars>>

ChooseMethod(o) == GatewayStep(o, "issued", "pending")
Charge(o) == GatewayStep(o, "pending", Settled)
Refuse(o) == \E to \in Refusal : GatewayStep(o, "pending", to)

\* Only the gateway changes: the row waits for its notification.
CancelTransaction(o) == Exists(o) /\ GatewayStep(o, "pending", "cancel")

\* The process dies, or the gateway does not answer.
Die(s) ==
    /\ ~At(s, "idle") /\ Finish(s)
    /\ UNCHANGED <<order, gateway, duesVars>>

-----------------------------------------------------------------------------
Handle(s) ==
    \/ AskPending(s) \/ MarkOld(s) \/ RequestToken(s) \/ AskStatus(s) \/ Update(s)
    \/ \E o \in Order, m \in MonthCount : BillOrder(s, o, m)

Request(s) ==
    \/ \E u \in User : Pay(s, u)
    \/ \E u \in User, o \in Order, a \in OtherAmount : CreateTransaction(s, u, o, a)
    \/ \E o \in Order : Sync(s, o)

Gateway(o) == ChooseMethod(o) \/ Charge(o) \/ Refuse(o) \/ CancelTransaction(o)

Environment ==
    /\ MonthPasses \/ \E u \in User, a \in NewRate : SetDuesRule(u, a)
    /\ UNCHANGED paymentVars

Next ==
    \/ \E s \in Slot : Request(s) \/ Handle(s) \/ Die(s)
    \/ \E o \in Order : Gateway(o) \/ \E g \in GatewayStatus : Notification(o, g)
    \/ Environment

Spec == Init /\ [][Next]_vars

\* The gateway repeats the notification of a settlement until it is answered
\* with 200.  Nothing is assumed of the handlers, which may all die.
FairSpec == Spec /\ \A o \in Order : WF_vars(Notification(o, Settled))

-----------------------------------------------------------------------------
\* The orders of u whose money has arrived.
CreditedOrders(u) == {o \in Order : order[o].user = u /\ credited[o] > 0}

(***************************************************************************)
(* An order that shows PAID has been distributed, to the last rupiah.       *)
(***************************************************************************)
PaidIsCredited ==
    \A o \in Order : order[o].status = "PAID" => credited[o] = order[o].amount

(***************************************************************************)
(* However often it is notified, polled or overwritten, an order is         *)
(* distributed at most once, and only if it was charged.  (While no order   *)
(* is below a month's rate, which a rate that rises can make it, and which  *)
(* createTransaction, asking for a rupiah only, does not rule out: such an  *)
(* order leaves no row to link.)                                            *)
(***************************************************************************)
CreditedOnce ==
    \A o \in Order : credited[o] # 0 =>
        credited[o] = order[o].amount /\ gateway[o] = Settled

(***************************************************************************)
(* No month is recorded that was not paid for: a resident's rows are worth  *)
(* at most what arrived from them.                                          *)
(***************************************************************************)
MonthsArePaidFor ==
    \A u \in User :
        SumFunction([c \in RowsOf(u) |-> c.amount])
            <= SumFunction([o \in CreditedOrders(u) |-> credited[o]])

(***************************************************************************)
(* A resident gets at least the months they were billed for, although the   *)
(* bill is rounded and the rate is read again at the distribution.  (While  *)
(* a bill covers its months at the rates of the day: the rates do not rise, *)
(* and what is rounded was not rounded down.)                               *)
(***************************************************************************)
MonthsAreGiven ==
    \A u \in User :
        Cardinality(RowsOf(u)) >= SumFunction([o \in CreditedOrders(u) |-> order[o].for])
=============================================================================
