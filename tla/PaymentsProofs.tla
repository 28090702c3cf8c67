----------------------------- MODULE PaymentsProofs -----------------------------
(***************************************************************************)
(* What holds of payment orders for any number of residents, orders and     *)
(* handlers in flight, any of them dying, and notifications that come       *)
(* early, late or again.                                                    *)
(***************************************************************************)
EXTENDS PaymentRefinement, PaymentPage, SumProofs

WithOrder == {"askPending", "markOld", "snap", "askStatus", "update"}

Made == {o \in Order : Exists(o)}

\* A handler past its first read works on an order that is there.
CallsKnow == \A s \in Slot : call[s].pc \in WithOrder => call[s].order \in Made

\* There is a last order.
Bounded == \E n \in Nat : \A o \in Made : o <= n

TypeInv == PaymentsTypeOK /\ CallsKnow /\ Bounded

-----------------------------------------------------------------------------
(* The arithmetic of a payment *)

LEMMA Division ==
    ASSUME NEW a \in Nat, NEW b \in Nat \ {0}
    PROVE  a \div b \in Nat /\ (b <= a => a \div b >= 1)
  OBVIOUS

LEMMA TotalTyped ==
    ASSUME DuesTypeOK, NEW u \in User
    PROVE  Home(u) \in Group /\ ParentRate(u) \in Nat /\ MonthlyTotal(u) \in Nat
  BY OrganizationAssumption DEF DuesTypeOK, Rate, Home, Parent, ParentRate, MonthlyTotal

LEMMA Product == \A a, b \in Nat : a * b \in Nat
  OBVIOUS

LEMMA PositiveProduct == \A a, b \in Nat \ {0} : a * b \in Nat \ {0}
  OBVIOUS

\* A bill is in whole rupiahs, and there is one for every rate.
LEMMA BillTotal ==
    ASSUME DuesTypeOK, NEW u \in User, NEW m \in Nat
    PROVE  /\ Rounded(MonthlyTotal(u) * m) \in Nat
           /\ m # 0 /\ MonthlyTotal(u) # 0 => Rounded(MonthlyTotal(u) * m) # 0
<1>1. PICK total : total = MonthlyTotal(u)
  OBVIOUS
<1>2. PICK bill : bill = total * m
  OBVIOUS
<1>3. total \in Nat /\ bill \in Nat /\ Rupiah \in Nat \ {0}
  BY <1>1, <1>2, TotalTyped, Product, DuesAssumption
<1>4. PICK part : part = (2 * bill + Rupiah) \div (2 * Rupiah)
  OBVIOUS
<1>5. part \in Nat /\ (2 * bill >= Rupiah => part >= 1)
  BY <1>3, <1>4, Division
<1>6. Rounded(bill) = part * Rupiah
  BY <1>4 DEF Rounded
<1>7. Rounded(bill) \in Nat
  BY <1>3, <1>5, <1>6, Product
<1>8. ASSUME m # 0, total # 0 PROVE Rounded(bill) # 0
  <2>1. 2 * total >= Rupiah
    <3>1. /\ rate[Home(u)] \in Rate /\ ParentRate(u) \in Rate
          /\ total = rate[Home(u)] + ParentRate(u)
      BY <1>1, TotalTyped, OrganizationAssumption
         DEF DuesTypeOK, Rate, Home, Parent, ParentRate, MonthlyTotal
    <3>2. QED
      BY <1>3, <1>8, <3>1 DEF Rate
  <2>2. bill >= total
    <3>1. \A a, b \in Nat : b >= 1 => a * b >= a
      OBVIOUS
    <3>2. QED
      BY <1>2, <1>3, <1>8, <3>1
  <2>3. part \in Nat \ {0}
    BY <1>3, <1>5, <2>1, <2>2
  <2>4. QED
    BY <1>3, <1>6, <2>3, PositiveProduct
<1>9. QED
  BY <1>1, <1>2, <1>7, <1>8

LEMMA MonthsTyped ==
    ASSUME DuesTypeOK, NEW u \in User, NEW paid \in Nat
    PROVE  /\ MonthsPaid(u, paid) \in Nat
           /\ 0 < MonthlyTotal(u) /\ MonthlyTotal(u) <= paid => MonthsPaid(u, paid) >= 1
           /\ FirstMonth(u) \in Month
<1>1. MonthlyTotal(u) \in Nat
  BY TotalTyped
<1>2. MonthsPaid(u, paid) \in Nat /\
      (0 < MonthlyTotal(u) /\ MonthlyTotal(u) <= paid => MonthsPaid(u, paid) >= 1)
  BY <1>1, Division DEF MonthsPaid
<1>3. FirstMonth(u) \in Month
  BY DEF DuesTypeOK, FirstMonth, Month, Never
<1>4. QED
  BY <1>2, <1>3

\* What RT and RW get is what was paid, whatever the rates are.
LEMMA SharesAddUp ==
    ASSUME DuesTypeOK, NEW u \in User, NEW paid \in Nat
    PROVE  /\ ToHome(u, paid) \in Int /\ ToParent(u, paid) \in Int
           /\ \A n \in Int : n + ToHome(u, paid) + ToParent(u, paid) = n + paid
<1>1. ParentRate(u) \in Nat /\ MonthsPaid(u, paid) \in Nat
  BY TotalTyped, MonthsTyped
<1>2. ParentRate(u) * MonthsPaid(u, paid) \in Int
  BY <1>1
<1>3. ToParent(u, paid) \in Int
  BY <1>2 DEF ToParent
<1>4. QED
  BY <1>3 DEF ToHome

LEMMA DistributionTyped ==
    ASSUME DuesTypeOK, NEW u \in User, NEW paid \in Nat, NEW o \in Order,
           DistributeContribution(u, paid, o)
    PROVE  DuesTypeOK' /\ credited' = [credited EXCEPT ![o] = @ + paid]
<1>1. credited' = [credited EXCEPT ![o] = @ + paid]
  <2>1. credited[o] \in Int
    BY DEF DuesTypeOK
  <2>2. credited[o] + ToHome(u, paid) + ToParent(u, paid) = credited[o] + paid
    BY <2>1, SharesAddUp
  <2>3. QED
    BY <2>2 DEF DistributeContribution
<1>2. credited' \in [Order -> Nat]
  BY <1>1 DEF DuesTypeOK
<1>3. LedgerTypeOK'
  <2>1. \A g \in Group : Shares(u, paid)[g] \in Int
    BY SharesAddUp DEF Shares
  <2>2. QED
    BY <2>1 DEF DistributeContribution, CreditShares, DuesTypeOK, LedgerTypeOK
<1>4. MonthsPaid(u, paid) \in Nat /\ FirstMonth(u) \in Nat \ {0} /\ MonthlyTotal(u) \in Nat
  BY MonthsTyped, TotalTyped DEF Month
<1>5. NewContributions(u, paid, o) \subseteq Contribution
  <2>1. ASSUME NEW m \in FirstMonth(u) .. FirstMonth(u) + MonthsPaid(u, paid) - 1
        PROVE  [user |-> u, month |-> m, amount |-> MonthlyTotal(u), order |-> Link(u, m, o)]
                  \in Contribution
    BY <1>4 DEF Contribution, Link, Month
  <2>2. QED
    BY <2>1 DEF NewContributions
<1>6. contributions' \subseteq Contribution
  BY <1>5 DEF DistributeContribution, DuesTypeOK
<1>7. paidUntil' \in [User -> Month \cup {Never}]
  BY <1>4 DEF DistributeContribution, DuesTypeOK, Month
<1>8. QED
  BY <1>1, <1>2, <1>3, <1>6, <1>7 DEF DistributeContribution, DuesTypeOK

-----------------------------------------------------------------------------
(* Types *)

LEMMA IdleTyped == Idle \in Call /\ Idle.pc = "idle"
  BY PaymentsAssumption DEF Idle, Call, PaymentGatewayStatus

\* Slot s goes on with c; no order disappears.
LEMMA CallTyped ==
    ASSUME TypeInv, NEW s \in Slot, NEW c \in Call, call' = [call EXCEPT ![s] = c],
           Made \subseteq Made', c.pc \in WithOrder => c.order \in Made'
    PROVE  call' \in [Slot -> Call] /\ CallsKnow'
<1>1. call \in [Slot -> Call] /\ call' \in [Slot -> Call]
  BY DEF TypeInv, PaymentsTypeOK
<1>2. ASSUME NEW t \in Slot, call'[t].pc \in WithOrder
      PROVE  call'[t].order \in Made'
  <2>1. CASE t = s
    <3>1. call'[t] = c
      BY <1>1, <2>1
    <3>2. QED
      BY <1>2, <3>1
  <2>2. CASE t # s
    <3>1. call'[t] = call[t]
      BY <1>1, <2>2
    <3>2. QED
      BY <1>2, <3>1 DEF TypeInv, CallsKnow
  <2>3. QED
    BY <2>1, <2>2
<1>3. QED
  BY <1>1, <1>2 DEF CallsKnow

LEMMA FinishTyped ==
    ASSUME TypeInv, NEW s \in Slot, Finish(s), Made \subseteq Made'
    PROVE  call' \in [Slot -> Call] /\ CallsKnow'
<1>1. Idle.pc \notin WithOrder
  BY IdleTyped DEF WithOrder
<1>2. QED
  BY <1>1, IdleTyped, CallTyped DEF Finish, TypeInv

LEMMA StatusTyped ==
    ASSUME TypeInv, NEW o \in Order, NEW st \in PaymentGatewayStatus, SetStatus(o, st)
    PROVE  /\ order' \in [Order -> OrderRow]
           /\ o \in Made' /\ Made \subseteq Made' /\ (o \in Made => Made' = Made)
<1>1. order' = [order EXCEPT ![o].status = st] /\ order \in [Order -> OrderRow]
  BY DEF SetStatus, TypeInv, PaymentsTypeOK
<1>2. st # "ABSENT"
  BY DEF PaymentGatewayStatus
<1>3. QED
  BY <1>1, <1>2 DEF OrderRow, Exists, Made

LEMMA BookTyped ==
    ASSUME TypeInv, NEW o \in Order, NEW st \in PaymentGatewayStatus, Book(o, st)
    PROVE  /\ DuesTypeOK' /\ order' \in [Order -> OrderRow]
           /\ Made \subseteq Made'
<1>1. order[o].user \in User /\ order[o].amount \in Nat
  BY DEF TypeInv, PaymentsTypeOK, OrderRow
<1>2. DuesTypeOK'
  <2>1. CASE st = "PAID"
    BY <1>1, <2>1, DistributionTyped DEF Book, TypeInv, PaymentsTypeOK
  <2>2. CASE st # "PAID"
    BY <2>2 DEF Book, duesVars, ledgerVars, TypeInv, PaymentsTypeOK, DuesTypeOK, LedgerTypeOK
  <2>3. QED
    BY <2>1, <2>2
<1>3. QED
  BY <1>2, StatusTyped DEF Book

LEMMA DuesUntouched == DuesTypeOK /\ UNCHANGED duesVars => DuesTypeOK'
  BY DEF DuesTypeOK, LedgerTypeOK, duesVars, ledgerVars

LEMMA MadeStays == UNCHANGED order => Made' = Made /\ (Bounded => Bounded')
  BY DEF Made, Exists, Bounded

LEMMA AnswersTyped == \A g \in GatewayStatus : StatusFor(g) \in PaymentGatewayStatus
  BY DEF StatusFor, PaymentGatewayStatus

LEMMA OrdersAreNumbers == Order \subseteq Nat /\ \A o \in Order : o # NoOrder
  BY DuesAssumption DEF NoOrder

\* A set of numbers with a bound has a last one: the natural numbers are well-founded.
LEMMA LastNumber ==
    ASSUME NEW S \in SUBSET Nat, S # {}, NEW n \in Nat, \A p \in S : p <= n
    PROVE  \E o \in S : \A p \in S : p <= o
<1> DEFINE T == {n - p : p \in S}
<1> DEFINE R == OpToRel(<, Nat)
<1>1. T \subseteq Nat /\ T # {}
  <2>1. ASSUME NEW p \in S PROVE n - p \in Nat
    <3>1. p \in Nat /\ p <= n
      OBVIOUS
    <3>2. QED
      BY <3>1
  <2>2. QED
    BY <2>1
<1>2. IsWellFoundedOn(R, Nat)
  BY NatLessThanWellFounded
<1>3. \A x, y \in Nat : <<y, x>> \in R <=> y < x
  BY DEF OpToRel
<1> HIDE DEF R, T
<1>4. PICK x \in T : \A y \in T : ~(<<y, x>> \in R)
  BY <1>1, <1>2, WFMin
<1>5. ASSUME NEW y \in T PROVE x <= y
  <2>1. x \in Nat /\ y \in Nat /\ ~(y < x)
    BY <1>1, <1>3, <1>4
  <2>2. QED
    BY <2>1
<1>6. PICK o \in S : x = n - o
  BY DEF T
<1>7. ASSUME NEW p \in S PROVE p <= o
  <2>1. n - p \in T
    BY DEF T
  <2>2. n - o <= n - p /\ p \in Nat /\ o \in Nat
    BY <1>5, <1>6, <2>1
  <2>3. QED
    BY <2>2
<1>8. QED
  BY <1>7

LEMMA NewestIsOne ==
    ASSUME Bounded, NEW S \in SUBSET Made, S # {}
    PROVE  Newest(S) \in S
<1>1. S \subseteq Nat
  BY OrdersAreNumbers DEF Made
<1>2. \E o \in S : \A p \in S : p <= o
  BY <1>1, LastNumber DEF Bounded
<1>3. QED
  BY <1>2 DEF Newest

LEMMA PendingAreMade == \A u \in User : PendingDues(u) \subseteq Made
  BY DEF PendingDues, Made, Exists

\* The steps of a handler that change nothing but the call.
LEMMA CallOnlyTyped ==
    ASSUME TypeInv, NEW s \in Slot, NEW c \in Call, call' = [call EXCEPT ![s] = c],
           UNCHANGED <<order, gateway, duesVars>>,
           c.pc \in WithOrder => c.order \in Made
    PROVE  TypeInv'
<1>1. Made' = Made /\ Bounded'
  BY MadeStays DEF TypeInv
<1>2. call' \in [Slot -> Call] /\ CallsKnow'
  BY <1>1, CallTyped
<1>3. QED
  BY <1>1, <1>2, DuesUntouched DEF TypeInv, PaymentsTypeOK

LEMMA PayTyped ==
    ASSUME TypeInv, NEW s \in Slot, NEW u \in User, Pay(s, u)
    PROVE  TypeInv'
<1>1. CASE PendingDues(u) = {}
  <2> DEFINE c == [Idle EXCEPT !.pc = "bill", !.user = u]
  <2>1. c \in Call /\ c.pc \notin WithOrder
    BY IdleTyped DEF Call, WithOrder
  <2>2. call' = [call EXCEPT ![s] = c] /\ UNCHANGED <<order, gateway, duesVars>>
    BY <1>1 DEF Pay, Start
  <2> HIDE DEF c
  <2>3. QED
    BY <2>1, <2>2, CallOnlyTyped
<1>2. CASE PendingDues(u) # {}
  <2> DEFINE o == Newest(PendingDues(u))
  <2> DEFINE c == [Idle EXCEPT !.pc = "askPending", !.user = u, !.order = o]
  <2>1. o \in Made
    BY <1>2, NewestIsOne, PendingAreMade DEF TypeInv
  <2>2. c \in Call /\ c.order = o
    BY <2>1, IdleTyped DEF Call, Made
  <2>3. call' = [call EXCEPT ![s] = c] /\ UNCHANGED <<order, gateway, duesVars>>
    BY <1>2 DEF Pay, Start
  <2> HIDE DEF c
  <2>4. QED
    BY <2>1, <2>2, <2>3, CallOnlyTyped
<1>3. QED
  BY <1>1, <1>2

LEMMA SyncTyped ==
    ASSUME TypeInv, NEW s \in Slot, NEW o \in Order, Sync(s, o)
    PROVE  TypeInv'
<1> DEFINE c == [Idle EXCEPT !.pc = "askStatus", !.order = o, !.status = order[o].status]
<1>1. o \in Made /\ order[o].status \in PaymentGatewayStatus
  BY DEF Sync, Exists, Made, TypeInv, PaymentsTypeOK, OrderRow
<1>2. c \in Call /\ c.order = o
  BY <1>1, IdleTyped DEF Call
<1>3. call' = [call EXCEPT ![s] = c] /\ UNCHANGED <<order, gateway, duesVars>>
  BY DEF Sync, Start
<1> HIDE DEF c
<1>4. QED
  BY <1>1, <1>2, <1>3, CallOnlyTyped

\* A call that is told an answer, or ends.
LEMMA AnswerTyped ==
    ASSUME TypeInv, NEW s \in Slot, NEW st \in PaymentGatewayStatus, NEW pc \in {"markOld", "update"},
           call[s].pc \in WithOrder, UNCHANGED <<order, gateway, duesVars>>,
           Finish(s) \/ call' = [call EXCEPT ![s].pc = pc, ![s].status = st]
    PROVE  TypeInv'
<1>1. CASE Finish(s)
  <2>1. Idle.pc \notin WithOrder
    BY IdleTyped DEF WithOrder
  <2>2. QED
    BY <1>1, <2>1, IdleTyped, CallOnlyTyped DEF Finish
<1>2. CASE call' = [call EXCEPT ![s].pc = pc, ![s].status = st]
  <2> DEFINE c == [call[s] EXCEPT !.pc = pc, !.status = st]
  <2>1. call[s] \in Call /\ call[s].order \in Made
    BY DEF TypeInv, PaymentsTypeOK, CallsKnow
  <2>2. c \in Call /\ c.order \in Made
    BY <2>1 DEF Call
  <2>3. call' = [call EXCEPT ![s] = c]
    BY <1>2
  <2> HIDE DEF c
  <2>4. QED
    BY <2>2, <2>3, CallOnlyTyped
<1>3. QED
  BY <1>1, <1>2

LEMMA AskPendingTyped ==
    ASSUME TypeInv, NEW s \in Slot, AskPending(s)
    PROVE  TypeInv'
<1>1. call[s].pc \in WithOrder /\ UNCHANGED <<order, gateway, duesVars>>
  BY DEF AskPending, At, WithOrder
<1>2. \E st \in {"EXPIRED", "FAILED", "CANCELLED"} :
         Finish(s) \/ call' = [call EXCEPT ![s].pc = "markOld", ![s].status = st]
  BY DEF AskPending
<1>3. {"EXPIRED", "FAILED", "CANCELLED"} \subseteq PaymentGatewayStatus
  BY DEF PaymentGatewayStatus
<1>4. QED
  BY <1>1, <1>2, <1>3, AnswerTyped

LEMMA AskStatusTyped ==
    ASSUME TypeInv, NEW s \in Slot, AskStatus(s)
    PROVE  TypeInv'
<1>1. call[s].pc \in WithOrder /\ UNCHANGED <<order, gateway, duesVars>>
  BY DEF AskStatus, At, WithOrder
<1>2. gateway[call[s].order] \in GatewayStatus
  BY <1>1 DEF TypeInv, PaymentsTypeOK, CallsKnow, Made
<1>3. Finish(s) \/ call' = [call EXCEPT ![s].pc = "update",
                                        ![s].status = StatusFor(gateway[call[s].order])]
  BY DEF AskStatus
<1>4. QED
  BY <1>1, <1>2, <1>3, AnswersTyped, AnswerTyped

LEMMA DieTyped ==
    ASSUME TypeInv, NEW s \in Slot, Die(s)
    PROVE  TypeInv'
<1>1. Idle.pc \notin WithOrder
  BY IdleTyped DEF WithOrder
<1>2. QED
  BY <1>1, IdleTyped, CallOnlyTyped DEF Die, Finish

LEMMA MarkOldTyped ==
    ASSUME TypeInv, NEW s \in Slot, MarkOld(s)
    PROVE  TypeInv'
<1> DEFINE c == [Idle EXCEPT !.pc = "bill", !.user = call[s].user]
<1>1. call[s] \in Call /\ call[s].order \in Made /\ call[s].order \in Order
  BY DEF TypeInv, PaymentsTypeOK, CallsKnow, MarkOld, At, WithOrder, Made
<1>2. c \in Call /\ c.pc \notin WithOrder
  BY <1>1, IdleTyped DEF Call, WithOrder
<1>3. call[s].status \in PaymentGatewayStatus
  BY <1>1 DEF Call
<1>4. order' \in [Order -> OrderRow] /\ Made' = Made
  BY <1>1, <1>3, StatusTyped DEF MarkOld
<1>5. call' = [call EXCEPT ![s] = c]
  BY DEF MarkOld
<1> HIDE DEF c
<1>6. call' \in [Slot -> Call] /\ CallsKnow'
  BY <1>2, <1>4, <1>5, CallTyped
<1>7. QED
  BY <1>4, <1>6, DuesUntouched DEF TypeInv, PaymentsTypeOK, MarkOld, Bounded

LEMMA InsertTyped ==
    ASSUME TypeInv, NEW o \in Order, NEW u \in User, NEW a \in Nat, NEW m \in Nat,
           Insert(o, u, a, m)
    PROVE  /\ order' \in [Order -> OrderRow]
           /\ o \notin Made /\ Made' = Made \cup {o} /\ Bounded'
<1> DEFINE row == [status |-> "PENDING", user |-> u, amount |-> a, for |-> m]
<1>1. row \in OrderRow /\ row.status # "ABSENT"
  BY DEF OrderRow, PaymentGatewayStatus
<1>2. order' = [order EXCEPT ![o] = row] /\ order \in [Order -> OrderRow] /\ o \notin Made
  BY DEF Insert, IsNext, Made, TypeInv, PaymentsTypeOK
<1> HIDE DEF row
<1>3. Made' = Made \cup {o}
  BY <1>1, <1>2 DEF Made, Exists
<1>4. PICK n \in Nat : \A p \in Made : p <= n
  BY DEF TypeInv, Bounded
<1>5. Bounded'
  <2>1. CASE o <= n
    <3>1. \A p \in Made' : p <= n
      BY <1>3, <1>4, <2>1
    <3>2. QED
      BY <3>1 DEF Bounded
  <2>2. CASE ~(o <= n)
    <3>1. o \in Nat
      BY OrdersAreNumbers
    <3>2. ASSUME NEW p \in Made PROVE p <= o
      BY <1>4, <2>2, <3>1, OrdersAreNumbers DEF Made
    <3>3. \A p \in Made' : p <= o
      BY <1>3, <3>1, <3>2
    <3>4. QED
      BY <3>1, <3>3 DEF Bounded
  <2>3. QED
    BY <2>1, <2>2
<1>6. QED
  BY <1>1, <1>2, <1>3, <1>5

\* The handler that has inserted o goes on to ask for a token.
LEMMA InsertedTyped ==
    ASSUME TypeInv, NEW s \in Slot, NEW o \in Order, NEW u \in User, NEW a \in Nat, NEW m \in Nat,
           Insert(o, u, a, m), UNCHANGED <<gateway, duesVars>>,
           call' = [call EXCEPT ![s] = [Idle EXCEPT !.pc = "snap", !.order = o]]
    PROVE  TypeInv'
<1> DEFINE c == [Idle EXCEPT !.pc = "snap", !.order = o]
<1>1. c \in Call /\ c.order = o
  BY IdleTyped DEF Call
<1>2. order' \in [Order -> OrderRow] /\ Made' = Made \cup {o} /\ Bounded'
  BY InsertTyped
<1>3. call' = [call EXCEPT ![s] = c]
  OBVIOUS
<1> HIDE DEF c
<1>4. call' \in [Slot -> Call] /\ CallsKnow'
  BY <1>1, <1>2, <1>3, CallTyped
<1>5. QED
  BY <1>2, <1>4, DuesUntouched DEF TypeInv, PaymentsTypeOK

LEMMA BillOrderTyped ==
    ASSUME TypeInv, NEW s \in Slot, NEW o \in Order, NEW m \in MonthCount, BillOrder(s, o, m)
    PROVE  TypeInv'
<1> DEFINE total == MonthlyTotal(call[s].user)
<1>1. call[s].user \in User /\ m \in Nat
  BY PaymentsAssumption DEF TypeInv, PaymentsTypeOK, Call
<1>2. CASE total = 0
  <2>1. call' = [call EXCEPT ![s] = Idle] /\ UNCHANGED <<order, gateway, duesVars>>
    BY <1>2 DEF BillOrder, Finish
  <2>2. Idle.pc \notin WithOrder
    BY IdleTyped DEF WithOrder
  <2>3. QED
    BY <2>1, <2>2, IdleTyped, CallOnlyTyped
<1>3. CASE total # 0
  <2>2. Rounded(total * m) \in Nat
    BY <1>1, BillTotal DEF TypeInv, PaymentsTypeOK
  <2>3. Insert(o, call[s].user, Rounded(total * m), m) /\ UNCHANGED <<gateway, duesVars>>
        /\ call' = [call EXCEPT ![s] = [Idle EXCEPT !.pc = "snap", !.order = o]]
    BY <1>3 DEF BillOrder
  <2> HIDE DEF total
  <2>4. QED
    BY <1>1, <2>2, <2>3, InsertedTyped
<1>4. QED
  BY <1>2, <1>3

LEMMA CreateTransactionTyped ==
    ASSUME TypeInv, NEW s \in Slot, NEW u \in User, NEW o \in Order, NEW a \in OtherAmount,
           CreateTransaction(s, u, o, a)
    PROVE  TypeInv'
<1>1. a \in Nat /\ 0 \in Nat
  BY PaymentsAssumption
<1>2. QED
  BY <1>1, InsertedTyped DEF CreateTransaction, Start

LEMMA RequestTokenTyped ==
    ASSUME TypeInv, NEW s \in Slot, RequestToken(s)
    PROVE  TypeInv'
<1>1. Made' = Made /\ Bounded'
  BY MadeStays DEF TypeInv, RequestToken
<1>2. call' \in [Slot -> Call] /\ CallsKnow'
  BY <1>1, FinishTyped DEF RequestToken
<1>3. gateway' \in [Order -> GatewayStatus]
  BY DEF RequestToken, TypeInv, PaymentsTypeOK, GatewayStatus
<1>4. QED
  BY <1>1, <1>2, <1>3, DuesUntouched DEF TypeInv, PaymentsTypeOK, RequestToken

\* The two ways a transaction about an order there is can end.
LEMMA BookedTyped ==
    ASSUME TypeInv, NEW o \in Made, NEW st \in PaymentGatewayStatus,
           Book(o, st) \/ BookFails(o, st)
    PROVE  DuesTypeOK' /\ order' \in [Order -> OrderRow] /\ Made' = Made /\ Bounded'
<1>1. o \in Order
  BY DEF Made
<1>2. CASE Book(o, st)
  <2>1. Made' = Made
    BY <1>1, <1>2, StatusTyped DEF Book
  <2>2. Bounded'
    BY <2>1 DEF Bounded, TypeInv
  <2>3. QED
    BY <1>1, <1>2, <2>1, <2>2, BookTyped
<1>3. CASE BookFails(o, st)
  BY <1>3, MadeStays, DuesUntouched DEF BookFails, TypeInv, PaymentsTypeOK
<1>4. QED
  BY <1>2, <1>3

LEMMA UpdateTyped ==
    ASSUME TypeInv, NEW s \in Slot, Update(s)
    PROVE  TypeInv'
<1>1. call[s].order \in Made /\ call[s].status \in PaymentGatewayStatus
  BY DEF Update, At, WithOrder, TypeInv, PaymentsTypeOK, CallsKnow, Call
<1>2. DuesTypeOK' /\ order' \in [Order -> OrderRow] /\ Made' = Made /\ Bounded'
  BY <1>1, BookedTyped DEF Update
<1>3. call' \in [Slot -> Call] /\ CallsKnow'
  BY <1>2, FinishTyped DEF Update
<1>4. QED
  BY <1>2, <1>3 DEF TypeInv, PaymentsTypeOK, Update

-----------------------------------------------------------------------------
(* Orders and the gateway *)

\* Gateway and wallets know nothing of an order that was never made.
Unmade == \A o \in Order \ Made : gateway[o] = "absent" /\ credited[o] = 0

\* Only the handler that made an order asks for its token, once.
Tokens == \A s \in Slot : call[s].pc = "snap" =>
    /\ gateway[call[s].order] = "absent"
    /\ \A t \in Slot : call[t].pc = "snap" /\ call[t].order = call[s].order => t = s

\* A handler that is about to write PAID has heard it from the gateway.
Verdicts == \A s \in Slot :
    /\ call[s].pc = "update" /\ call[s].status = "PAID" => gateway[call[s].order] = Settled
    /\ call[s].pc = "markOld" => call[s].status # "PAID"

CallsInv == Tokens /\ Verdicts
OrdersInv == Unmade /\ CallsInv

\* A handler goes on, or ends, without asking for a token.
LEMMA QuietCall ==
    ASSUME TypeInv, CallsInv, NEW s \in Slot, NEW c, call' = [call EXCEPT ![s] = c],
           UNCHANGED gateway, c.pc # "snap",
           c.pc = "update" /\ c.status = "PAID" => gateway[c.order] = Settled,
           c.pc = "markOld" => c.status # "PAID"
    PROVE  CallsInv'
<1>1. call'[s] = c /\ \A t \in Slot \ {s} : call'[t] = call[t]
  BY DEF TypeInv, PaymentsTypeOK
<1>2. Tokens'
  BY <1>1 DEF CallsInv, Tokens
<1>3. Verdicts'
  BY <1>1 DEF CallsInv, Verdicts
<1>4. QED
  BY <1>2, <1>3 DEF CallsInv

LEMMA QuietEnd ==
    ASSUME TypeInv, CallsInv, NEW s \in Slot, Finish(s), UNCHANGED gateway
    PROVE  CallsInv'
<1>1. Idle.pc \notin {"snap", "update", "markOld"}
  BY IdleTyped
<1>2. QED
  BY <1>1, QuietCall DEF Finish

\* The row of o is made by slot s, which will ask for its token.
LEMMA InsertedCall ==
    ASSUME TypeInv, OrdersInv, NEW s \in Slot, NEW o \in Order \ Made, UNCHANGED gateway,
           call' = [call EXCEPT ![s] = [Idle EXCEPT !.pc = "snap", !.order = o]]
    PROVE  CallsInv'
<1>1. PICK c : c = [Idle EXCEPT !.pc = "snap", !.order = o]
  OBVIOUS
<1>2. c.pc = "snap" /\ c.order = o
  BY <1>1 DEF Idle
<1>3. call'[s] = c /\ \A t \in Slot \ {s} : call'[t] = call[t]
  BY <1>1 DEF TypeInv, PaymentsTypeOK
<1>4. \A t \in Slot : call[t].pc = "snap" => call[t].order # o
  BY DEF TypeInv, CallsKnow, WithOrder
<1>5. Tokens'
  BY <1>2, <1>3, <1>4 DEF OrdersInv, CallsInv, Tokens, Unmade
<1>6. Verdicts'
  BY <1>2, <1>3 DEF OrdersInv, CallsInv, Verdicts
<1>7. QED
  BY <1>5, <1>6 DEF CallsInv

LEMMA RequestTokenCall ==
    ASSUME TypeInv, OrdersInv, NEW s \in Slot, RequestToken(s)
    PROVE  OrdersInv'
<1>1. call[s].pc = "snap" /\ call[s].order \in Made
  BY DEF RequestToken, At, TypeInv, CallsKnow, WithOrder
<1>2. call'[s].pc = "idle" /\ \A t \in Slot \ {s} : call'[t] = call[t]
  BY IdleTyped DEF RequestToken, Finish, TypeInv, PaymentsTypeOK
<1>3. \A o \in Order : o # call[s].order => gateway'[o] = gateway[o]
  BY DEF RequestToken, TypeInv, PaymentsTypeOK
<1>4. \A t \in Slot \ {s} : call[t].pc = "snap" => call[t].order # call[s].order
  BY <1>1 DEF OrdersInv, CallsInv, Tokens
<1>5. \A t \in Slot : call[t].pc \in WithOrder => call[t].order \in Order
  BY DEF TypeInv, CallsKnow, Made
<1>6. Tokens'
  BY <1>2, <1>3, <1>4, <1>5 DEF OrdersInv, CallsInv, Tokens, WithOrder
<1>7. gateway[call[s].order] # Settled
  BY <1>1 DEF OrdersInv, CallsInv, Tokens, Settled
<1>8. Verdicts'
  BY <1>2, <1>3, <1>5, <1>7 DEF OrdersInv, CallsInv, Verdicts, WithOrder
<1>9. Made' = Made /\ UNCHANGED credited
  BY MadeStays DEF RequestToken, duesVars
<1>10. Unmade'
  BY <1>1, <1>3, <1>9 DEF OrdersInv, Unmade
<1>11. QED
  BY <1>6, <1>8, <1>10 DEF OrdersInv, CallsInv

LEMMA GatewayStepOrders ==
    ASSUME TypeInv, OrdersInv, NEW o \in Order, NEW from, NEW to, from \notin {"absent", Settled},
           GatewayStep(o, from, to)
    PROVE  OrdersInv'
<1>1. gateway[o] = from /\ \A p \in Order \ {o} : gateway'[p] = gateway[p]
  BY DEF GatewayStep, TypeInv, PaymentsTypeOK
<1>2. UNCHANGED <<call, credited>> /\ Made' = Made
  BY MadeStays DEF GatewayStep, duesVars
<1>3. \A t \in Slot : call[t].pc \in WithOrder => call[t].order \in Order
  BY DEF TypeInv, CallsKnow, Made
<1>4. Tokens'
  BY <1>1, <1>2, <1>3 DEF OrdersInv, CallsInv, Tokens, WithOrder
<1>5. Verdicts'
  BY <1>1, <1>2, <1>3 DEF OrdersInv, CallsInv, Verdicts, WithOrder
<1>6. Unmade'
  BY <1>1, <1>2 DEF OrdersInv, Unmade
<1>7. QED
  BY <1>4, <1>5, <1>6 DEF OrdersInv, CallsInv

LEMMA UnmadeStays ==
    ASSUME Unmade, UNCHANGED <<gateway, credited>>, Made \subseteq Made'
    PROVE  Unmade'
  BY DEF Unmade

\* A transaction about an order there is touches no other.
LEMMA BookedUnmade ==
    ASSUME TypeInv, Unmade, NEW o \in Made, NEW st \in PaymentGatewayStatus,
           Book(o, st) \/ BookFails(o, st), UNCHANGED gateway
    PROVE  Unmade'
<1>1. Made' = Made
  BY BookedTyped
<1>2. order[o].user \in User /\ order[o].amount \in Nat /\ o \in Order
  BY DEF TypeInv, PaymentsTypeOK, OrderRow, Made
<1>3. \A p \in Order \ {o} : credited'[p] = credited[p]
  <2>1. CASE DistributeContribution(order[o].user, order[o].amount, o)
    BY <1>2, <2>1, DistributionTyped DEF TypeInv, PaymentsTypeOK, DuesTypeOK
  <2>2. CASE UNCHANGED duesVars
    BY <2>2 DEF duesVars
  <2>3. QED
    BY <2>1, <2>2 DEF Book, BookFails
<1>4. QED
  BY <1>1, <1>3 DEF Unmade

BaseInv == TypeInv /\ OrdersInv

LEMMA BaseInitially == Init => BaseInv
<1> SUFFICES ASSUME Init PROVE BaseInv
  OBVIOUS
<1>1. DuesTypeOK
  BY LedgerAssumption, DuesAssumption DEF Init, DuesInit, DuesTypeOK, LedgerInit, LedgerTypeOK
<1>2. order \in [Order -> OrderRow] /\ Made = {}
  BY PaymentsAssumption DEF Init, OrderRow, Made, Exists
<1>3. gateway \in [Order -> GatewayStatus] /\ call \in [Slot -> Call]
  BY IdleTyped DEF Init, GatewayStatus
<1>4. CallsKnow /\ CallsInv
  BY IdleTyped DEF Init, CallsKnow, WithOrder, CallsInv, Tokens, Verdicts
<1>5. Bounded
  BY <1>2 DEF Bounded
<1>6. Unmade
  BY DEF Init, DuesInit, Unmade
<1>7. QED
  BY <1>1, <1>2, <1>3, <1>4, <1>5, <1>6 DEF BaseInv, TypeInv, PaymentsTypeOK, OrdersInv

\* What only moves a call needs no more than its being quiet.
LEMMA QuietOrders ==
    ASSUME BaseInv, CallsInv', UNCHANGED <<order, gateway, duesVars>>
    PROVE  OrdersInv'
<1>1. Made' = Made
  BY MadeStays
<1>2. QED
  BY <1>1, UnmadeStays DEF BaseInv, OrdersInv, duesVars

LEMMA PayKeeps ==
    ASSUME BaseInv, NEW s \in Slot, NEW u \in User, Pay(s, u)
    PROVE  BaseInv'
<1>1. PICK c : call' = [call EXCEPT ![s] = c] /\ c.pc \in {"bill", "askPending"}
  <2>1. CASE PendingDues(u) = {}
    <3>1. [Idle EXCEPT !.pc = "bill", !.user = u].pc = "bill"
      BY DEF Idle
    <3>2. QED
      BY <2>1, <3>1 DEF Pay, Start
  <2>2. CASE PendingDues(u) # {}
    <3>1. [Idle EXCEPT !.pc = "askPending", !.user = u,
                       !.order = Newest(PendingDues(u))].pc = "askPending"
      BY DEF Idle
    <3>2. QED
      BY <2>2, <3>1 DEF Pay, Start
  <2>3. QED
    BY <2>1, <2>2
<1>2. UNCHANGED <<order, gateway, duesVars>>
  BY DEF Pay
<1>3. CallsInv'
  BY <1>1, <1>2, QuietCall DEF BaseInv, OrdersInv
<1>4. QED
  BY <1>2, <1>3, QuietOrders, PayTyped DEF BaseInv

LEMMA CreateTransactionKeeps ==
    ASSUME BaseInv, NEW s \in Slot, NEW u \in User, NEW o \in Order, NEW a \in OtherAmount,
           CreateTransaction(s, u, o, a)
    PROVE  BaseInv'
<1>1. a \in Nat /\ 0 \in Nat
  BY PaymentsAssumption
<1>2. o \notin Made /\ Made' = Made \cup {o}
  BY <1>1, InsertTyped DEF CreateTransaction, BaseInv
<1>3. CallsInv'
  BY <1>2, InsertedCall DEF CreateTransaction, Start, BaseInv
<1>4. Unmade'
  BY <1>2, UnmadeStays DEF CreateTransaction, BaseInv, OrdersInv, duesVars
<1>5. QED
  BY <1>3, <1>4, CreateTransactionTyped DEF BaseInv, OrdersInv

LEMMA SyncKeeps ==
    ASSUME BaseInv, NEW s \in Slot, NEW o \in Order, Sync(s, o)
    PROVE  BaseInv'
<1>1. PICK c : call' = [call EXCEPT ![s] = c] /\ c.pc = "askStatus"
  <2>1. [Idle EXCEPT !.pc = "askStatus", !.order = o, !.status = order[o].status].pc = "askStatus"
    BY DEF Idle
  <2>2. QED
    BY <2>1 DEF Sync, Start
<1>2. UNCHANGED <<order, gateway, duesVars>>
  BY DEF Sync
<1>3. CallsInv'
  BY <1>1, <1>2, QuietCall DEF BaseInv, OrdersInv
<1>4. QED
  BY <1>2, <1>3, QuietOrders, SyncTyped DEF BaseInv

LEMMA AskPendingKeeps ==
    ASSUME BaseInv, NEW s \in Slot, AskPending(s)
    PROVE  BaseInv'
<1>1. UNCHANGED <<order, gateway, duesVars>>
  BY DEF AskPending
<1>2. CASE Finish(s)
  BY <1>1, <1>2, QuietEnd, QuietOrders, AskPendingTyped DEF BaseInv, OrdersInv
<1>3. CASE ~Finish(s)
  <2>1. PICK st \in {"EXPIRED", "FAILED", "CANCELLED"} :
          call' = [call EXCEPT ![s].pc = "markOld", ![s].status = st]
    BY <1>3 DEF AskPending
  <2>2. PICK c : c = [call[s] EXCEPT !.pc = "markOld", !.status = st]
    OBVIOUS
  <2>3. c.pc = "markOld" /\ c.status = st /\ call' = [call EXCEPT ![s] = c]
    BY <2>1, <2>2 DEF BaseInv, TypeInv, PaymentsTypeOK, Call
  <2>4. CallsInv'
    BY <1>1, <2>3, QuietCall DEF BaseInv, OrdersInv
  <2>5. QED
    BY <1>1, <2>4, QuietOrders, AskPendingTyped DEF BaseInv
<1>4. QED
  BY <1>2, <1>3

LEMMA MarkOldKeeps ==
    ASSUME BaseInv, NEW s \in Slot, MarkOld(s)
    PROVE  BaseInv'
<1>1. PICK c : call' = [call EXCEPT ![s] = c] /\ c.pc = "bill"
  <2>1. [Idle EXCEPT !.pc = "bill", !.user = call[s].user].pc = "bill"
    BY DEF Idle
  <2>2. QED
    BY <2>1 DEF MarkOld
<1>2. UNCHANGED <<gateway, credited>>
  BY DEF MarkOld, duesVars
<1>3. CallsInv'
  BY <1>1, <1>2, QuietCall DEF BaseInv, OrdersInv
<1>4. Made \subseteq Made'
  BY StatusTyped DEF MarkOld, At, BaseInv, TypeInv, CallsKnow, WithOrder, Made,
     PaymentsTypeOK, Call
<1>5. QED
  BY <1>2, <1>3, <1>4, UnmadeStays, MarkOldTyped DEF BaseInv, OrdersInv

LEMMA BillOrderKeeps ==
    ASSUME BaseInv, NEW s \in Slot, NEW o \in Order, NEW m \in MonthCount, BillOrder(s, o, m)
    PROVE  BaseInv'
<1>1. UNCHANGED <<gateway, duesVars>>
  BY DEF BillOrder
<1>2. CASE MonthlyTotal(call[s].user) = 0
  BY <1>1, <1>2, QuietEnd, QuietOrders, BillOrderTyped DEF BillOrder, BaseInv, OrdersInv
<1>3. CASE MonthlyTotal(call[s].user) # 0
  <2>1. o \notin Made /\ Made \subseteq Made'
    BY <1>3 DEF BillOrder, Insert, IsNext, Made, Exists, BaseInv, TypeInv, PaymentsTypeOK
  <2>2. CallsInv'
    BY <1>1, <1>3, <2>1, InsertedCall DEF BillOrder, BaseInv
  <2>3. Unmade'
    BY <1>1, <2>1, UnmadeStays DEF BaseInv, OrdersInv, duesVars
  <2>4. QED
    BY <2>2, <2>3, BillOrderTyped DEF BaseInv, OrdersInv
<1>4. QED
  BY <1>2, <1>3

LEMMA AskStatusKeeps ==
    ASSUME BaseInv, NEW s \in Slot, AskStatus(s)
    PROVE  BaseInv'
<1>1. UNCHANGED <<order, gateway, duesVars>>
  BY DEF AskStatus
<1>2. CASE Finish(s)
  BY <1>1, <1>2, QuietEnd, QuietOrders, AskStatusTyped DEF BaseInv, OrdersInv
<1>3. CASE ~Finish(s)
  <2> DEFINE st == StatusFor(gateway[call[s].order])
  <2>1. call' = [call EXCEPT ![s].pc = "update", ![s].status = st]
    BY <1>3 DEF AskStatus
  <2>2. st = "PAID" => gateway[call[s].order] = Settled
    BY DEF StatusFor
  <2> HIDE DEF st
  <2>3. PICK c : c = [call[s] EXCEPT !.pc = "update", !.status = st]
    OBVIOUS
  <2>4. /\ c.pc = "update" /\ c.status = st /\ c.order = call[s].order
        /\ call' = [call EXCEPT ![s] = c]
    BY <2>1, <2>3 DEF BaseInv, TypeInv, PaymentsTypeOK, Call
  <2>5. CallsInv'
    BY <1>1, <2>2, <2>4, QuietCall DEF BaseInv, OrdersInv
  <2>6. QED
    BY <1>1, <2>5, QuietOrders, AskStatusTyped DEF BaseInv
<1>4. QED
  BY <1>2, <1>3

LEMMA UpdateKeeps ==
    ASSUME BaseInv, NEW s \in Slot, Update(s)
    PROVE  BaseInv'
<1>1. call[s].order \in Made /\ call[s].status \in PaymentGatewayStatus
  BY DEF Update, At, WithOrder, BaseInv, TypeInv, PaymentsTypeOK, CallsKnow, Call
<1>2. Unmade'
  BY <1>1, BookedUnmade DEF Update, BaseInv, OrdersInv
<1>3. CallsInv'
  BY QuietEnd DEF Update, BaseInv, OrdersInv
<1>4. QED
  BY <1>2, <1>3, UpdateTyped DEF BaseInv, OrdersInv

LEMMA DieKeeps ==
    ASSUME BaseInv, NEW s \in Slot, Die(s)
    PROVE  BaseInv'
  BY QuietEnd, QuietOrders, DieTyped DEF Die, BaseInv, OrdersInv

LEMMA NotificationKeeps ==
    ASSUME BaseInv, NEW o \in Order, NEW g \in GatewayStatus, Notification(o, g)
    PROVE  BaseInv'
<1>1. o \in Made
  BY DEF Notification, Notified, BaseInv, OrdersInv, Unmade
<1>2. StatusFor(g) \in PaymentGatewayStatus
  BY AnswersTyped
<1>3. DuesTypeOK' /\ order' \in [Order -> OrderRow] /\ Made' = Made /\ Bounded'
  BY <1>1, <1>2, BookedTyped DEF Notification, BaseInv
<1>4. Unmade'
  BY <1>1, <1>2, BookedUnmade DEF Notification, BaseInv, OrdersInv
<1>5. UNCHANGED <<gateway, call>>
  BY DEF Notification
<1>6. CallsKnow' /\ CallsInv'
  BY <1>3, <1>5 DEF BaseInv, TypeInv, OrdersInv, CallsKnow, CallsInv, Tokens, Verdicts
<1>7. QED
  BY <1>3, <1>4, <1>5, <1>6 DEF BaseInv, TypeInv, PaymentsTypeOK, OrdersInv

LEMMA GatewayKeeps ==
    ASSUME BaseInv, NEW o \in Order, Gateway(o)
    PROVE  BaseInv'
<1>1. PICK from \in {"issued", "pending"}, to \in GatewayStatus : GatewayStep(o, from, to)
  BY PaymentsAssumption DEF Gateway, ChooseMethod, Charge, Refuse, CancelTransaction,
     GatewayStatus, Settled
<1>2. OrdersInv'
  BY <1>1, GatewayStepOrders DEF BaseInv, Settled
<1>3. UNCHANGED <<order, call, duesVars>> /\ gateway' \in [Order -> GatewayStatus]
  BY <1>1 DEF GatewayStep, BaseInv, TypeInv, PaymentsTypeOK
<1>4. Made' = Made /\ Bounded'
  BY <1>3, MadeStays DEF BaseInv, TypeInv
<1>5. QED
  BY <1>2, <1>3, <1>4, DuesUntouched DEF BaseInv, TypeInv, PaymentsTypeOK, CallsKnow

LEMMA EnvironmentKeeps ==
    ASSUME BaseInv, Environment
    PROVE  BaseInv'
<1>1. DuesTypeOK' /\ UNCHANGED credited
  <2>1. CASE MonthPasses
    BY <2>1 DEF MonthPasses, Month, ledgerVars, BaseInv, TypeInv, PaymentsTypeOK, DuesTypeOK,
       LedgerTypeOK
  <2>2. ASSUME NEW u \in User, NEW a \in NewRate, SetDuesRule(u, a)
        PROVE  DuesTypeOK' /\ UNCHANGED credited
    <3>1. a \in Rate
      BY DuesAssumption
    <3>2. QED
      BY <2>2, <3>1 DEF SetDuesRule, ledgerVars, BaseInv, TypeInv, PaymentsTypeOK, DuesTypeOK,
         LedgerTypeOK
  <2>3. QED
    BY <2>1, <2>2 DEF Environment
<1>2. UNCHANGED paymentVars /\ Made' = Made /\ Bounded'
  BY MadeStays DEF Environment, paymentVars, BaseInv, TypeInv
<1>3. QED
  BY <1>1, <1>2 DEF BaseInv, TypeInv, PaymentsTypeOK, CallsKnow, OrdersInv, CallsInv, Tokens,
     Verdicts, Unmade, paymentVars

LEMMA BaseStep == BaseInv /\ [Next]_vars => BaseInv'
<1> SUFFICES ASSUME BaseInv, [Next]_vars PROVE BaseInv'
  OBVIOUS
<1>1. ASSUME NEW s \in Slot, Request(s) PROVE BaseInv'
  BY <1>1, PayKeeps, CreateTransactionKeeps, SyncKeeps DEF Request
<1>2. ASSUME NEW s \in Slot, Handle(s) PROVE BaseInv'
  <2>1. CASE RequestToken(s)
    BY <2>1, RequestTokenTyped, RequestTokenCall DEF BaseInv
  <2>2. QED
    BY <1>2, <2>1, AskPendingKeeps, MarkOldKeeps, BillOrderKeeps, AskStatusKeeps, UpdateKeeps
       DEF Handle
<1>3. CASE UNCHANGED vars
  <2>1. Made' = Made /\ Bounded'
    BY <1>3, MadeStays DEF vars, paymentVars, BaseInv, TypeInv
  <2>2. QED
    BY <1>3, <2>1, DuesUntouched DEF vars, duesVars, paymentVars, BaseInv, TypeInv,
       PaymentsTypeOK, CallsKnow, OrdersInv, CallsInv, Tokens, Verdicts, Unmade
<1>4. QED
  BY <1>1, <1>2, <1>3, DieKeeps, GatewayKeeps, NotificationKeeps, EnvironmentKeeps DEF Next

(***************************************************************************)
(* Orders, months, wallets and handlers in flight keep their types,         *)
(* whatever is notified, polled, paid again or dies in whatever order.      *)
(***************************************************************************)
THEOREM PaymentsTyped == Spec => []PaymentsTypeOK
<1>1. BaseInv => PaymentsTypeOK
  BY DEF BaseInv, TypeInv
<1>2. QED
  BY <1>1, BaseInitially, BaseStep, PTL DEF Spec

-----------------------------------------------------------------------------
(* What a step does to orders that are there, and what moves their money *)

OrderFixed(o) == order'[o].user = order[o].user /\ order'[o].amount = order[o].amount
                 /\ order'[o].for = order[o].for
SettledStays(o) == gateway[o] = Settled => gateway'[o] = Settled
NotMadePaid(o) == order'[o].status = "PAID" => order[o].status = "PAID"

NoMoney == UNCHANGED <<credited, contributions, paidUntil>>
Distributes(o) ==
    /\ gateway[o] = Settled
    /\ DistributeContribution(order[o].user, order[o].amount, o)
    /\ \A p \in Order \ {o} : NotMadePaid(p)

Shape ==
    /\ \A o \in Made : OrderFixed(o) /\ SettledStays(o)
    /\ \/ NoMoney /\ \A o \in Order : NotMadePaid(o)
       \/ \E o \in Made : Distributes(o)

LEMMA StillShape ==
    ASSUME UNCHANGED <<order, gateway, credited, contributions, paidUntil>>
    PROVE  Shape
  BY DEF Shape, OrderFixed, SettledStays, NoMoney, NotMadePaid

LEMMA BookShape ==
    ASSUME BaseInv, NEW o \in Made, NEW st \in PaymentGatewayStatus,
           Book(o, st) \/ BookFails(o, st), UNCHANGED gateway,
           st = "PAID" => gateway[o] = Settled
    PROVE  Shape
<1>1. o \in Order /\ order \in [Order -> OrderRow]
  BY DEF Made, BaseInv, TypeInv, PaymentsTypeOK
<1>2. CASE BookFails(o, st)
  BY <1>2, StillShape DEF BookFails, duesVars
<1>3. CASE Book(o, st)
  <2>1. order' = [order EXCEPT ![o].status = st]
    BY <1>3 DEF Book, SetStatus
  <2>2. \A p \in Order : OrderFixed(p) /\ SettledStays(p) /\ (p # o => NotMadePaid(p))
    BY <1>1, <2>1 DEF OrderRow, OrderFixed, SettledStays, NotMadePaid
  <2>3. CASE st = "PAID"
    BY <1>1, <1>3, <2>2, <2>3 DEF Book, Shape, Distributes, Made
  <2>4. CASE st # "PAID"
    <3>1. NotMadePaid(o)
      BY <1>1, <2>1, <2>4 DEF OrderRow, NotMadePaid
    <3>2. QED
      BY <1>3, <2>2, <2>4, <3>1 DEF Book, Shape, NoMoney, duesVars, Made
  <2>5. QED
    BY <2>3, <2>4
<1>4. QED
  BY <1>2, <1>3

LEMMA InsertShape ==
    ASSUME BaseInv, NEW o \in Order, NEW u \in User, NEW a \in Nat, NEW m \in Nat,
           Insert(o, u, a, m), UNCHANGED <<gateway, duesVars>>
    PROVE  Shape
<1>1. order' = [order EXCEPT ![o] = [status |-> "PENDING", user |-> u, amount |-> a, for |-> m]]
      /\ o \notin Made /\ order \in [Order -> OrderRow]
  BY DEF Insert, IsNext, Made, BaseInv, TypeInv, PaymentsTypeOK
<1>2. \A p \in Made : OrderFixed(p) /\ SettledStays(p)
  BY <1>1 DEF OrderFixed, SettledStays, Made
<1>3. \A p \in Order : NotMadePaid(p)
  BY <1>1 DEF NotMadePaid
<1>4. QED
  BY <1>2, <1>3 DEF Shape, NoMoney, duesVars

LEMMA HandleShape ==
    ASSUME BaseInv, NEW s \in Slot, Handle(s)
    PROVE  Shape
<1>1. CASE AskPending(s) \/ AskStatus(s)
  BY <1>1, StillShape DEF AskPending, AskStatus, duesVars
<1>2. CASE MarkOld(s)
  <2>1. /\ call[s].order \in Order /\ call[s].status # "PAID"
        /\ order \in [Order -> OrderRow]
    BY <1>2 DEF MarkOld, At, BaseInv, TypeInv, PaymentsTypeOK, CallsKnow, WithOrder, Made,
       OrdersInv, CallsInv, Verdicts
  <2>2. order' = [order EXCEPT ![call[s].order].status = call[s].status]
        /\ UNCHANGED <<gateway, duesVars>>
    BY <1>2 DEF MarkOld, SetStatus
  <2>3. \A p \in Order : OrderFixed(p) /\ SettledStays(p) /\ NotMadePaid(p)
    BY <2>1, <2>2 DEF OrderRow, OrderFixed, SettledStays, NotMadePaid
  <2>4. QED
    BY <2>2, <2>3 DEF Shape, NoMoney, duesVars, Made
<1>3. CASE RequestToken(s)
  <2>1. call[s].order \in Made /\ gateway[call[s].order] # Settled
    BY <1>3 DEF RequestToken, At, BaseInv, TypeInv, CallsKnow, WithOrder, OrdersInv, CallsInv,
       Tokens, Settled
  <2>2. \A p \in Order : SettledStays(p)
    BY <1>3, <2>1 DEF RequestToken, SettledStays, BaseInv, TypeInv, PaymentsTypeOK
  <2>3. QED
    BY <1>3, <2>2 DEF RequestToken, Shape, NoMoney, duesVars, OrderFixed, NotMadePaid, Made
<1>4. CASE Update(s)
  <2>1. call[s].order \in Made /\ call[s].status \in PaymentGatewayStatus
        /\ (call[s].status = "PAID" => gateway[call[s].order] = Settled)
    BY <1>4 DEF Update, At, WithOrder, BaseInv, TypeInv, PaymentsTypeOK, CallsKnow, Call,
       OrdersInv, CallsInv, Verdicts
  <2>2. QED
    BY <1>4, <2>1, BookShape DEF Update
<1>5. ASSUME NEW o \in Order, NEW m \in MonthCount, BillOrder(s, o, m)
      PROVE  Shape
  <2>1. call[s].user \in User /\ m \in Nat /\ UNCHANGED <<gateway, duesVars>>
    BY <1>5, PaymentsAssumption DEF BillOrder, BaseInv, TypeInv, PaymentsTypeOK, Call
  <2>2. Rounded(MonthlyTotal(call[s].user) * m) \in Nat
    BY <2>1, BillTotal DEF BaseInv, TypeInv, PaymentsTypeOK
  <2>3. CASE UNCHANGED order
    BY <2>1, <2>3, StillShape DEF duesVars
  <2>4. CASE Insert(o, call[s].user, Rounded(MonthlyTotal(call[s].user) * m), m)
    BY <2>1, <2>2, <2>4, InsertShape
  <2>5. QED
    BY <1>5, <2>3, <2>4 DEF BillOrder
<1>6. QED
  BY <1>1, <1>2, <1>3, <1>4, <1>5 DEF Handle

LEMMA NotificationShape ==
    ASSUME BaseInv, NEW o \in Order, NEW g \in GatewayStatus, Notification(o, g)
    PROVE  Shape
<1>1. o \in Made
  BY DEF Notification, Notified, BaseInv, OrdersInv, Unmade
<1>2. StatusFor(g) \in PaymentGatewayStatus
  BY AnswersTyped
<1>3. StatusFor(g) = "PAID" => gateway[o] = Settled
  BY DEF Notification, Notified, StatusFor, Settled
<1>4. QED
  BY <1>1, <1>2, <1>3, BookShape DEF Notification

LEMMA NextShape ==
    ASSUME BaseInv, [Next]_vars
    PROVE  Shape
<1>1. ASSUME NEW s \in Slot, Request(s) PROVE Shape
  <2>1. ASSUME NEW u \in User, NEW o \in Order, NEW a \in OtherAmount,
               CreateTransaction(s, u, o, a)
        PROVE  Shape
    <3>1. a \in Nat /\ 0 \in Nat
      BY PaymentsAssumption
    <3>2. QED
      BY <2>1, <3>1, InsertShape DEF CreateTransaction
  <2>2. CASE (\E u \in User : Pay(s, u)) \/ \E o \in Order : Sync(s, o)
    BY <2>2, StillShape DEF Pay, Sync, duesVars
  <2>3. QED
    BY <1>1, <2>1, <2>2 DEF Request
<1>2. ASSUME NEW o \in Order, Gateway(o) PROVE Shape
  <2>1. PICK from \in {"issued", "pending"}, to \in GatewayStatus : GatewayStep(o, from, to)
    BY <1>2, PaymentsAssumption DEF Gateway, ChooseMethod, Charge, Refuse, CancelTransaction,
       GatewayStatus, Settled
  <2>2. \A p \in Order : SettledStays(p)
    BY <2>1 DEF GatewayStep, SettledStays, Settled, BaseInv, TypeInv, PaymentsTypeOK
  <2>3. QED
    BY <2>1, <2>2 DEF GatewayStep, Shape, NoMoney, duesVars, OrderFixed, NotMadePaid, Made
<1>3. CASE Environment \/ \E s \in Slot : Die(s)
  BY <1>3, StillShape DEF Environment, paymentVars, MonthPasses, SetDuesRule, Die, duesVars
<1>4. CASE UNCHANGED vars
  BY <1>4, StillShape DEF vars, duesVars, paymentVars
<1>5. QED
  BY <1>1, <1>2, <1>3, <1>4, HandleShape, NotificationShape DEF Next

-----------------------------------------------------------------------------
(* The months of a resident *)

\* The rows of each resident run from some first month to the last one paid.
Solid == \A u \in User :
    IF paidUntil[u] = Never THEN MonthsOf(u) = {}
    ELSE \E first \in Month : first <= paidUntil[u] /\ MonthsOf(u) = first .. paidUntil[u]

\* No two rows of a resident are for the same month.
Single == \A c, d \in contributions : c.user = d.user /\ c.month = d.month => c = d

RowsInv == Solid /\ Single

\* The months a payment adds start where the rows end.
LEMMA FirstIsNew ==
    ASSUME DuesTypeOK, Solid, NEW u \in User, NEW m \in MonthsOf(u)
    PROVE  m \in Nat /\ m < FirstMonth(u)
<1>1. paidUntil[u] # Never /\ paidUntil[u] \in Nat /\ FirstMonth(u) = paidUntil[u] + 1
  BY DEF Solid, DuesTypeOK, FirstMonth, Month, Never
<1>2. PICK first \in Month : MonthsOf(u) = first .. paidUntil[u]
  BY <1>1 DEF Solid
<1>3. QED
  BY <1>1, <1>2 DEF Month

\* The rows a payment adds: one for each month it covers.
LEMMA RowsAdded ==
    ASSUME DuesTypeOK, Solid, NEW u \in User, NEW paid \in Nat, NEW o \in Order
    PROVE  NewContributions(u, paid, o) =
             {[user |-> u, month |-> m, amount |-> MonthlyTotal(u), order |-> Link(u, m, o)] :
                m \in FirstMonth(u) .. FirstMonth(u) + MonthsPaid(u, paid) - 1}
<1> DEFINE I == FirstMonth(u) .. FirstMonth(u) + MonthsPaid(u, paid) - 1
<1>1. FirstMonth(u) \in Nat /\ MonthsPaid(u, paid) \in Nat
  BY MonthsTyped DEF Month
<1>2. ASSUME NEW m \in I PROVE ~HasPaid(u, m)
  <2>1. m \notin MonthsOf(u)
    BY <1>1, FirstIsNew
  <2>2. QED
    BY <2>1 DEF HasPaid, MonthsOf
<1>3. {n \in I : ~HasPaid(u, n)} = I
  BY <1>2
<1>4. QED
  BY <1>3 DEF NewContributions

LEMMA DistributionRows ==
    ASSUME DuesTypeOK, RowsInv, NEW u \in User, NEW paid \in Nat, NEW o \in Order,
           DistributeContribution(u, paid, o)
    PROVE  RowsInv'
<1> DEFINE first == FirstMonth(u)
<1> DEFINE n == MonthsPaid(u, paid)
<1> DEFINE row(m) == [user |-> u, month |-> m, amount |-> MonthlyTotal(u), order |-> Link(u, m, o)]
<1> DEFINE I == first .. first + n - 1
<1>1. first \in Nat /\ first # 0 /\ n \in Nat
  BY MonthsTyped DEF Month
<1>2. contributions' = contributions \cup {row(m) : m \in I}
  BY RowsAdded DEF RowsInv, DistributeContribution
<1>3. paidUntil' = IF n = 0 THEN paidUntil ELSE [paidUntil EXCEPT ![u] = first + n - 1]
  BY DEF DistributeContribution
<1>4. \A m \in MonthsOf(u) : m \in Nat /\ m < first
  BY FirstIsNew DEF RowsInv
<1>5. IF paidUntil[u] = Never THEN MonthsOf(u) = {}
      ELSE first = paidUntil[u] + 1
           /\ \E k \in Month : k <= paidUntil[u] /\ MonthsOf(u) = k .. paidUntil[u]
  BY DEF RowsInv, Solid, FirstMonth
<1>6. paidUntil \in [User -> Nat]
  BY DEF DuesTypeOK, Month, Never
<1> HIDE DEF first, n
<1>7. \A m : row(m).user = u /\ row(m).month = m
  OBVIOUS
<1>8. Single'
  <2>1. ASSUME NEW c \in contributions, NEW m \in I, c.user = u PROVE c.month # m
    <3>1. c.month \in MonthsOf(u)
      BY <2>1 DEF MonthsOf
    <3>2. QED
      BY <1>1, <1>4, <3>1
  <2>2. QED
    BY <1>2, <1>7, <2>1 DEF RowsInv, Single
<1>9. MonthsOf(u)' = MonthsOf(u) \cup I
  <2>1. MonthsOf(u)' = {c.month : c \in {d \in contributions \cup {row(m) : m \in I} : d.user = u}}
    BY <1>2 DEF MonthsOf
  <2>2. {d \in contributions \cup {row(m) : m \in I} : d.user = u}
          = RowsOf(u) \cup {row(m) : m \in I}
    BY <1>7 DEF RowsOf
  <2>3. {c.month : c \in RowsOf(u) \cup {row(m) : m \in I}} = MonthsOf(u) \cup I
    BY <1>7 DEF RowsOf, MonthsOf
  <2>4. QED
    BY <2>1, <2>2, <2>3
<1>10. ASSUME NEW v \in User, v # u PROVE MonthsOf(v)' = MonthsOf(v)
  <2>1. {d \in contributions \cup {row(m) : m \in I} : d.user = v}
          = {d \in contributions : d.user = v}
    BY <1>7, <1>10
  <2>2. QED
    BY <1>2, <2>1 DEF MonthsOf
<1>11. Solid'
  <2>1. ASSUME NEW v \in User
        PROVE IF paidUntil'[v] = Never THEN MonthsOf(v)' = {}
              ELSE \E k \in Month : k <= paidUntil'[v] /\ MonthsOf(v)' = k .. paidUntil'[v]
    <3>1. CASE v # u
      <4>1. paidUntil'[v] = paidUntil[v] /\ MonthsOf(v)' = MonthsOf(v)
        BY <1>3, <1>6, <1>10, <3>1
      <4>2. QED
        BY <4>1 DEF RowsInv, Solid
    <3>2. CASE v = u /\ n = 0
      <4>1. I = {}
        BY <1>1, <3>2
      <4>2. paidUntil'[v] = paidUntil[v] /\ MonthsOf(v)' = MonthsOf(v)
        BY <1>3, <1>9, <3>2, <4>1
      <4>3. QED
        BY <4>2 DEF RowsInv, Solid
    <3>3. CASE v = u /\ n # 0
      <4>1. paidUntil'[v] = first + n - 1 /\ first + n - 1 # Never
        BY <1>1, <1>3, <1>6, <3>3 DEF Never
      <4>2. CASE paidUntil[u] = Never
        <5>1. MonthsOf(v)' = first .. first + n - 1
          BY <1>5, <1>9, <3>3, <4>2
        <5>2. first \in Month /\ first <= first + n - 1
          BY <1>1, <3>3 DEF Month
        <5>3. QED
          BY <4>1, <5>1, <5>2
      <4>3. CASE paidUntil[u] # Never
        <5>1. PICK k \in Month : k <= paidUntil[u] /\ MonthsOf(u) = k .. paidUntil[u]
          BY <1>5, <4>3
        <5>2. first = paidUntil[u] + 1 /\ paidUntil[u] \in Nat /\ k \in Nat
          BY <1>5, <1>6, <4>3 DEF Month
        <5>3. (k .. paidUntil[u]) \cup (first .. first + n - 1) = k .. first + n - 1
          BY <1>1, <3>3, <5>1, <5>2
        <5>4. MonthsOf(v)' = k .. first + n - 1
          BY <1>9, <3>3, <5>1, <5>3
        <5>5. k <= first + n - 1
          BY <1>1, <3>3, <5>1, <5>2
        <5>6. QED
          BY <4>1, <5>4, <5>5
      <4>4. QED
        BY <4>2, <4>3
    <3>4. QED
      BY <3>1, <3>2, <3>3
  <2>2. QED
    BY <2>1 DEF Solid
<1>12. QED
  BY <1>8, <1>11 DEF RowsInv

LEMMA RowsStep == BaseInv /\ RowsInv /\ [Next]_vars => RowsInv'
<1> SUFFICES ASSUME BaseInv, RowsInv, [Next]_vars PROVE RowsInv'
  OBVIOUS
<1>1. Shape
  BY NextShape
<1>2. CASE NoMoney
  BY <1>2 DEF NoMoney, RowsInv, Solid, Single, MonthsOf
<1>3. ASSUME NEW o \in Made, Distributes(o) PROVE RowsInv'
  <2>1. o \in Order /\ order[o].user \in User /\ order[o].amount \in Nat
    BY DEF Made, BaseInv, TypeInv, PaymentsTypeOK, OrderRow
  <2>2. QED
    BY <1>3, <2>1, DistributionRows DEF Distributes, BaseInv, TypeInv, PaymentsTypeOK
<1>4. QED
  BY <1>1, <1>2, <1>3 DEF Shape

LEMMA RowsInitially == Init => RowsInv
  BY DEF Init, DuesInit, RowsInv, Solid, Single, MonthsOf

\* The rows of a resident are as many as their months.
LEMMA RowsAreCounted ==
    ASSUME BaseInv, RowsInv
    PROVE  EveryMonthOnce
<1> SUFFICES ASSUME NEW u \in User
             PROVE  /\ Cardinality(RowsOf(u)) = Cardinality(MonthsOf(u))
                    /\ IF paidUntil[u] = Never THEN MonthsOf(u) = {}
                       ELSE \E first \in MonthsOf(u) : MonthsOf(u) = first .. paidUntil[u]
  BY DEF EveryMonthOnce
<1>1. paidUntil[u] \in Nat
  BY DEF BaseInv, TypeInv, PaymentsTypeOK, DuesTypeOK, Month, Never
<1>2. \E k, l \in Int : MonthsOf(u) = k .. l
  <2>1. CASE paidUntil[u] = Never
    <3>1. MonthsOf(u) = 1 .. 0
      BY <2>1 DEF RowsInv, Solid
    <3>2. QED
      BY <3>1
  <2>2. CASE paidUntil[u] # Never
    BY <1>1, <2>2 DEF RowsInv, Solid, Month
  <2>3. QED
    BY <2>1, <2>2
<1>3. IsFiniteSet(MonthsOf(u))
  BY <1>2, FS_Interval
<1> DEFINE f == [m \in MonthsOf(u) |-> CHOOSE c \in RowsOf(u) : c.month = m]
<1>4. \A m \in MonthsOf(u) : f[m] \in RowsOf(u) /\ f[m].month = m
  BY DEF MonthsOf, RowsOf
<1>5. \A c \in RowsOf(u) : c.month \in MonthsOf(u) /\ f[c.month] = c
  <2>1. ASSUME NEW c \in RowsOf(u) PROVE c.month \in MonthsOf(u)
    BY DEF MonthsOf, RowsOf
  <2>2. QED
    BY <1>4, <2>1 DEF RowsInv, Single, RowsOf
<1>6. f \in [MonthsOf(u) -> RowsOf(u)]
  BY <1>4
<1> HIDE DEF f
<1>7. f \in Bijection(MonthsOf(u), RowsOf(u))
  BY <1>4, <1>5, <1>6 DEF Bijection, Injection, Surjection, IsInjective
<1>8. Cardinality(RowsOf(u)) = Cardinality(MonthsOf(u))
  BY <1>3, <1>7, FS_Bijection DEF ExistsBijection
<1>9. CASE paidUntil[u] # Never
  <2>1. PICK k \in Month : k <= paidUntil[u] /\ MonthsOf(u) = k .. paidUntil[u]
    BY <1>9 DEF RowsInv, Solid
  <2>2. k \in MonthsOf(u)
    BY <1>1, <2>1 DEF Month
  <2>3. QED
    BY <1>8, <1>9, <2>1, <2>2
<1>10. QED
  BY <1>8, <1>9 DEF RowsInv, Solid

(***************************************************************************)
(* The months of a resident have no gap and none is charged twice,          *)
(* whatever the rates become between a bill and its distribution and        *)
(* however often, and in whatever order, payments are notified.             *)
(***************************************************************************)
THEOREM MonthsFollow == Spec => []EveryMonthOnce
<1>1. BaseInv /\ RowsInv => EveryMonthOnce
  BY RowsAreCounted
<1>2. Init => BaseInv /\ RowsInv
  BY BaseInitially, RowsInitially
<1>3. BaseInv /\ RowsInv /\ [Next]_vars => (BaseInv /\ RowsInv)'
  BY BaseStep, RowsStep
<1>4. QED
  BY <1>1, <1>2, <1>3, PTL DEF Spec

-----------------------------------------------------------------------------
(* The money of an order *)

\* No order is below a month of its payer's rates, as they are now, and these
\* are not 0: a payment covers one month at least, so a row names its order.
Covered == \A o \in Made :
    0 < MonthlyTotal(order[o].user) /\ MonthlyTotal(order[o].user) <= order[o].amount

\* An order is credited once, and then a row names it.
Once == \A o \in Order : credited[o] # 0 =>
    /\ credited[o] = order[o].amount /\ gateway[o] = Settled
    /\ \E c \in contributions : c.order = o

MoneyInv == Once /\ PaidIsCredited

\* A covered payment leaves a row that names its order, and there was none before.
LEMMA DistributionLinks ==
    ASSUME DuesTypeOK, RowsInv, NEW u \in User, NEW paid \in Nat, NEW o \in Order,
           0 < MonthlyTotal(u), MonthlyTotal(u) <= paid, DistributeContribution(u, paid, o)
    PROVE  /\ \E c \in contributions' : c.order = o
           /\ ~ \E c \in contributions : c.order = o
<1> DEFINE first == FirstMonth(u)
<1> DEFINE row(m) == [user |-> u, month |-> m, amount |-> MonthlyTotal(u), order |-> Link(u, m, o)]
<1>1. first \in Nat /\ MonthsPaid(u, paid) \in Nat /\ MonthsPaid(u, paid) >= 1
  BY MonthsTyped DEF Month
<1>2. first \in first .. first + MonthsPaid(u, paid) - 1
  BY <1>1
<1>3. row(first) \in NewContributions(u, paid, o)
  BY <1>2, RowsAdded DEF RowsInv
<1>4. row(first).order = o
  BY DEF Link
<1>5. QED
  BY <1>3, <1>4 DEF DistributeContribution, LinkIsFree

LEMMA MoneyStep == BaseInv /\ RowsInv /\ MoneyInv /\ Covered /\ [Next]_vars => MoneyInv'
<1> SUFFICES ASSUME BaseInv, RowsInv, MoneyInv, Covered, [Next]_vars PROVE MoneyInv'
  OBVIOUS
<1>1. Shape
  BY NextShape
<1>2. \A o \in Order : credited[o] # 0 \/ order[o].status = "PAID" => o \in Made
  BY DEF BaseInv, OrdersInv, Unmade, Made, Exists
<1>3. \A o \in Made : OrderFixed(o) /\ SettledStays(o)
  BY <1>1 DEF Shape
\* An order whose money does not move.
<1>4. ASSUME NEW o \in Order, credited'[o] = credited[o], NotMadePaid(o),
             contributions \subseteq contributions'
      PROVE  /\ credited'[o] # 0 => /\ credited'[o] = order'[o].amount /\ gateway'[o] = Settled
                                    /\ \E c \in contributions' : c.order = o
             /\ order'[o].status = "PAID" => credited'[o] = order'[o].amount
  BY <1>2, <1>3, <1>4 DEF OrderFixed, SettledStays, NotMadePaid, MoneyInv, Once, PaidIsCredited
<1>5. CASE NoMoney /\ \A o \in Order : NotMadePaid(o)
  BY <1>4, <1>5 DEF NoMoney, MoneyInv, Once, PaidIsCredited
<1>6. ASSUME NEW o \in Made, Distributes(o) PROVE MoneyInv'
  <2>1. o \in Order /\ order[o].user \in User /\ order[o].amount \in Nat /\ DuesTypeOK
    BY DEF Made, BaseInv, TypeInv, PaymentsTypeOK, OrderRow
  <2>2. DistributeContribution(order[o].user, order[o].amount, o)
    BY <1>6 DEF Distributes
  <2>3. /\ \E c \in contributions' : c.order = o
        /\ ~ \E c \in contributions : c.order = o
    BY <2>1, <2>2, DistributionLinks DEF Covered
  <2>4. credited[o] = 0
    BY <2>1, <2>3 DEF MoneyInv, Once
  <2>5. credited' = [credited EXCEPT ![o] = @ + order[o].amount]
        /\ credited \in [Order -> Nat]
    BY <2>1, <2>2, DistributionTyped DEF DuesTypeOK
  <2>6. credited'[o] = order'[o].amount /\ gateway'[o] = Settled
    BY <1>3, <1>6, <2>1, <2>4, <2>5 DEF Distributes, OrderFixed, SettledStays
  <2>7. \A p \in Order \ {o} : credited'[p] = credited[p] /\ NotMadePaid(p)
    BY <1>6, <2>5 DEF Distributes
  <2>8. contributions \subseteq contributions'
    BY <2>2 DEF DistributeContribution
  <2>9. QED
    BY <1>4, <2>3, <2>6, <2>7, <2>8 DEF MoneyInv, Once, PaidIsCredited
<1>7. QED
  BY <1>1, <1>5, <1>6 DEF Shape

LEMMA MoneyInitially == Init => MoneyInv
  BY DEF Init, DuesInit, MoneyInv, Once, PaidIsCredited

LEMMA MoneyHolds == Spec /\ []Covered => []MoneyInv
<1>1. Init => BaseInv /\ RowsInv /\ MoneyInv
  BY BaseInitially, RowsInitially, MoneyInitially
<1>2. BaseInv /\ RowsInv /\ MoneyInv /\ Covered /\ [Next]_vars
        => (BaseInv /\ RowsInv /\ MoneyInv)'
  BY BaseStep, RowsStep, MoneyStep
<1>3. QED
  BY <1>1, <1>2, PTL DEF Spec

(***************************************************************************)
(* While no order is below a month's rates (for dues: unless a rate rises   *)
(* above the bill or is taken back) it is distributed at most once, and     *)
(* only if it was charged: however many handlers and notifications meet on  *)
(* it, and whichever overwrites its status, the row that names it stops the *)
(* second distribution.                                                     *)
(***************************************************************************)
THEOREM CoveredIsCreditedOnce == Spec /\ []Covered => []CreditedOnce
<1>1. MoneyInv => CreditedOnce
  BY DEF MoneyInv, Once, CreditedOnce
<1>2. QED
  BY <1>1, MoneyHolds, PTL

(***************************************************************************)
(* Under the same condition an order that shows PAID has been distributed   *)
(* to the last rupiah.                                                      *)
(***************************************************************************)
THEOREM CoveredPaidIsCredited == Spec /\ []Covered => []PaidIsCredited
<1>1. MoneyInv => PaidIsCredited
  BY DEF MoneyInv
<1>2. QED
  BY <1>1, MoneyHolds, PTL

-----------------------------------------------------------------------------
(* The kinds of steps, seen from PaymentOrder *)

\* An order that is there has a price, and no other has one.
Priced == \A o \in Order : order[o].amount > 0 <=> o \in Made

KeepsPrices == Made' = Made /\ \A o \in Order : order'[o].amount = order[o].amount
KeepsCharges == \A o \in Order : gateway'[o] = Settled <=> gateway[o] = Settled
Quiet == KeepsPrices /\ KeepsCharges /\ UNCHANGED <<balance, credited>>

MakesOrder(o) ==
    /\ o \notin Made /\ Made' = Made \cup {o}
    /\ order'[o].amount \in Nat \ {0}
    /\ \A p \in Order \ {o} : order'[p].amount = order[p].amount
    /\ UNCHANGED <<gateway, duesVars>>

ChargesOrder(o) == GatewayStep(o, "pending", Settled)

DistributesOrder(o) ==
    /\ gateway[o] = Settled /\ UNCHANGED gateway /\ KeepsPrices
    /\ DistributeContribution(order[o].user, order[o].amount, o)

StepKind ==
    \/ Quiet
    \/ \E o \in Order : MakesOrder(o)
    \/ \E o \in Made : ChargesOrder(o) \/ DistributesOrder(o)

LEMMA StillQuiet == UNCHANGED <<order, gateway, balance, credited>> => Quiet
  BY MadeStays DEF Quiet, KeepsPrices, KeepsCharges

LEMMA StatusKeepsPrices ==
    ASSUME TypeInv, NEW o \in Made, NEW st \in PaymentGatewayStatus, SetStatus(o, st)
    PROVE  KeepsPrices
<1>1. o \in Order /\ Made' = Made
  BY StatusTyped DEF Made
<1>2. order' = [order EXCEPT ![o].status = st] /\ order \in [Order -> OrderRow]
  BY DEF SetStatus, TypeInv, PaymentsTypeOK
<1>3. QED
  BY <1>1, <1>2 DEF KeepsPrices, OrderRow

LEMMA BookKind ==
    ASSUME TypeInv, NEW o \in Made, NEW st \in PaymentGatewayStatus,
           Book(o, st) \/ BookFails(o, st), UNCHANGED gateway,
           st = "PAID" => gateway[o] = Settled
    PROVE  StepKind
<1>1. CASE BookFails(o, st)
  BY <1>1, StillQuiet DEF BookFails, StepKind, duesVars, ledgerVars
<1>2. CASE Book(o, st) /\ st = "PAID"
  BY <1>2, StatusKeepsPrices DEF Book, StepKind, DistributesOrder
<1>3. CASE Book(o, st) /\ st # "PAID"
  BY <1>3, StatusKeepsPrices DEF Book, StepKind, Quiet, KeepsCharges, duesVars, ledgerVars
<1>4. QED
  BY <1>1, <1>2, <1>3

LEMMA InsertKind ==
    ASSUME TypeInv, NEW o \in Order, NEW u \in User, NEW a \in Nat \ {0}, NEW m \in Nat,
           Insert(o, u, a, m), UNCHANGED <<gateway, duesVars>>
    PROVE  StepKind
<1>1. o \notin Made /\ Made' = Made \cup {o}
  BY InsertTyped
<1>2. order' = [order EXCEPT ![o] = [status |-> "PENDING", user |-> u, amount |-> a, for |-> m]]
      /\ order \in [Order -> OrderRow]
  BY DEF Insert, TypeInv, PaymentsTypeOK
<1>3. order'[o].amount = a /\ \A p \in Order \ {o} : order'[p].amount = order[p].amount
  BY <1>2
<1>4. MakesOrder(o)
  BY <1>1, <1>3 DEF MakesOrder
<1>5. QED
  BY <1>4 DEF StepKind

LEMMA HandleKind ==
    ASSUME BaseInv, NEW s \in Slot, Handle(s)
    PROVE  StepKind
<1>1. CASE AskPending(s) \/ AskStatus(s)
  BY <1>1, StillQuiet DEF AskPending, AskStatus, StepKind, duesVars, ledgerVars
<1>2. CASE MarkOld(s)
  <2>1. call[s].order \in Made /\ call[s].status \in PaymentGatewayStatus
    BY <1>2 DEF MarkOld, At, BaseInv, TypeInv, PaymentsTypeOK, CallsKnow, WithOrder, Call
  <2>2. KeepsPrices
    BY <1>2, <2>1, StatusKeepsPrices DEF MarkOld, BaseInv
  <2>3. QED
    BY <1>2, <2>2 DEF MarkOld, StepKind, Quiet, KeepsCharges, duesVars, ledgerVars
<1>3. CASE RequestToken(s)
  <2>1. gateway[call[s].order] # Settled
    BY <1>3 DEF RequestToken, At, BaseInv, OrdersInv, CallsInv, Tokens, Settled
  <2>2. KeepsCharges
    BY <1>3, <2>1 DEF RequestToken, KeepsCharges, Settled, BaseInv, TypeInv, PaymentsTypeOK
  <2>3. QED
    BY <1>3, <2>2, MadeStays DEF RequestToken, StepKind, Quiet, KeepsPrices, duesVars, ledgerVars
<1>4. CASE Update(s)
  <2>1. call[s].order \in Made /\ call[s].status \in PaymentGatewayStatus
        /\ (call[s].status = "PAID" => gateway[call[s].order] = Settled)
    BY <1>4 DEF Update, At, WithOrder, BaseInv, TypeInv, PaymentsTypeOK, CallsKnow, Call,
       OrdersInv, CallsInv, Verdicts
  <2>2. QED
    BY <1>4, <2>1, BookKind DEF Update, BaseInv
<1>5. ASSUME NEW o \in Order, NEW m \in MonthCount, BillOrder(s, o, m)
      PROVE  StepKind
  <2>1. call[s].user \in User /\ m \in Nat \ {0} /\ UNCHANGED <<gateway, duesVars>>
    BY <1>5, PaymentsAssumption DEF BillOrder, BaseInv, TypeInv, PaymentsTypeOK, Call
  <2>3. CASE MonthlyTotal(call[s].user) = 0
    BY <1>5, <2>1, <2>3, StillQuiet DEF BillOrder, StepKind, duesVars, ledgerVars
  <2>4. CASE MonthlyTotal(call[s].user) # 0
    <3>1. Rounded(MonthlyTotal(call[s].user) * m) \in Nat \ {0}
      BY <2>1, <2>4, BillTotal DEF BaseInv, TypeInv, PaymentsTypeOK
    <3>2. Insert(o, call[s].user, Rounded(MonthlyTotal(call[s].user) * m), m)
      BY <1>5, <2>4 DEF BillOrder
    <3>3. QED
      BY <2>1, <3>1, <3>2, InsertKind DEF BaseInv
  <2>5. QED
    BY <2>3, <2>4
<1>6. QED
  BY <1>1, <1>2, <1>3, <1>4, <1>5 DEF Handle

LEMMA NotificationKind ==
    ASSUME BaseInv, NEW o \in Order, NEW g \in GatewayStatus, Notification(o, g)
    PROVE  StepKind
<1>1. o \in Made
  BY DEF Notification, Notified, BaseInv, OrdersInv, Unmade
<1>2. StatusFor(g) \in PaymentGatewayStatus
  BY AnswersTyped
<1>3. StatusFor(g) = "PAID" => gateway[o] = Settled
  BY DEF Notification, Notified, StatusFor, Settled
<1>4. QED
  BY <1>1, <1>2, <1>3, BookKind DEF Notification, BaseInv

LEMMA GatewayKind ==
    ASSUME BaseInv, NEW o \in Order, Gateway(o)
    PROVE  StepKind
<1>1. CASE Charge(o)
  <2>1. o \in Made
    BY <1>1 DEF Charge, GatewayStep, BaseInv, OrdersInv, Unmade
  <2>2. QED
    BY <1>1, <2>1 DEF Charge, StepKind, ChargesOrder
<1>2. CASE ~Charge(o)
  <2>1. PICK from \in {"issued", "pending"}, to \in {"pending", "expire", "deny", "cancel"} :
           GatewayStep(o, from, to)
    BY <1>2, PaymentsAssumption DEF Gateway, ChooseMethod, Refuse, CancelTransaction
  <2>2. KeepsCharges
    BY <2>1 DEF GatewayStep, KeepsCharges, Settled, BaseInv, TypeInv, PaymentsTypeOK
  <2>3. QED
    BY <2>1, <2>2, MadeStays DEF GatewayStep, StepKind, Quiet, KeepsPrices, duesVars, ledgerVars
<1>3. QED
  BY <1>1, <1>2

LEMMA NextKind ==
    ASSUME BaseInv, [Next]_vars
    PROVE  StepKind
<1>1. ASSUME NEW s \in Slot, Request(s) PROVE StepKind
  <2>1. ASSUME NEW u \in User, NEW o \in Order, NEW a \in OtherAmount,
               CreateTransaction(s, u, o, a)
        PROVE  StepKind
    <3>1. a \in Nat \ {0} /\ 0 \in Nat
      BY PaymentsAssumption
    <3>2. QED
      BY <2>1, <3>1, InsertKind DEF CreateTransaction, BaseInv
  <2>2. CASE (\E u \in User : Pay(s, u)) \/ \E o \in Order : Sync(s, o)
    BY <2>2, StillQuiet DEF Pay, Sync, StepKind, duesVars, ledgerVars
  <2>3. QED
    BY <1>1, <2>1, <2>2 DEF Request
<1>2. CASE Environment \/ \E s \in Slot : Die(s)
  BY <1>2, StillQuiet DEF Environment, paymentVars, MonthPasses, SetDuesRule, Die, duesVars,
     ledgerVars, StepKind
<1>3. CASE UNCHANGED vars
  BY <1>3, StillQuiet DEF vars, duesVars, ledgerVars, paymentVars, StepKind
<1>4. QED
  BY <1>1, <1>2, <1>3, HandleKind, NotificationKind, GatewayKind DEF Next

LEMMA PricedInitially == Init => Priced
  BY DEF Init, Priced, Made, Exists

LEMMA PricedStep == BaseInv /\ Priced /\ [Next]_vars => Priced'
<1> SUFFICES ASSUME BaseInv, Priced, [Next]_vars PROVE Priced'
  OBVIOUS
<1>1. StepKind
  BY NextKind
<1>2. CASE KeepsPrices
  BY <1>2 DEF KeepsPrices, Priced
<1>3. ASSUME NEW o \in Order, MakesOrder(o) PROVE Priced'
  BY <1>3 DEF MakesOrder, Priced
<1>4. ASSUME NEW o \in Made, ChargesOrder(o) PROVE Priced'
  BY <1>4, MadeStays DEF ChargesOrder, GatewayStep, Priced
<1>5. QED
  BY <1>1, <1>2, <1>3, <1>4 DEF StepKind, Quiet, DistributesOrder

-----------------------------------------------------------------------------
(* The money in the wallets *)

\* The shares of a payment add up to it.
LEMMA SharesSum ==
    ASSUME DuesTypeOK, NEW u \in User, NEW paid \in Nat
    PROVE  /\ \A g \in Group : Shares(u, paid)[g] \in Int
           /\ Sum(Shares(u, paid), Group) = paid
<1> DEFINE home == Home(u)
<1> DEFINE none == [g \in Group |-> 0]
<1> DEFINE one == [none EXCEPT ![home] = ToHome(u, paid)]
<1>1. /\ ToHome(u, paid) \in Int /\ ToParent(u, paid) \in Int
      /\ 0 + ToHome(u, paid) + ToParent(u, paid) = 0 + paid
  BY SharesAddUp
<1>2. home \in Group /\ IsFiniteSet(Group) /\ Parent(u) # home
      /\ (Parent(u) \in Group \/ Parent(u) = NoGroup)
  BY OrganizationAssumption, DuesAssumption DEF Home, Parent
<1>3. Sum(none, Group) = 0
  <2>1. Sum(none, Group) = 0 * Cardinality(Group) /\ Cardinality(Group) \in Nat
    BY <1>2, SumOfConstant, FS_CardinalityType
  <2>2. QED
    BY <2>1
<1>4. Sum(one, Group) = ToHome(u, paid)
  <2>1. /\ none[home] = 0 /\ one[home] = ToHome(u, paid)
        /\ \A g \in Group : none[g] \in Int
        /\ \A g \in Group \ {home} : one[g] = none[g]
    BY <1>2
  <2> HIDE DEF none, one, home
  <2>2. Sum(one, Group) = Sum(none, Group) + (one[home] - none[home])
    BY <1>1, <1>2, <2>1, SumChange
  <2>3. QED
    BY <1>1, <1>3, <2>1, <2>2
<1>5. \A g \in Group : Shares(u, paid)[g] \in Int
  BY <1>1 DEF Shares
<1>6. CASE Parent(u) = NoGroup
  <2>1. ParentRate(u) = 0 /\ MonthsPaid(u, paid) \in Nat
    BY <1>6, MonthsTyped DEF ParentRate
  <2>2. ToParent(u, paid) = 0 * MonthsPaid(u, paid)
    BY <2>1 DEF ToParent
  <2>3. ToHome(u, paid) = paid
    BY <1>1, <2>1, <2>2
  <2>4. \A g \in Group : one[g] \in Int /\ Shares(u, paid)[g] = one[g]
    BY <1>1, <1>2, <1>6, OrganizationAssumption DEF Shares
  <2> HIDE DEF one
  <2>5. Sum(Shares(u, paid), Group) = Sum(one, Group)
    BY <1>2, <2>4, SumSame
  <2>6. QED
    BY <1>4, <1>5, <2>3, <2>5
<1>7. CASE Parent(u) \in Group
  <2>1. /\ one[Parent(u)] = 0 /\ Shares(u, paid)[Parent(u)] = ToParent(u, paid)
        /\ \A g \in Group : one[g] \in Int
        /\ \A g \in Group \ {Parent(u)} : Shares(u, paid)[g] = one[g]
    BY <1>1, <1>2, <1>7 DEF Shares
  <2> HIDE DEF one
  <2>2. Sum(Shares(u, paid), Group)
          = Sum(one, Group) + (Shares(u, paid)[Parent(u)] - one[Parent(u)])
    BY <1>1, <1>2, <1>7, <2>1, SumChange
  <2>3. QED
    BY <1>1, <1>4, <1>5, <2>1, <2>2
<1>8. QED
  BY <1>2, <1>6, <1>7

Total == SumFunction(balance)

LEMMA TotalIsSum == DuesTypeOK => Total = Sum(balance, Group) /\ Total \in Int
<1> SUFFICES ASSUME DuesTypeOK PROVE Total = Sum(balance, Group) /\ Total \in Int
  OBVIOUS
<1>1. DOMAIN balance = Group /\ \A g \in Group : balance[g] \in Int
  BY DEF DuesTypeOK, LedgerTypeOK
<1>2. Total = Sum(balance, Group)
  BY <1>1 DEF Total, Sum, SumFunction
<1>3. QED
  BY <1>1, <1>2, SumInt, DuesAssumption

\* What a distribution adds to the wallets is what was paid.
LEMMA DistributionTotal ==
    ASSUME DuesTypeOK, NEW u \in User, NEW paid \in Nat, NEW o \in Order,
           DistributeContribution(u, paid, o)
    PROVE  Total' = Total + paid
<1> DEFINE share == Shares(u, paid)
<1>1. DuesTypeOK'
  BY DistributionTyped
<1>2. (\A g \in Group : share[g] \in Int) /\ Sum(share, Group) = paid
  BY SharesSum
<1>3. balance' = [g \in Group |-> balance[g] + share[g]]
  BY DEF DistributeContribution, CreditShares
<1> HIDE DEF share
<1>4. \A g \in Group : balance[g] \in Int /\ balance'[g] = balance[g] + share[g]
  BY <1>3 DEF DuesTypeOK, LedgerTypeOK
<1>5. Sum(balance', Group) = Sum(balance, Group) + Sum(share, Group)
  BY <1>2, <1>4, SumPlus, DuesAssumption
<1>6. Total' = Sum(balance', Group)
  BY <1>1, <1>4 DEF Total, Sum, SumFunction, DuesTypeOK, LedgerTypeOK
<1>7. QED
  BY <1>2, <1>5, <1>6, TotalIsSum

-----------------------------------------------------------------------------
(* Payments implements PaymentOrder *)

price == [o \in Order |-> order[o].amount]
charged == {o \in Order : gateway[o] = Settled}
arrived == {o \in Order : credited[o] # 0}

LEMMA PromiseQuiet == Quiet => UNCHANGED <<price, charged, arrived, Total>>
<1> SUFFICES ASSUME Quiet PROVE UNCHANGED <<price, charged, arrived, Total>>
  OBVIOUS
<1>1. price' = price
  BY DEF Quiet, KeepsPrices, price
<1>2. charged' = charged /\ arrived' = arrived
  BY DEF Quiet, KeepsCharges, charged, arrived
<1>3. Total' = Total
  BY DEF Quiet, Total
<1>4. QED
  BY <1>1, <1>2, <1>3

LEMMA PromiseMade ==
    ASSUME BaseInv, Priced, NEW o \in Order, MakesOrder(o)
    PROVE  Promise!Make(o)
<1>1. order[o].amount = 0
  BY DEF MakesOrder, Priced, BaseInv, TypeInv, PaymentsTypeOK, OrderRow
<1>2. price[o] = 0 /\ price'[o] > 0 /\ price' = [price EXCEPT ![o] = price'[o]]
  <2>1. price' = [p \in Order |-> order'[p].amount]
    BY DEF price
  <2>2. \A p \in Order : price'[p] = IF p = o THEN order'[o].amount ELSE price[p]
    BY <2>1 DEF MakesOrder, price
  <2>3. DOMAIN price = Order
    BY DEF price
  <2>4. price' = [price EXCEPT ![o] = price'[o]]
    BY <2>1, <2>2, <2>3
  <2>5. price[o] = 0 /\ price'[o] > 0
    BY <1>1, <2>1 DEF MakesOrder, price
  <2>6. QED
    BY <2>4, <2>5
<1>3. UNCHANGED <<charged, arrived, Total>>
  BY DEF MakesOrder, duesVars, ledgerVars, charged, arrived, Total
<1>4. QED
  BY <1>2, <1>3 DEF Promise!Make, price, charged, arrived, Total

LEMMA PromiseCharged ==
    ASSUME BaseInv, Priced, NEW o \in Made, ChargesOrder(o)
    PROVE  Promise!Charge(o)
<1>1. o \in Order /\ price[o] > 0
  BY DEF Priced, Made, price
<1>2. gateway[o] # Settled /\ gateway' = [gateway EXCEPT ![o] = Settled]
      /\ gateway \in [Order -> GatewayStatus]
  BY DEF ChargesOrder, GatewayStep, Settled, BaseInv, TypeInv, PaymentsTypeOK
<1>3. o \notin charged /\ charged' = charged \cup {o}
  BY <1>1, <1>2 DEF charged
<1>4. UNCHANGED <<price, arrived, Total>>
  BY DEF ChargesOrder, GatewayStep, duesVars, ledgerVars, price, arrived, Total
<1>5. QED
  BY <1>1, <1>3, <1>4 DEF Promise!Charge, price, charged, arrived, Total

LEMMA PromiseArrived ==
    ASSUME BaseInv, RowsInv, MoneyInv, Priced, Covered, NEW o \in Made, DistributesOrder(o)
    PROVE  Promise!Arrive(o)
<1> DEFINE paid == order[o].amount
<1>1. o \in Order /\ order[o].user \in User /\ paid \in Nat /\ paid > 0 /\ DuesTypeOK
  BY DEF Made, Priced, BaseInv, TypeInv, PaymentsTypeOK, OrderRow
<1>2. DistributeContribution(order[o].user, paid, o)
  BY DEF DistributesOrder
<1>3. ~ \E c \in contributions : c.order = o
  BY <1>1, <1>2, DistributionLinks DEF Covered, BaseInv
<1>4. credited[o] = 0
  BY <1>1, <1>3 DEF MoneyInv, Once
<1>5. credited' = [credited EXCEPT ![o] = @ + paid] /\ credited \in [Order -> Nat]
  BY <1>1, <1>2, DistributionTyped DEF DuesTypeOK
<1>6. o \in charged \ arrived /\ arrived' = arrived \cup {o}
  BY <1>1, <1>4, <1>5 DEF DistributesOrder, charged, arrived
<1>7. Total' = Total + price[o]
  BY <1>1, <1>2, DistributionTotal DEF price
<1>8. UNCHANGED <<price, charged>>
  BY DEF DistributesOrder, KeepsPrices, price, charged
<1>9. QED
  BY <1>6, <1>7, <1>8 DEF Promise!Arrive, price, charged, arrived, Total

LEMMA PromiseInitially == Init => Promise!OrderInit
<1> SUFFICES ASSUME Init PROVE Promise!OrderInit
  OBVIOUS
<1>1. price = [o \in Order |-> 0] /\ charged = {} /\ arrived = {}
  BY DEF Init, DuesInit, price, charged, arrived, Settled
<1>2. Total \in Int
  BY BaseInitially, TotalIsSum DEF BaseInv, TypeInv, PaymentsTypeOK
<1>3. QED
  BY <1>1, <1>2 DEF Promise!OrderInit, price, charged, arrived, Total

LEMMA PromiseStep ==
    BaseInv /\ RowsInv /\ MoneyInv /\ Priced /\ Covered /\ [Next]_vars
      => [Promise!OrderNext]_(Promise!orderVars)
<1> SUFFICES ASSUME BaseInv, RowsInv, MoneyInv, Priced, Covered, [Next]_vars
             PROVE  Promise!OrderNext \/ UNCHANGED Promise!orderVars
  OBVIOUS
<1>1. StepKind
  BY NextKind
<1>2. CASE Quiet
  BY <1>2, PromiseQuiet DEF Promise!orderVars, price, charged, arrived, Total
<1>3. ASSUME NEW o \in Order, MakesOrder(o) PROVE Promise!OrderNext
  BY <1>3, PromiseMade DEF Promise!OrderNext
<1>4. ASSUME NEW o \in Made, ChargesOrder(o) \/ DistributesOrder(o) PROVE Promise!OrderNext
  BY <1>4, PromiseCharged, PromiseArrived DEF Promise!OrderNext, Made
<1>5. QED
  BY <1>1, <1>2, <1>3, <1>4 DEF StepKind

(***************************************************************************)
(* Payments does what PaymentOrder promises of orders: each is made with a  *)
(* fixed price, may be charged once, and then its price arrives in the      *)
(* wallets once and in full, although each step is one of many handlers     *)
(* that race and die.  (That it does arrive in the end needs fairness and   *)
(* is left to the run PaymentsDues.)                                        *)
(***************************************************************************)
THEOREM OrdersAsPromised ==
    Spec /\ []Covered => Promise!OrderInit /\ [][Promise!OrderNext]_(Promise!orderVars)
<1>1. Init => BaseInv /\ RowsInv /\ MoneyInv /\ Priced
  BY BaseInitially, RowsInitially, MoneyInitially, PricedInitially
<1>2. BaseInv /\ RowsInv /\ MoneyInv /\ Priced /\ Covered /\ [Next]_vars
        => (BaseInv /\ RowsInv /\ MoneyInv /\ Priced)'
  BY BaseStep, RowsStep, MoneyStep, PricedStep
<1>3. QED
  BY <1>1, <1>2, PromiseInitially, PromiseStep, PTL DEF Spec
-----------------------------------------------------------------------------
(* What the months of a resident are worth, and what arrived for them *)

AmountOf == [c \in Contribution |-> c.amount]
Worth(u) == Sum(AmountOf, RowsOf(u))
Given(u) == Sum(credited, CreditedOrders(u))
MonthsFor == [o \in Order |-> order[o].for]
Billed(u) == Sum(MonthsFor, CreditedOrders(u))

LEMMA SumOfFunction ==
    ASSUME NEW S, IsFiniteSet(S), NEW f, NEW g, DOMAIN f = S, \A x \in S : f[x] \in Int /\ g[x] = f[x]
    PROVE  SumFunction(f) = Sum(g, S) /\ Sum(g, S) \in Int
<1>1. SumFunction(f) = Sum(f, S)
  BY DEF SumFunction, Sum
<1>2. Sum(g, S) = Sum(f, S) /\ Sum(f, S) \in Int
  BY SumSame, SumInt
<1>3. QED
  BY <1>1, <1>2

LEMMA RowsAreFinite ==
    ASSUME BaseInv, RowsInv, NEW u \in User
    PROVE  IsFiniteSet(RowsOf(u)) /\ Cardinality(RowsOf(u)) \in Nat
<1>1. paidUntil[u] \in Nat
  BY DEF BaseInv, TypeInv, PaymentsTypeOK, DuesTypeOK, Month, Never
<1>2. IsFiniteSet(MonthsOf(u))
  <2>1. CASE paidUntil[u] = Never
    BY <2>1, FS_EmptySet DEF RowsInv, Solid
  <2>2. CASE paidUntil[u] # Never
    <3>1. PICK k \in Month : MonthsOf(u) = k .. paidUntil[u]
      BY <2>2 DEF RowsInv, Solid
    <3>2. QED
      BY <1>1, <3>1, FS_Interval DEF Month
  <2>3. QED
    BY <2>1, <2>2
<1> DEFINE f == [c \in RowsOf(u) |-> c.month]
<1>3. \A c \in RowsOf(u) : c.month \in MonthsOf(u)
  BY DEF RowsOf, MonthsOf
<1>4. \A c, d \in RowsOf(u) : c.month = d.month => c = d
  BY DEF RowsOf, RowsInv, Single
<1>5. f \in Injection(RowsOf(u), MonthsOf(u))
  BY <1>3, <1>4 DEF Injection, IsInjective
<1> HIDE DEF f
<1>6. IsFiniteSet(RowsOf(u))
  BY <1>2, <1>5, FS_Injection
<1>7. QED
  BY <1>6, FS_CardinalityType

LEMMA MadeIsFinite == BaseInv => IsFiniteSet(Made)
<1> SUFFICES ASSUME BaseInv PROVE IsFiniteSet(Made)
  OBVIOUS
<1>1. PICK n \in Nat : \A o \in Made : o <= n
  BY DEF BaseInv, TypeInv, Bounded
<1>2. Made \subseteq Nat
  BY OrdersAreNumbers DEF Made
<1>3. \A o \in Made : o \in 0 .. n
  BY <1>1, <1>2
<1>4. IsFiniteSet(0 .. n) /\ Made \in SUBSET (0 .. n)
  BY <1>3, FS_Interval
<1>5. QED
  BY <1>4, FS_Subset

LEMMA CreditedAreMade ==
    ASSUME BaseInv, NEW u \in User
    PROVE  CreditedOrders(u) \subseteq Made /\ IsFiniteSet(CreditedOrders(u))
<1>1. CreditedOrders(u) \subseteq Made
  BY DEF CreditedOrders, BaseInv, OrdersInv, Unmade
<1>2. QED
  BY <1>1, MadeIsFinite, FS_Subset

\* The sums of the properties are these.
LEMMA SumsMean ==
    ASSUME BaseInv, RowsInv, NEW u \in User
    PROVE  /\ SumFunction([c \in RowsOf(u) |-> c.amount]) = Worth(u)
           /\ SumFunction([o \in CreditedOrders(u) |-> credited[o]]) = Given(u)
           /\ SumFunction([o \in CreditedOrders(u) |-> order[o].for]) = Billed(u)
           /\ Worth(u) \in Int /\ Given(u) \in Int /\ Billed(u) \in Int
<1>1. contributions \subseteq Contribution /\ credited \in [Order -> Nat]
      /\ order \in [Order -> OrderRow]
  BY DEF BaseInv, TypeInv, PaymentsTypeOK, DuesTypeOK
<1>2. \A c \in RowsOf(u) : c.amount \in Int /\ AmountOf[c] = c.amount
  BY <1>1 DEF RowsOf, AmountOf, Contribution
<1>3. \A o \in CreditedOrders(u) : credited[o] \in Int /\ order[o].for \in Int
                                   /\ MonthsFor[o] = order[o].for
  BY <1>1 DEF CreditedOrders, MonthsFor, OrderRow
<1>4. IsFiniteSet(RowsOf(u)) /\ IsFiniteSet(CreditedOrders(u))
  BY RowsAreFinite, CreditedAreMade
<1> DEFINE f == [c \in RowsOf(u) |-> c.amount]
<1> DEFINE g == [o \in CreditedOrders(u) |-> credited[o]]
<1> DEFINE h == [o \in CreditedOrders(u) |-> order[o].for]
<1>5. DOMAIN f = RowsOf(u) /\ \A c \in RowsOf(u) : f[c] \in Int /\ AmountOf[c] = f[c]
  BY <1>2
<1>6. DOMAIN g = CreditedOrders(u) /\ \A o \in CreditedOrders(u) : g[o] \in Int /\ credited[o] = g[o]
  BY <1>3
<1>7. DOMAIN h = CreditedOrders(u) /\ \A o \in CreditedOrders(u) : h[o] \in Int /\ MonthsFor[o] = h[o]
  BY <1>3
<1> HIDE DEF f, g, h
<1>8. SumFunction(f) = Worth(u) /\ Worth(u) \in Int
  BY <1>4, <1>5, SumOfFunction DEF Worth
<1>9. SumFunction(g) = Given(u) /\ Given(u) \in Int
  BY <1>4, <1>6, SumOfFunction DEF Given
<1>10. SumFunction(h) = Billed(u) /\ Billed(u) \in Int
  BY <1>4, <1>7, SumOfFunction DEF Billed
<1>11. QED
  BY <1>8, <1>9, <1>10 DEF f, g, h

LEMMA WholeMonths ==
    ASSUME NEW a \in Nat, NEW b \in Nat \ {0}
    PROVE  b * (a \div b) <= a /\ \A m \in Nat : m * b <= a => m <= a \div b
  OBVIOUS

\* A distribution gives the payer as many rows as it pays whole months, each
\* worth the rates of now.
LEMMA DistributionWorth ==
    ASSUME BaseInv, RowsInv, NEW u \in User, NEW paid \in Nat, NEW o \in Order,
           DistributeContribution(u, paid, o)
    PROVE  /\ Worth(u)' = Worth(u) + MonthlyTotal(u) * MonthsPaid(u, paid)
           /\ Cardinality(RowsOf(u))' = Cardinality(RowsOf(u)) + MonthsPaid(u, paid)
           /\ \A v \in User \ {u} : RowsOf(v)' = RowsOf(v)
<1> DEFINE first == FirstMonth(u)
<1> DEFINE n == MonthsPaid(u, paid)
<1> DEFINE total == MonthlyTotal(u)
<1> DEFINE row(m) == [user |-> u, month |-> m, amount |-> total, order |-> Link(u, m, o)]
<1> DEFINE I == first .. first + n - 1
<1> DEFINE new == {row(m) : m \in I}
<1>1. DuesTypeOK
  BY DEF BaseInv, TypeInv, PaymentsTypeOK
<1>2. first \in Nat /\ n \in Nat /\ total \in Nat
  BY <1>1, MonthsTyped, TotalTyped DEF Month
<1>3. contributions' = contributions \cup new
  BY <1>1, RowsAdded DEF RowsInv, DistributeContribution
<1>4. \A m \in MonthsOf(u) : m \in Nat /\ m < first
  BY <1>1, FirstIsNew DEF RowsInv
<1>5. contributions' \subseteq Contribution
  BY <1>1, DistributionTyped DEF DuesTypeOK
<1> HIDE DEF first, n, total
<1>6. \A m \in I : row(m).user = u /\ row(m).month = m /\ row(m).amount = total
  OBVIOUS
<1>7. RowsOf(u)' = RowsOf(u) \cup new
  BY <1>3, <1>6 DEF RowsOf
<1>8. \A v \in User \ {u} : RowsOf(v)' = RowsOf(v)
  BY <1>3, <1>6 DEF RowsOf
<1>9. RowsOf(u) \cap new = {}
  <2>1. \A c \in RowsOf(u) : c.month < first /\ c.month \in Nat
    BY <1>4 DEF RowsOf, MonthsOf
  <2>2. QED
    BY <1>2, <1>6, <2>1
<1>10. IsFiniteSet(new) /\ Cardinality(new) = n
  <2> DEFINE f == [m \in I |-> row(m)]
  <2>1. f \in Bijection(I, new)
    BY <1>6 DEF Bijection, Injection, Surjection, IsInjective
  <2> HIDE DEF f
  <2>2. IsFiniteSet(I) /\ Cardinality(I) = n
    BY <1>2, FS_Interval
  <2>3. QED
    BY <2>1, <2>2, FS_Bijection DEF ExistsBijection
<1>11. \A c \in new : AmountOf[c] = total /\ AmountOf[c] \in Int
  BY <1>2, <1>3, <1>5, <1>6 DEF AmountOf
<1>12. \A c \in RowsOf(u) : AmountOf[c] \in Int
  BY <1>1 DEF RowsOf, AmountOf, DuesTypeOK, Contribution
<1>13. IsFiniteSet(RowsOf(u)) /\ Cardinality(RowsOf(u)) \in Nat
  BY RowsAreFinite
<1> HIDE DEF new
<1>14. Sum(AmountOf, new) = total * n
  BY <1>2, <1>10, <1>11, SumOfConstant
<1>15. Sum(AmountOf, RowsOf(u) \cup new) = Sum(AmountOf, RowsOf(u)) + Sum(AmountOf, new)
  BY <1>9, <1>10, <1>11, <1>12, <1>13, SumUnion
<1>16. Worth(u)' = Worth(u) + total * n
  BY <1>7, <1>14, <1>15 DEF Worth
<1>17. Cardinality(RowsOf(u))' = Cardinality(RowsOf(u)) + n
  <2>1. Cardinality(RowsOf(u) \cup new)
          = Cardinality(RowsOf(u)) + Cardinality(new) - Cardinality(RowsOf(u) \cap new)
    BY <1>10, <1>13, FS_Union
  <2>2. Cardinality(RowsOf(u) \cup new) = Cardinality(RowsOf(u)) + n
    BY <1>2, <1>9, <1>10, <1>13, <2>1, FS_EmptySet
  <2>3. QED
    BY <1>7, <2>2
<1>18. QED
  BY <1>8, <1>16, <1>17 DEF total, n
\* What a distribution adds to the money that arrived from its payer, and to
\* the months they were billed for; nothing else changes either of them.
LEMMA DistributionGiven ==
    ASSUME BaseInv, RowsInv, BaseInv', RowsInv', Shape, NEW o \in Made, Distributes(o),
           NEW u, u = order[o].user, NEW p, p = order[o].amount
    PROVE  /\ Given(u)' = Given(u) + p
           /\ Billed(u)' = Billed(u) \/ Billed(u)' = Billed(u) + order[o].for
           /\ \A v \in User \ {u} : Given(v)' = Given(v) /\ Billed(v)' = Billed(v)
<1> DEFINE C(v) == CreditedOrders(v)
<1>1. /\ o \in Order /\ u \in User /\ p \in Nat /\ order[o].for \in Nat /\ DuesTypeOK
      /\ credited \in [Order -> Nat] /\ order \in [Order -> OrderRow]
  BY DEF Made, BaseInv, TypeInv, PaymentsTypeOK, DuesTypeOK, OrderRow
<1>2. DistributeContribution(u, p, o)
  BY DEF Distributes
<1>3. credited' = [credited EXCEPT ![o] = @ + p]
  BY <1>1, <1>2, DistributionTyped
<1>4. \A q \in Made : OrderFixed(q)
  BY DEF Shape
<1>5. \A q \in Order : credited[q] > 0 => q \in Made
  BY DEF BaseInv, OrdersInv, Unmade
<1>6. \A v \in User : /\ C(v)' \ {o} = C(v) \ {o}
                      /\ o \in C(v)' <=> v = u /\ credited[o] + p > 0
                      /\ o \in C(v) <=> v = u /\ credited[o] > 0
  <2>1. \A q \in Order \ {o} : credited'[q] = credited[q]
    BY <1>1, <1>3
  <2>2. credited'[o] = credited[o] + p
    BY <1>1, <1>3
  <2>3. \A q \in Order : credited[q] > 0 => order'[q].user = order[q].user
    BY <1>4, <1>5 DEF OrderFixed
  <2>4. order'[o].user = u
    BY <1>4 DEF OrderFixed
  <2>5. QED
    BY <1>1, <2>1, <2>2, <2>3, <2>4 DEF CreditedOrders
<1>7. \A v \in User : /\ IsFiniteSet(C(v)) /\ C(v) \subseteq Made
                      /\ Given(v) \in Int /\ Billed(v) \in Int
  BY CreditedAreMade, SumsMean
<1>8. \A q \in Made : MonthsFor[q] \in Int /\ MonthsFor'[q] = MonthsFor[q] /\ credited[q] \in Int
  BY <1>1, <1>4 DEF MonthsFor, Made, OrderRow, OrderFixed
<1>9. \A q \in Made \ {o} : credited'[q] = credited[q]
  BY <1>1, <1>3 DEF Made
<1>10. credited'[o] = credited[o] + p /\ credited[o] \in Nat
  BY <1>1, <1>3
\* Where no credit moves.
<1>11. ASSUME NEW v \in User, o \notin C(v), o \notin C(v)'
       PROVE  Given(v)' = Given(v) /\ Billed(v)' = Billed(v)
  <2>1. C(v)' = C(v)
    BY <1>6, <1>11
  <2>2. \A q \in C(v) : credited[q] \in Int /\ credited'[q] = credited[q]
                        /\ MonthsFor[q] \in Int /\ MonthsFor'[q] = MonthsFor[q]
    BY <1>7, <1>8, <1>9, <1>11
  <2>3. Sum(credited', C(v)) = Sum(credited, C(v)) /\ Sum(MonthsFor', C(v)) = Sum(MonthsFor, C(v))
    BY <1>7, <2>2, SumSame
  <2>4. QED
    BY <2>1, <2>3 DEF Given, Billed
<1>12. CASE o \in C(u)
  <2>1. C(u)' = C(u)
    BY <1>1, <1>6, <1>10, <1>12
  <2>2. \A q \in C(u) : credited[q] \in Int /\ MonthsFor[q] \in Int /\ MonthsFor'[q] = MonthsFor[q]
    BY <1>1, <1>7, <1>8
  <2>3. \A q \in C(u) \ {o} : credited'[q] = credited[q]
    BY <1>1, <1>7, <1>9
  <2>4. Sum(credited', C(u)) = Sum(credited, C(u)) + (credited'[o] - credited[o])
    BY <1>1, <1>7, <1>10, <1>12, <2>2, <2>3, SumChange
  <2>5. Sum(MonthsFor', C(u)) = Sum(MonthsFor, C(u))
    BY <1>1, <1>7, <2>2, SumSame
  <2>6. Given(u)' = Given(u) + p /\ Billed(u)' = Billed(u)
    BY <1>1, <1>7, <1>10, <2>1, <2>4, <2>5 DEF Given, Billed
  <2>7. QED
    BY <1>6, <1>11, <2>6
<1>13. CASE o \notin C(u) /\ o \in C(u)'
  <2>1. C(u)' = C(u) \cup {o} /\ credited[o] = 0
    BY <1>1, <1>6, <1>10, <1>13
  <2>2. \A q \in C(u) : /\ credited[q] \in Int /\ credited'[q] = credited[q]
                        /\ MonthsFor[q] \in Int /\ MonthsFor'[q] = MonthsFor[q]
    BY <1>1, <1>7, <1>8, <1>9, <1>13
  <2>3. \A q \in C(u) \cup {o} : credited'[q] \in Int /\ MonthsFor'[q] \in Int
    BY <1>1, <1>8, <1>10, <2>2
  <2>4. Sum(credited', C(u) \cup {o}) = credited'[o] + Sum(credited', C(u))
    BY <1>1, <1>7, <1>13, <2>3, SumAdd
  <2>5. Sum(MonthsFor', C(u) \cup {o}) = MonthsFor'[o] + Sum(MonthsFor', C(u))
    BY <1>1, <1>7, <1>13, <2>3, SumAdd
  <2>6. Sum(credited', C(u)) = Sum(credited, C(u)) /\ Sum(MonthsFor', C(u)) = Sum(MonthsFor, C(u))
    BY <1>1, <1>7, <2>2, SumSame
  <2>7. MonthsFor'[o] = order[o].for
    BY <1>1, <1>8 DEF MonthsFor
  <2>8. Given(u)' = Given(u) + p
    BY <1>1, <1>7, <1>10, <2>1, <2>4, <2>6 DEF Given
  <2>9. Billed(u)' = Billed(u) + order[o].for
    BY <1>1, <1>7, <2>1, <2>5, <2>6, <2>7 DEF Billed
  <2>10. QED
    BY <1>6, <1>11, <2>8, <2>9
<1>14. CASE o \notin C(u) /\ o \notin C(u)'
  <2>1. credited[o] = 0 /\ p = 0
    BY <1>1, <1>6, <1>10, <1>14
  <2>2. QED
    BY <1>1, <1>6, <1>7, <1>11, <1>14, <2>1
<1>15. QED
  BY <1>12, <1>13, <1>14

LEMMA NoMoneyGiven ==
    ASSUME BaseInv, RowsInv, Shape, NoMoney, NEW u \in User
    PROVE  Given(u)' = Given(u) /\ Billed(u)' = Billed(u) /\ RowsOf(u)' = RowsOf(u)
<1>1. \A o \in Order : credited[o] > 0 => o \in Made
  BY DEF BaseInv, OrdersInv, Unmade
<1>2. \A o \in Made : OrderFixed(o)
  BY DEF Shape
<1>3. CreditedOrders(u)' = CreditedOrders(u)
  <2>1. \A o \in Order : credited'[o] > 0 /\ order'[o].user = u <=> credited[o] > 0 /\ order[o].user = u
    BY <1>1, <1>2 DEF OrderFixed, NoMoney
  <2>2. QED
    BY <2>1 DEF CreditedOrders
<1>4. \A o \in CreditedOrders(u) : MonthsFor[o] \in Int /\ MonthsFor'[o] = MonthsFor[o]
  <2>1. order \in [Order -> OrderRow]
    BY DEF BaseInv, TypeInv, PaymentsTypeOK
  <2>2. QED
    BY <1>1, <1>2, <2>1 DEF OrderFixed, CreditedOrders, MonthsFor, OrderRow
<1>5. Sum(MonthsFor', CreditedOrders(u)) = Sum(MonthsFor, CreditedOrders(u))
  BY <1>4, CreditedAreMade, SumSame
<1>6. Given(u)' = Given(u) /\ Billed(u)' = Billed(u)
  BY <1>3, <1>5 DEF Given, Billed, NoMoney
<1>7. QED
  BY <1>6 DEF NoMoney, RowsOf

PaidFor == \A u \in User : Worth(u) <= Given(u)

LEMMA PaidForStep == BaseInv /\ RowsInv /\ PaidFor /\ [Next]_vars => PaidFor'
<1> SUFFICES ASSUME BaseInv, RowsInv, PaidFor, [Next]_vars PROVE PaidFor'
  OBVIOUS
<1>1. Shape /\ BaseInv' /\ RowsInv'
  BY NextShape, BaseStep, RowsStep
<1>2. CASE NoMoney
  <2>1. \A u \in User : Given(u)' = Given(u) /\ RowsOf(u)' = RowsOf(u)
    BY <1>1, <1>2, NoMoneyGiven
  <2>2. QED
    BY <2>1 DEF PaidFor, Worth
<1>3. ASSUME NEW o \in Made, Distributes(o) PROVE PaidFor'
  <2>0. PICK u, p : u = order[o].user /\ p = order[o].amount
    OBVIOUS
  <2>1. o \in Order /\ u \in User /\ p \in Nat /\ DuesTypeOK
    BY <2>0 DEF Made, BaseInv, TypeInv, PaymentsTypeOK, OrderRow
  <2>2. /\ Worth(u)' = Worth(u) + MonthlyTotal(u) * MonthsPaid(u, p)
        /\ \A v \in User \ {u} : RowsOf(v)' = RowsOf(v)
    BY <1>3, <2>0, <2>1, DistributionWorth DEF Distributes
  <2>3. Given(u)' = Given(u) + p /\ \A v \in User \ {u} : Given(v)' = Given(v)
    BY <1>1, <1>3, <2>0, DistributionGiven
  <2>4. MonthlyTotal(u) * MonthsPaid(u, p) \in Nat /\ MonthlyTotal(u) * MonthsPaid(u, p) <= p
    <3>1. MonthlyTotal(u) \in Nat
      BY <2>1, TotalTyped
    <3>2. CASE MonthlyTotal(u) = 0
      BY <2>1, <3>2 DEF MonthsPaid
    <3>3. CASE MonthlyTotal(u) # 0
      BY <2>1, <3>1, <3>3, WholeMonths, Division DEF MonthsPaid
    <3>4. QED
      BY <3>2, <3>3
  <2>5. Worth(u) \in Int /\ Given(u) \in Int
    BY <2>1, SumsMean
  <2>6. Worth(u)' <= Given(u)'
    BY <2>1, <2>2, <2>3, <2>4, <2>5 DEF PaidFor
  <2>7. \A v \in User \ {u} : Worth(v)' <= Given(v)'
    BY <2>2, <2>3 DEF PaidFor, Worth
  <2>8. QED
    BY <2>6, <2>7 DEF PaidFor
<1>4. QED
  BY <1>1, <1>2, <1>3 DEF Shape

LEMMA PaidForInitially == Init => PaidFor
<1> SUFFICES ASSUME Init, NEW u \in User PROVE Worth(u) <= Given(u)
  BY DEF PaidFor
<1>1. RowsOf(u) = {} /\ CreditedOrders(u) = {}
  BY DEF Init, DuesInit, RowsOf, CreditedOrders
<1>2. QED
  BY <1>1, SumEmpty DEF Worth, Given

(***************************************************************************)
(* No month is recorded that was not paid for, with no condition at all:    *)
(* whatever the rates become, however often a payment is distributed and    *)
(* whoever dies on the way, the months of a resident are worth at most what *)
(* arrived from them.                                                       *)
(***************************************************************************)
THEOREM MonthsPaidFor == Spec => []MonthsArePaidFor
<1>1. BaseInv /\ RowsInv /\ PaidFor => MonthsArePaidFor
  BY SumsMean DEF PaidFor, MonthsArePaidFor
<1>2. Init => BaseInv /\ RowsInv /\ PaidFor
  BY BaseInitially, RowsInitially, PaidForInitially
<1>3. BaseInv /\ RowsInv /\ PaidFor /\ [Next]_vars => (BaseInv /\ RowsInv /\ PaidFor)'
  BY BaseStep, RowsStep, PaidForStep
<1>4. QED
  BY <1>1, <1>2, <1>3, PTL DEF Spec
-----------------------------------------------------------------------------
(* The months a resident was billed for *)

\* No order for dues costs more at the rates of now than it was billed: neither a
\* rate that rose nor the rounding made its months dearer than the bill.
RatesKept == \A o \in Made :
    /\ order[o].for * MonthlyTotal(order[o].user) <= order[o].amount
    /\ order[o].for > 0 => MonthlyTotal(order[o].user) > 0

GivenBack == \A u \in User : Billed(u) <= Cardinality(RowsOf(u))

LEMMA GivenBackStep == BaseInv /\ RowsInv /\ GivenBack /\ RatesKept /\ [Next]_vars => GivenBack'
<1> SUFFICES ASSUME BaseInv, RowsInv, GivenBack, RatesKept, [Next]_vars PROVE GivenBack'
  OBVIOUS
<1>1. Shape /\ BaseInv' /\ RowsInv'
  BY NextShape, BaseStep, RowsStep
<1>2. CASE NoMoney
  <2>1. \A u \in User : Billed(u)' = Billed(u) /\ RowsOf(u)' = RowsOf(u)
    BY <1>1, <1>2, NoMoneyGiven
  <2>2. QED
    BY <2>1 DEF GivenBack
<1>3. ASSUME NEW o \in Made, Distributes(o) PROVE GivenBack'
  <2>0. PICK u, p, m : u = order[o].user /\ p = order[o].amount /\ m = order[o].for
    OBVIOUS
  <2>1. o \in Order /\ u \in User /\ p \in Nat /\ m \in Nat /\ DuesTypeOK
    BY <2>0 DEF Made, BaseInv, TypeInv, PaymentsTypeOK, OrderRow
  <2>2. /\ Cardinality(RowsOf(u))' = Cardinality(RowsOf(u)) + MonthsPaid(u, p)
        /\ \A v \in User \ {u} : RowsOf(v)' = RowsOf(v)
    BY <1>3, <2>0, <2>1, DistributionWorth DEF Distributes
  <2>3. /\ Billed(u)' = Billed(u) \/ Billed(u)' = Billed(u) + m
        /\ \A v \in User \ {u} : Billed(v)' = Billed(v)
    BY <1>1, <1>3, <2>0, DistributionGiven
  <2>4. MonthsPaid(u, p) \in Nat /\ m <= MonthsPaid(u, p)
    <3>1. MonthlyTotal(u) \in Nat /\ MonthsPaid(u, p) \in Nat
      BY <2>1, TotalTyped, MonthsTyped
    <3>2. m * MonthlyTotal(u) <= p /\ (m > 0 => MonthlyTotal(u) > 0)
      BY <2>0 DEF RatesKept
    <3>3. CASE MonthlyTotal(u) = 0
      BY <2>1, <3>1, <3>2, <3>3
    <3>4. CASE MonthlyTotal(u) # 0
      BY <2>1, <3>1, <3>2, <3>4, WholeMonths DEF MonthsPaid
    <3>5. QED
      BY <3>3, <3>4
  <2>5. Billed(u) \in Int /\ Cardinality(RowsOf(u)) \in Nat
    BY <2>1, SumsMean, RowsAreFinite
  <2>6. Billed(u)' <= Cardinality(RowsOf(u))'
    BY <2>1, <2>2, <2>3, <2>4, <2>5 DEF GivenBack
  <2>7. \A v \in User \ {u} : Billed(v)' <= Cardinality(RowsOf(v))'
    BY <2>2, <2>3 DEF GivenBack
  <2>8. QED
    BY <2>6, <2>7 DEF GivenBack
<1>4. QED
  BY <1>1, <1>2, <1>3 DEF Shape

LEMMA GivenBackInitially == Init => GivenBack
<1> SUFFICES ASSUME Init, NEW u \in User PROVE Billed(u) <= Cardinality(RowsOf(u))
  BY DEF GivenBack
<1>1. RowsOf(u) = {} /\ CreditedOrders(u) = {}
  BY DEF Init, DuesInit, RowsOf, CreditedOrders
<1>2. QED
  BY <1>1, SumEmpty, FS_EmptySet DEF Billed

(***************************************************************************)
(* While the rounded bill of every order covers its months at the rates of  *)
(* the day (none rises above it, is taken back, or was rounded down), a     *)
(* resident gets at least the months they were billed for, although the     *)
(* rate is read again when the payment is distributed.                      *)
(***************************************************************************)
THEOREM MonthsGiven == Spec /\ []RatesKept => []MonthsAreGiven
<1>1. BaseInv /\ RowsInv /\ GivenBack => MonthsAreGiven
  <2> SUFFICES ASSUME BaseInv, RowsInv, GivenBack, NEW u \in User
               PROVE  Cardinality(RowsOf(u))
                        >= SumFunction([o \in CreditedOrders(u) |-> order[o].for])
    BY DEF MonthsAreGiven
  <2>1. SumFunction([o \in CreditedOrders(u) |-> order[o].for]) = Billed(u)
        /\ Billed(u) \in Int /\ Cardinality(RowsOf(u)) \in Nat
    BY SumsMean, RowsAreFinite
  <2>2. QED
    BY <2>1 DEF GivenBack
<1>2. Init => BaseInv /\ RowsInv /\ GivenBack
  BY BaseInitially, RowsInitially, GivenBackInitially
<1>3. BaseInv /\ RowsInv /\ GivenBack /\ RatesKept /\ [Next]_vars
        => (BaseInv /\ RowsInv /\ GivenBack)'
  BY BaseStep, RowsStep, GivenBackStep
<1>4. QED
  BY <1>1, <1>2, <1>3, PTL DEF Spec

-----------------------------------------------------------------------------
(* The resident's page *)

\* A poll of the page is a notification of what the gateway says by now.
LEMMA PollIsNotification ==
    ASSUME PaymentsTypeOK, NEW o \in Order, NEW st, SyncUpdates(o, st)
    PROVE  gateway[o] \in GatewayStatus /\ Notification(o, gateway[o])
<1>1. gateway[o] \in GatewayStatus
  BY DEF PaymentsTypeOK
<1>2. gateway[o] \in Notified(o) /\ ~Ignores(o)
  BY DEF SyncUpdates, Notified, Ignores
<1>3. QED
  BY <1>1, <1>2 DEF SyncUpdates, Notification

LEMMA PageStep == PaymentsTypeOK /\ [PageNext]_allVars => [Next]_vars
<1> SUFFICES ASSUME PaymentsTypeOK, [PageNext]_allVars PROVE [Next]_vars
  OBVIOUS
<1>1. ASSUME NEW s \in Slot, ClickPay(s) \/ Answered(s) \/ NotAnswered(s) \/ OthersPay(s)
      PROVE  Next
  <2>1. Visitor \in User
    BY PageAssumption
  <2>2. Request(s) \/ Handle(s) \/ Die(s)
    BY <1>1, <2>1 DEF ClickPay, Answered, NotAnswered, OthersPay, AnswersWithToken, Request, Handle
  <2>3. QED
    BY <2>2 DEF Next
<1>2. ASSUME NEW o \in Order, Poll(o) \/ SyncPending(o) PROVE [Next]_vars
  <2>1. UNCHANGED vars \/ \E st : SyncUpdates(o, st)
    BY <1>2 DEF Poll, SyncPending
  <2>2. QED
    BY <2>1, PollIsNotification DEF Next
<1>3. ASSUME NEW o \in Order, Webhook(o) \/ World(o) PROVE Next
  BY <1>3 DEF Webhook, World, Next
<1>4. CASE Visit \/ SnapCallback \/ UNCHANGED allVars
  BY <1>4 DEF Visit, SnapCallback, allVars, vars
<1>5. CASE Environment
  BY <1>5 DEF Next
<1>6. QED
  BY <1>1, <1>2, <1>3, <1>4, <1>5 DEF PageNext, Page

(***************************************************************************)
(* Whatever residents do on their page, click, close, reload or leave open  *)
(* to poll, the payments behind it only take the steps of the payment       *)
(* service: all that is proved of Payments holds behind the page.           *)
(***************************************************************************)
THEOREM PageUsesPayments == PageSpec => Spec
<1>1. PageInit => Init /\ BaseInv
  BY BaseInitially DEF PageInit
<1>2. BaseInv /\ [PageNext]_allVars => [Next]_vars
  BY PageStep DEF BaseInv, TypeInv
<1>3. BaseInv /\ [PageNext]_allVars => BaseInv'
  BY <1>2, BaseStep
<1>4. QED
  BY <1>1, <1>2, <1>3, PTL DEF PageSpec, Spec

\* Who was congratulated has paid.
Told == congratulated \subseteq Order /\ PopupIsTrue

\* What has arrived of an order stays.
LEMMA CreditStays ==
    ASSUME BaseInv, Shape, MoneyInv', NEW o \in Order, credited[o] > 0
    PROVE  credited'[o] = order'[o].amount /\ credited'[o] > 0
<1>1. credited \in [Order -> Nat]
  BY DEF BaseInv, TypeInv, PaymentsTypeOK, DuesTypeOK
<1>2. credited'[o] > 0
  <2>1. CASE NoMoney
    BY <2>1 DEF NoMoney
  <2>2. ASSUME NEW p \in Made, Distributes(p) PROVE credited'[o] > 0
    <3>1. p \in Order /\ order[p].user \in User /\ order[p].amount \in Nat /\ DuesTypeOK
      BY DEF Made, BaseInv, TypeInv, PaymentsTypeOK, OrderRow
    <3>2. credited' = [credited EXCEPT ![p] = @ + order[p].amount]
      BY <2>2, <3>1, DistributionTyped DEF Distributes
    <3>3. QED
      BY <1>1, <3>1, <3>2
  <2>3. QED
    BY <2>1, <2>2 DEF Shape
<1>3. credited'[o] # 0
  BY <1>2
<1>4. QED
  BY <1>2, <1>3 DEF MoneyInv, Once

LEMMA ToldStep ==
    ASSUME BaseInv, Shape, BaseInv', MoneyInv', Priced', Told, [PageNext]_allVars
    PROVE  Told'
<1>1. ASSUME NEW o \in Order, SyncUpdates(o, "PAID")
      PROVE  credited'[o] = order'[o].amount /\ credited'[o] > 0
  <2>1. order'[o].status = "PAID"
    BY <1>1 DEF SyncUpdates, Book, SetStatus, BaseInv, TypeInv, PaymentsTypeOK, OrderRow
  <2>2. credited'[o] = order'[o].amount /\ order'[o].amount > 0
    BY <2>1 DEF MoneyInv, PaidIsCredited, Priced, Made, Exists
  <2>3. QED
    BY <2>2
<1>2. \/ congratulated' = congratulated
      \/ \E o \in Order : SyncUpdates(o, "PAID") /\ congratulated' = congratulated \cup {o}
  BY DEF PageNext, Page, Visit, SnapCallback, ClickPay, Answered, NotAnswered, OthersPay, Poll,
     SyncPending, Webhook, World, pageVars, allVars
<1>3. \A o \in congratulated : o \in Order /\ credited'[o] = order'[o].amount /\ credited'[o] > 0
  BY CreditStays DEF Told, PopupIsTrue
<1>4. QED
  BY <1>1, <1>2, <1>3 DEF Told, PopupIsTrue

(***************************************************************************)
(* While no order is below a month's rates, the success popup is shown only *)
(* for orders whose money is in the wallets, and has been ever since.       *)
(***************************************************************************)
THEOREM PopupTellsTheTruth == PageSpec /\ []Covered => []PopupIsTrue
<1> DEFINE Inv == BaseInv /\ RowsInv /\ MoneyInv /\ Priced
<1>1. PageInit => Inv /\ Told
  <2>1. PageInit => Told
    BY DEF PageInit, Told, PopupIsTrue
  <2>2. QED
    BY <2>1, BaseInitially, RowsInitially, MoneyInitially, PricedInitially DEF PageInit
<1>2. Inv /\ Told /\ Covered /\ [PageNext]_allVars => Inv' /\ Told'
  <2> SUFFICES ASSUME Inv, Told, Covered, [PageNext]_allVars PROVE Inv' /\ Told'
    OBVIOUS
  <2>1. [Next]_vars
    BY PageStep DEF BaseInv, TypeInv
  <2>2. Inv' /\ Shape
    BY <2>1, BaseStep, RowsStep, MoneyStep, PricedStep, NextShape
  <2>3. QED
    BY <2>2, ToldStep
<1>3. Told => PopupIsTrue
  BY DEF Told
<1> HIDE DEF Inv
<1>4. QED
  BY <1>1, <1>2, <1>3, PTL DEF PageSpec

-----------------------------------------------------------------------------
(* Time and arrears *)

\* Time goes on, and nobody has paid up to a month before they were there.
Clock ==
    /\ month >= StartMonth
    /\ \A u \in User : paidUntil[u] # Never => Joined[u] <= paidUntil[u]

-----------------------------------------------------------------------------
(* Years *)

LEMMA Quotient ==
    ASSUME NEW n \in Nat, NEW l \in Nat \ {0}
    PROVE  /\ n \div l \in Nat
           /\ (n \div l) * l <= n /\ n < (n \div l) * l + l
  OBVIOUS

LEMMA Times ==
    ASSUME NEW a \in Nat, NEW b \in Nat, NEW l \in Nat
    PROVE  /\ a * l \in Nat /\ (a + 1) * l = a * l + l
           /\ a <= b => a * l <= b * l
  OBVIOUS

\* A month lies in its year.
LEMMA YearOfMonth ==
    ASSUME NEW m \in Month
    PROVE  Year(m) \in Nat /\ m \in MonthsOfYear(Year(m))
<1>1. m - 1 \in Nat /\ YearLength \in Nat \ {0}
  BY YearAssumption DEF Month
<1>2. PICK y : y = Year(m)
  OBVIOUS
<1>3. y \in Nat /\ y * YearLength <= m - 1 /\ m - 1 < y * YearLength + YearLength
  BY <1>1, <1>2, Quotient DEF Year
<1>4. y * YearLength \in Nat /\ (y + 1) * YearLength = y * YearLength + YearLength
  BY <1>1, <1>3, Times
<1>5. m \in MonthsOfYear(y)
  BY <1>1, <1>3, <1>4 DEF MonthsOfYear, Month
<1>6. QED
  BY <1>2, <1>3, <1>5

LEMMA MonthsOfYearAre ==
    ASSUME NEW y \in Nat
    PROVE  /\ MonthsOfYear(y) \subseteq Month
           /\ \A k, m \in MonthsOfYear(y) : m - k < YearLength
<1>1. y * YearLength \in Nat /\ (y + 1) * YearLength = y * YearLength + YearLength
      /\ YearLength \in Nat
  BY YearAssumption, Times
<1>2. QED
  BY <1>1 DEF MonthsOfYear, Month

\* A month of a later year comes later.
LEMMA LaterYear ==
    ASSUME NEW y \in Nat, NEW m \in Month, Year(m) > y
    PROVE  \A k \in MonthsOfYear(y) : k < m
<1>1. PICK z : z = Year(m)
  OBVIOUS
<1>2. z \in Nat /\ m \in MonthsOfYear(z) /\ y + 1 <= z /\ YearLength \in Nat
  BY <1>1, YearOfMonth, YearAssumption
<1>3. (y + 1) * YearLength <= z * YearLength /\ (y + 1) * YearLength \in Nat
      /\ z * YearLength \in Nat
  BY <1>2, Times
<1>4. y * YearLength \in Nat
  BY <1>2, Times
<1>5. QED
  BY <1>2, <1>3, <1>4 DEF MonthsOfYear, Month

LEMMA YearsFollow ==
    ASSUME NEW m \in Month, NEW n \in Month, m <= n
    PROVE  Year(m) <= Year(n)
<1>1. Year(m) \in Nat /\ Year(n) \in Nat /\ n \in MonthsOfYear(Year(n))
  BY YearOfMonth
<1>2. Year(m) > Year(n) => n < m
  BY <1>1, LaterYear
<1>3. QED
  BY <1>1, <1>2 DEF Month

-----------------------------------------------------------------------------
(* Bills and cells *)

LEMMA BillTyped ==
    ASSUME DuesTypeOK, Clock, NEW u \in User
    PROVE  /\ NextBillMonth(u) \in Month /\ Joined[u] \in Month /\ month \in Month
           /\ Joined[u] <= NextBillMonth(u) /\ Joined[u] <= month
           /\ UnpaidMonths(u) =
                 IF month < NextBillMonth(u) THEN 0 ELSE month - NextBillMonth(u) + 1
           /\ BilledMonths(u) = NextBillMonth(u) .. month
<1>1. Joined[u] \in Month /\ Joined[u] <= StartMonth /\ StartMonth \in Month /\ month \in Month
  BY DuesAssumption DEF DuesTypeOK
<1>2. NextBillMonth(u) \in Month /\ Joined[u] <= NextBillMonth(u)
  BY <1>1 DEF DuesTypeOK, Clock, NextBillMonth, Month, Never
<1>3. Joined[u] <= month
  BY <1>1 DEF Clock, Month
<1>4. BilledMonths(u) = NextBillMonth(u) .. month
  BY <1>1, <1>2 DEF BilledMonths, Month
<1>5. QED
  BY <1>1, <1>2, <1>3, <1>4 DEF UnpaidMonths

\* Server and client take the same months for paid, and the bill asks for the others.
LEMMA Arrears ==
    ASSUME DuesTypeOK, Solid, Clock, NEW u \in User, NEW m \in Month
    PROVE  /\ isPaid(u, m) <=> isPaidForMonth(u, m)
           /\ Joined[u] <= m /\ ~isPaidForMonth(u, m) <=> NextBillMonth(u) <= m
<1>1. Joined[u] \in Month /\ paidUntil[u] \in Nat
  BY DuesAssumption DEF DuesTypeOK, Month, Never
<1>2. HasPaid(u, m) => paidUntil[u] # Never /\ m <= paidUntil[u]
  <2>1. HasPaid(u, m) => m \in MonthsOf(u)
    BY DEF HasPaid, MonthsOf
  <2>2. QED
    BY <1>1, <2>1 DEF Solid, Month
<1>3. isPaid(u, m) <=> paidUntil[u] # Never /\ m <= paidUntil[u]
  BY <1>1, <1>2 DEF isPaid, Month
<1>4. isPaidForMonth(u, m) <=> paidUntil[u] # Never /\ m <= paidUntil[u]
  BY <1>2 DEF isPaidForMonth
<1>5. Joined[u] <= m /\ ~isPaidForMonth(u, m) <=> NextBillMonth(u) <= m
  BY <1>1, <1>4 DEF Clock, NextBillMonth, Month
<1>6. QED
  BY <1>3, <1>4, <1>5

LEMMA CellOf ==
    ASSUME DuesTypeOK, Solid, Clock, NEW u \in User, NEW m \in Month
    PROVE  /\ getChildMonthStatus(u, m) = "Belum terdaftar" <=> m < Joined[u]
           /\ getChildMonthStatus(u, m) = "Lunas" <=> Joined[u] <= m /\ m < NextBillMonth(u)
           /\ getChildMonthStatus(u, m) = "Menunggak" <=> NextBillMonth(u) <= m /\ m <= month
<1>1. /\ Joined[u] \in Nat /\ m \in Nat /\ NextBillMonth(u) \in Nat /\ month \in Nat
      /\ Joined[u] <= NextBillMonth(u)
  BY BillTyped DEF Month
<1>2. memberExistedInMonth(u, m) <=> Joined[u] <= m
  BY <1>1 DEF memberExistedInMonth
<1>3. Joined[u] <= m /\ ~isPaidForMonth(u, m) <=> NextBillMonth(u) <= m
  BY Arrears
<1>4. QED
  BY <1>1, <1>2, <1>3 DEF getChildMonthStatus

-----------------------------------------------------------------------------
(* The recap of an RW and the pages of its RTs *)

\* The residents of g who are there in month m have paid it, or are behind.
LEMMA PastCells ==
    ASSUME DuesTypeOK, Solid, Clock, NEW g \in Group, NEW m \in Month, m <= month
    PROVE  LET E == eligibleResidents(g, m)
               P == {u \in E : isPaid(u, m)}
           IN  {getChildMonthStatus(u, m) : u \in getDuesProgress(g)} \ {"Belum terdaftar"}
                  = {IF u \in P THEN "Lunas" ELSE "Menunggak" : u \in E}
<1> DEFINE E == eligibleResidents(g, m)
<1> DEFINE P == {u \in E : isPaid(u, m)}
<1> DEFINE R == getDuesProgress(g)
<1>1. R \subseteq User /\ E \subseteq R
  BY DEF getDuesProgress, eligibleResidents, Residents
<1>2. ASSUME NEW u \in R
      PROVE  /\ u \in E <=> getChildMonthStatus(u, m) # "Belum terdaftar"
             /\ u \in E => getChildMonthStatus(u, m) = IF u \in P THEN "Lunas" ELSE "Menunggak"
  <2>1. /\ Joined[u] \in Nat /\ m \in Nat /\ NextBillMonth(u) \in Nat /\ month \in Nat
    BY <1>1, BillTyped DEF Month
  <2>2. u \in E <=> Joined[u] <= m
    BY <1>2 DEF getDuesProgress, eligibleResidents
  <2>3. /\ isPaid(u, m) <=> isPaidForMonth(u, m)
        /\ Joined[u] <= m /\ ~isPaidForMonth(u, m) <=> NextBillMonth(u) <= m
    BY <1>1, Arrears
  <2>4. /\ getChildMonthStatus(u, m) = "Belum terdaftar" <=> m < Joined[u]
        /\ getChildMonthStatus(u, m) = "Lunas" <=> Joined[u] <= m /\ m < NextBillMonth(u)
        /\ getChildMonthStatus(u, m) = "Menunggak" <=> NextBillMonth(u) <= m /\ m <= month
    BY <1>1, CellOf
  <2>5. u \in E => (u \in P <=> m < NextBillMonth(u))
    BY <2>1, <2>2, <2>3
  <2> HIDE DEF E, P
  <2> DEFINE cell == getChildMonthStatus(u, m)
  <2> HIDE DEF cell
  <2>6. CASE u \in E
    <3>1. Joined[u] <= m
      BY <2>2, <2>6
    <3>2. ~(m < Joined[u])
      BY <2>1, <3>1
    <3>2a. cell # "Belum terdaftar"
      BY <2>4, <3>2 DEF cell
    <3>3. CASE u \in P
      <4>1. cell = "Lunas"
        BY <2>1, <2>4, <2>5, <2>6, <3>1, <3>3 DEF cell
      <4>2. QED
        BY <2>6, <3>2a, <3>3, <4>1 DEF cell
    <3>4. CASE u \notin P
      <4>1. cell = "Menunggak"
        <5>1. NextBillMonth(u) <= m
          BY <2>1, <2>5, <2>6, <3>4
        <5>2. QED
          BY <2>4, <5>1 DEF cell
      <4>2. QED
        BY <2>6, <3>2a, <3>4, <4>1 DEF cell
    <3>5. QED
      BY <3>3, <3>4
  <2>7. CASE u \notin E
    <3>1. m < Joined[u]
      BY <2>1, <2>2, <2>7
    <3>2. cell = "Belum terdaftar"
      BY <2>4, <3>1 DEF cell
    <3>3. QED
      BY <2>7, <3>2 DEF cell
  <2>8. QED
    BY <2>6, <2>7
<1> HIDE DEF E, P, R
<1>3. {getChildMonthStatus(u, m) : u \in R} \ {"Belum terdaftar"}
        = {IF u \in P THEN "Lunas" ELSE "Menunggak" : u \in E}
  BY <1>1, <1>2
<1>4. QED
  BY <1>3 DEF E, P, R

\* What P, those who have paid, make of E, those who should.
Summary(E, P) ==
    CASE E = {} -> "NOT_REGISTERED"
      [] E # {} /\ P = {} -> "UNPAID"
      [] E # {} /\ P = E -> "PAID"
      [] OTHER -> "PARTIAL"

LEMMA CollectiveOf ==
    ASSUME NEW E, NEW P \in SUBSET E
    PROVE  Collective({IF u \in P THEN "Lunas" ELSE "Menunggak" : u \in E}) = Summary(E, P)
<1> DEFINE cells == {IF u \in P THEN "Lunas" ELSE "Menunggak" : u \in E}
<1>1. "Lunas" \in cells <=> P # {}
  OBVIOUS
<1>2. "Menunggak" \in cells <=> P # E
  OBVIOUS
<1>3. cells \subseteq {"Lunas", "Menunggak"}
  OBVIOUS
<1> HIDE DEF cells
<1>4. Collective(cells) = Summary(E, P)
  <2>1. CASE E = {}
    <3>1. cells = {}
      BY <1>1, <1>2, <1>3, <2>1
    <3>2. QED
      BY <2>1, <3>1 DEF Collective, Summary
  <2>2. CASE E # {} /\ P = {}
    <3>1. cells = {"Menunggak"}
      BY <1>1, <1>2, <1>3, <2>2
    <3>2. QED
      BY <2>2, <3>1 DEF Collective, Summary
  <2>3. CASE E # {} /\ P = E
    <3>1. cells = {"Lunas"}
      BY <1>1, <1>2, <1>3, <2>3
    <3>2. QED
      BY <2>3, <3>1 DEF Collective, Summary
  <2>4. CASE P # {} /\ P # E
    <3>1. "Lunas" \in cells /\ "Menunggak" \in cells /\ E # {}
      BY <1>1, <1>2, <2>4
    <3>2. cells # {} /\ cells # {"Lunas"} /\ cells # {"Menunggak"}
      BY <3>1
    <3>3. QED
      BY <2>4, <3>1, <3>2 DEF Collective, Summary
  <2>5. QED
    BY <2>1, <2>2, <2>3, <2>4
<1>5. QED
  BY <1>4 DEF cells

\* A cell of the server's recap sums up the cells of the RT's page.
LEMMA CellsAgree ==
    ASSUME DuesTypeOK, Solid, Clock, NEW g \in Group, NEW m \in Month, m <= month
    PROVE  monthlyStatus(g, m) =
              Collective({getChildMonthStatus(u, m) : u \in getDuesProgress(g)} \ {"Belum terdaftar"})
<1> DEFINE E == eligibleResidents(g, m)
<1> DEFINE P == {u \in E : isPaid(u, m)}
<1>1. {getChildMonthStatus(u, m) : u \in getDuesProgress(g)} \ {"Belum terdaftar"}
        = {IF u \in P THEN "Lunas" ELSE "Menunggak" : u \in E}
  BY PastCells
<1>2. ~(m > month)
  BY DEF Month, DuesTypeOK
<1>3. monthlyStatus(g, m) = Summary(E, P)
  BY <1>2 DEF monthlyStatus, Summary
<1>4. P \subseteq E
  OBVIOUS
<1> HIDE DEF E, P
<1>5. Collective({IF u \in P THEN "Lunas" ELSE "Menunggak" : u \in E}) = monthlyStatus(g, m)
  BY <1>3, <1>4, CollectiveOf
<1>6. QED
  BY <1>1, <1>5

\* A cell that is not paid in full: a resident who was there and has not paid.
LEMMA CellIsOpen ==
    ASSUME DuesTypeOK, NEW g \in Group, NEW m \in Month
    PROVE  monthlyStatus(g, m) \in {"UNPAID", "PARTIAL"}
              <=> m <= month /\ \E u \in eligibleResidents(g, m) : ~isPaid(u, m)
<1> DEFINE E == eligibleResidents(g, m)
<1> DEFINE P == {u \in E : isPaid(u, m)}
<1>1. (\E u \in E : ~isPaid(u, m)) <=> P # E
  OBVIOUS
<1>2. P \subseteq E /\ (m > month <=> ~(m <= month))
  BY DEF Month, DuesTypeOK
<1>3. monthlyStatus(g, m) = CASE m > month -> "FUTURE"
                              [] m <= month /\ E = {} -> "NOT_REGISTERED"
                              [] m <= month /\ E # {} /\ P = {} -> "UNPAID"
                              [] m <= month /\ E # {} /\ P = E -> "PAID"
                              [] OTHER -> "PARTIAL"
  BY DEF monthlyStatus
<1> HIDE DEF E, P
<1>4. QED
  BY <1>1, <1>2, <1>3 DEF E

\* A resident is listed as behind when the bill asks for a month of the year.
LEMMA BehindMeansBilled ==
    ASSUME DuesTypeOK, Solid, Clock, NEW u \in User, NEW y \in Nat
    PROVE  isFullyPaid(u, y) <=> BilledMonths(u) \cap MonthsOfYear(y) = {}
<1>1. /\ NextBillMonth(u) \in Nat /\ month \in Nat /\ Joined[u] \in Nat
      /\ BilledMonths(u) = NextBillMonth(u) .. month
  BY BillTyped DEF Month
<1>2. MonthsOfYear(y) \subseteq Month
  BY MonthsOfYearAre
<1>3. ASSUME NEW m \in MonthsOfYear(y)
      PROVE  m \in BilledMonths(u)
                <=> ~(m <= month /\ memberExistedInMonth(u, m) => isPaidForMonth(u, m))
  <2>1. m \in Month /\ m \in Nat
    BY <1>2 DEF Month
  <2>2. memberExistedInMonth(u, m) <=> Joined[u] <= m
    BY <1>1, <2>1 DEF memberExistedInMonth
  <2>3. Joined[u] <= m /\ ~isPaidForMonth(u, m) <=> NextBillMonth(u) <= m
    BY <2>1, Arrears
  <2>4. m \in BilledMonths(u) <=> NextBillMonth(u) <= m /\ m <= month
    BY <1>1, <2>1
  <2>5. QED
    BY <2>2, <2>3, <2>4
<1>4. QED
  BY <1>3 DEF isFullyPaid

LEMMA GroupIsPaid ==
    ASSUME DuesTypeOK, Solid, Clock, NEW g \in Group, NEW y \in Nat
    PROVE  isGroupFullyPaid(g, y) <=> \A u \in getDuesProgress(g) : isFullyPaid(u, y)
<1>1. MonthsOfYear(y) \subseteq Month
  BY MonthsOfYearAre
<1>2. ASSUME NEW m \in MonthsOfYear(y)
      PROVE  monthlyStatus(g, m) \notin {"UNPAID", "PARTIAL"}
               <=> \A u \in getDuesProgress(g) :
                      m <= month /\ memberExistedInMonth(u, m) => isPaidForMonth(u, m)
  <2>1. m \in Month
    BY <1>1
  <2>2. monthlyStatus(g, m) \in {"UNPAID", "PARTIAL"}
          <=> m <= month /\ \E u \in eligibleResidents(g, m) : ~isPaid(u, m)
    BY <2>1, CellIsOpen
  <2>3. \A u \in getDuesProgress(g) :
          /\ u \in eligibleResidents(g, m) <=> memberExistedInMonth(u, m)
          /\ isPaid(u, m) <=> isPaidForMonth(u, m)
    <3>1. ASSUME NEW u \in getDuesProgress(g)
          PROVE  /\ u \in eligibleResidents(g, m) <=> memberExistedInMonth(u, m)
                 /\ isPaid(u, m) <=> isPaidForMonth(u, m)
      <4>1. u \in User /\ u \in Residents /\ Home(u) = g
        BY DEF getDuesProgress, Residents
      <4>2. Joined[u] \in Nat /\ m \in Nat
        BY <2>1, <4>1, BillTyped DEF Month
      <4>3. u \in eligibleResidents(g, m) <=> Joined[u] <= m
        BY <4>1 DEF eligibleResidents
      <4>4. memberExistedInMonth(u, m) <=> Joined[u] <= m
        BY <4>2 DEF memberExistedInMonth
      <4>5. QED
        BY <2>1, <4>1, <4>3, <4>4, Arrears
    <3>2. QED
      BY <3>1
  <2>4. eligibleResidents(g, m) \subseteq getDuesProgress(g)
    BY DEF eligibleResidents, getDuesProgress
  <2>5. QED
    BY <2>2, <2>3, <2>4
<1>3. QED
  BY <1>2 DEF isGroupFullyPaid, isFullyPaid

LEMMA RecapHolds ==
    ASSUME DuesTypeOK, Solid, Clock, NEW rw \in Group, NEW y \in Nat
    PROVE  RecapAgrees(rw, y)
<1> DEFINE recap == getParentDuesProgress(rw, y)
<1>1. DOMAIN recap \subseteq Group
  BY DEF getParentDuesProgress, findParentWithChildrenProgress
<1>2. SUFFICES ASSUME NEW g \in DOMAIN recap
               PROVE  LET rows == GroupDuesProgressPage(g, y, "all").rows
                          behind == {u \in DOMAIN rows : BilledMonths(u) \cap MonthsOfYear(y) # {}}
                      IN  /\ DOMAIN GroupDuesProgressPage(g, y, "belum").rows = behind
                          /\ recap[g].isFullyPaid <=> behind = {}
                          /\ ProgressOfRW(rw, y, "all")[g] = "Ada Tunggakan"
                                  <=> \E u \in DOMAIN ProgressOfRT(g, y, "belum") : TRUE
                          /\ \A m \in MonthsOfYear(y) : m <= month =>
                                  recap[g].monthlyStatus[m]
                                      = Collective({rows[u][m] : u \in DOMAIN rows}
                                                     \ {"Belum terdaftar"})
  BY DEF RecapAgrees
<1> DEFINE rows == GroupDuesProgressPage(g, y, "all").rows
<1> DEFINE R == getDuesProgress(g)
<1> DEFINE behind == {u \in R : ~isFullyPaid(u, y)}
<1>3. g \in Group /\ R \subseteq User
  BY <1>1 DEF getDuesProgress, Residents
<1>4. /\ recap[g].hasDuesRule = hasDuesRule(g)
      /\ recap[g].isFullyPaid = isGroupFullyPaid(g, y)
      /\ \A m \in MonthsOfYear(y) : recap[g].monthlyStatus[m] = monthlyStatus(g, m)
  BY DEF getParentDuesProgress
<1>5. DOMAIN rows = R /\ \A u \in R, m \in MonthsOfYear(y) : rows[u][m] = getChildMonthStatus(u, m)
  <2>1. filteredMembers(g, y, "all") = R
    BY DEF filteredMembers
  <2>2. rows = [u \in R |-> MemberRow(u, y)]
    BY <2>1 DEF GroupDuesProgressPage
  <2>3. QED
    BY <2>2 DEF MemberRow
<1>6. filteredMembers(g, y, "belum") = behind
  BY DEF filteredMembers
<1>7. {u \in DOMAIN rows : BilledMonths(u) \cap MonthsOfYear(y) # {}} = behind
  BY <1>3, <1>5, BehindMeansBilled
<1>8. DOMAIN GroupDuesProgressPage(g, y, "belum").rows = behind
  BY <1>6 DEF GroupDuesProgressPage
<1>9. recap[g].isFullyPaid <=> behind = {}
  BY <1>3, <1>4, GroupIsPaid
<1>10. ProgressOfRW(rw, y, "all")[g] = "Ada Tunggakan"
         <=> \E u \in DOMAIN ProgressOfRT(g, y, "belum") : TRUE
  <2>1. filteredGroups(recap, "all") = DOMAIN recap
    BY DEF filteredGroups
  <2>2. ProgressOfRW(rw, y, "all")[g] = ParentRow(recap[g])
    BY <2>1 DEF ProgressOfRW
  <2>3. ParentRow(recap[g]) = "Ada Tunggakan" <=> hasDuesRule(g) /\ behind # {}
    BY <1>4, <1>9 DEF ParentRow
  <2>4. DOMAIN ProgressOfRT(g, y, "belum") = IF hasDuesRule(g) THEN behind ELSE {}
    BY <1>6 DEF ProgressOfRT
  <2> HIDE DEF recap, behind
  <2>5. QED
    BY <2>2, <2>3, <2>4
<1>11. ASSUME NEW m \in MonthsOfYear(y), m <= month
       PROVE  recap[g].monthlyStatus[m]
                 = Collective({rows[u][m] : u \in DOMAIN rows} \ {"Belum terdaftar"})
  <2>1. m \in Month
    BY MonthsOfYearAre
  <2>2. {rows[u][m] : u \in DOMAIN rows} = {getChildMonthStatus(u, m) : u \in R}
    BY <1>5
  <2>3. QED
    BY <1>3, <1>4, <1>11, <2>1, <2>2, CellsAgree
<1>12. QED
  BY <1>7, <1>8, <1>9, <1>10, <1>11

-----------------------------------------------------------------------------
(* What a resident is told *)

LEMMA BillHolds ==
    ASSUME DuesTypeOK, Solid, Clock, NEW u \in User
    PROVE  BillIsShown(u)
<1> DEFINE bill == getMyBill(u)
<1> DEFINE next == NextBillMonth(u)
<1> DEFINE due == UnpaidMonths(u)
<1> DEFINE year == Year(next)
<1>1. /\ next \in Nat /\ next \in Month /\ month \in Nat /\ month \in Month /\ Joined[u] \in Nat
      /\ due = IF month < next THEN 0 ELSE month - next + 1
      /\ BilledMonths(u) = next .. month
  BY BillTyped DEF Month
<1>2. /\ bill.totalAmount = MonthlyTotal(u) * due /\ bill.baseMonthlyAmount = MonthlyTotal(u)
      /\ bill.unpaidMonthsCount = due /\ bill.nextBill = next
  BY DEF getMyBill
<1>3. MonthlyTotal(u) \in Nat
  BY TotalTyped
<1>4. /\ year \in Nat /\ currentYear \in Nat
      /\ next \in MonthsOfYear(year) /\ month \in MonthsOfYear(currentYear)
  BY <1>1, YearOfMonth DEF currentYear
<1>5. due \in Nat
  BY <1>1
<1> HIDE DEF bill, next, due, year
<1>6. year > currentYear => \A m \in MonthsOfYear(currentYear) : m < next
  BY <1>1, <1>4, LaterYear DEF year
<1>7. year > currentYear => MonthlyTotal(u) * due = 0
  <2>1. year > currentYear => due = 0
    BY <1>1, <1>4, <1>6
  <2>2. due = 0 => MonthlyTotal(u) * due = 0
    BY <1>3
  <2>3. QED
    BY <2>1, <2>2
<1>8. StatusCard(bill) = "Lunas Setahun Penuh" <=> MonthlyTotal(u) # 0 /\ year > currentYear
  <2>1. Year(bill.nextBill) = year
    BY <1>2 DEF year
  <2>2. MonthlyTotal(u) * due = 0 => ~(MonthlyTotal(u) * due > 0)
    OBVIOUS
  <2>3. QED
    BY <1>2, <1>7, <2>1, <2>2 DEF StatusCard
<1>9. isFullYearPaid(bill) <=> MonthlyTotal(u) # 0 /\ year > currentYear
  BY <1>2, <1>3 DEF isFullYearPaid, year
\* The months of the current year are paid.
<1>10. StatusCard(bill) = "Lunas Setahun Penuh" =>
         \A m \in MonthsOfYear(currentYear) :
            MemberRow(u, currentYear)[m] \in {"Lunas", "Belum terdaftar"}
  <2>1. ASSUME NEW m \in MonthsOfYear(currentYear), m < next
        PROVE  MemberRow(u, currentYear)[m] \in {"Lunas", "Belum terdaftar"}
    <3>1. m \in Month /\ m \in Nat
      BY <1>4, MonthsOfYearAre DEF Month
    <3>2. /\ getChildMonthStatus(u, m) = "Belum terdaftar" <=> m < Joined[u]
          /\ getChildMonthStatus(u, m) = "Lunas" <=> Joined[u] <= m /\ m < next
      BY <3>1, CellOf DEF next
    <3>3. m < Joined[u] \/ Joined[u] <= m
      BY <1>1, <3>1
    <3>4. getChildMonthStatus(u, m) \in {"Lunas", "Belum terdaftar"}
      BY <2>1, <3>2, <3>3
    <3>5. QED
      BY <3>4 DEF MemberRow
  <2>2. QED
    BY <1>6, <1>8, <2>1
\* The months that cannot be unticked are the overdue ones.
<1> DEFINE grid == monthGrid(bill)
<1>11. /\ DOMAIN grid = MonthsOfYear(year)
       /\ \A m \in MonthsOfYear(year) :
            /\ m \in Nat
            /\ grid[m] = "locked" <=> next <= m /\ m <= month
            /\ grid[m] = "selectable" => next <= m /\ m - next >= due
  <2>1. grid = [m \in MonthsOfYear(year) |->
                 CASE m < next -> "paid"
                   [] m >= next /\ m - next < due -> "locked"
                   [] OTHER -> "selectable"]
    BY <1>2 DEF monthGrid, year
  <2>2. ASSUME NEW m \in MonthsOfYear(year)
        PROVE  /\ m \in Nat
               /\ grid[m] = "locked" <=> next <= m /\ m <= month
               /\ grid[m] = "selectable" => next <= m /\ m - next >= due
    <3>1. m \in Nat
      BY <1>4, MonthsOfYearAre DEF Month
    <3>2. grid[m] = CASE m < next -> "paid"
                      [] m >= next /\ m - next < due -> "locked"
                      [] OTHER -> "selectable"
      BY <2>1
    <3> HIDE DEF grid
    <3>3. CASE m < next
      <4>1. grid[m] = "paid" /\ ~(next <= m)
        BY <1>1, <3>1, <3>2, <3>3
      <4>2. QED
        BY <3>1, <4>1
    <3>4. CASE m >= next /\ m - next < due
      <4>1. ~(m < next) /\ next <= m /\ m <= month
        BY <1>1, <3>1, <3>4
      <4>2. grid[m] = "locked"
        BY <3>2, <3>4, <4>1
      <4>3. QED
        BY <3>1, <4>1, <4>2
    <3>5. CASE m >= next /\ ~(m - next < due)
      <4>1. ~(m < next) /\ next <= m /\ ~(m <= month) /\ m - next >= due
        BY <1>1, <1>5, <3>1, <3>5
      <4>2. grid[m] = "selectable"
        BY <3>2, <3>5, <4>1
      <4>3. QED
        BY <3>1, <4>1, <4>2
    <3>6. QED
      BY <1>1, <3>1, <3>3, <3>4, <3>5
  <2>3. QED
    BY <2>1, <2>2
<1> HIDE DEF grid
<1>12. {m \in DOMAIN grid : grid[m] = "locked"}
         = {m \in DOMAIN grid : MemberRow(u, Year(bill.nextBill))[m] = "Menunggak"}
  <2>1. ASSUME NEW m \in MonthsOfYear(year)
        PROVE  MemberRow(u, year)[m] = "Menunggak" <=> next <= m /\ m <= month
    <3>1. m \in Month
      BY <1>4, MonthsOfYearAre
    <3>2. getChildMonthStatus(u, m) = "Menunggak" <=> next <= m /\ m <= month
      BY <3>1, CellOf DEF next
    <3>3. QED
      BY <3>2 DEF MemberRow
  <2>2. Year(bill.nextBill) = year
    BY <1>2 DEF year
  <2>3. QED
    BY <1>11, <2>1, <2>2
\* What is offered covers what is due.
<1>13. ASSUME BilledMonths(u) # {}, MonthlyTotal(u) > 0
       PROVE  /\ \A n \in OfferedMonths(bill) : n >= Cardinality(BilledMonths(u))
              /\ Cardinality(BilledMonths(u)) <= YearLength =>
                    OfferedMonths(bill) # {} /\ \A n \in OfferedMonths(bill) : Accepted(n)
  <2>1. next <= month /\ due = month - next + 1 /\ due > 0
    BY <1>1, <1>13
  <2>2. Cardinality(BilledMonths(u)) = due
    BY <1>1, <2>1, FS_Interval
  <2>3. year <= currentYear
    BY <1>1, <2>1, YearsFollow DEF year, currentYear
  <2>4. ~isFullYearPaid(bill) /\ bill.baseMonthlyAmount # 0
    BY <1>2, <1>3, <1>4, <1>9, <1>13, <2>3
  <2> DEFINE ticked == {m \in DOMAIN grid : grid[m] = "selectable" /\ m - bill.nextBill > 0}
  <2>5. selectedMonthCount(bill) = {due} \cup {m - next : m \in ticked} \cup {m - next + 1 : m \in ticked}
    BY <1>2, <1>5, <2>1 DEF selectedMonthCount, defaultSelect, grid
  <2>6. OfferedMonths(bill) = selectedMonthCount(bill)
    BY <2>4 DEF OfferedMonths
  <2>7. ASSUME NEW m \in ticked
        PROVE  /\ m - next \in Int /\ m - next >= due
               /\ m - next < YearLength
    <3>1. m \in MonthsOfYear(year) /\ m \in Nat /\ m - next >= due
      BY <1>11
    <3>2. QED
      BY <1>1, <1>4, <3>1, MonthsOfYearAre
  <2> HIDE DEF ticked
  <2>8. YearLength \in Nat
    BY YearAssumption
  <2>9. ASSUME NEW n \in OfferedMonths(bill)
        PROVE  n \in Int /\ n >= due /\ (due <= YearLength => n <= YearLength)
    <3>1. CASE n = due
      BY <1>5, <3>1
    <3>2. ASSUME NEW m \in ticked, n = m - next \/ n = m - next + 1
          PROVE  n \in Int /\ n >= due /\ n <= YearLength
      BY <1>5, <2>7, <2>8, <3>2
    <3>3. QED
      BY <2>5, <2>6, <2>9, <3>1, <3>2
  <2>10. OfferedMonths(bill) # {}
    BY <2>5, <2>6
  <2>11. QED
    BY <1>5, <2>1, <2>2, <2>8, <2>9, <2>10 DEF Accepted
<1>14. QED
  BY <1>8, <1>9, <1>10, <1>12, <1>13 DEF BillIsShown, bill, grid

-----------------------------------------------------------------------------
(* Time *)

LEMMA MonthsGoOn ==
    ASSUME BaseInv, [Next]_vars
    PROVE  month' >= month
<1>1. month \in Nat
  BY DEF BaseInv, TypeInv, PaymentsTypeOK, DuesTypeOK, Month
<1>2. month' = month \/ month' = month + 1
  BY DEF Next, Request, Handle, Environment, Gateway, Pay, CreateTransaction, Sync, AskPending,
     MarkOld, BillOrder, RequestToken, AskStatus, Update, Book, BookFails, Notification, ChooseMethod,
     Charge, Refuse, CancelTransaction, GatewayStep, Die, MonthPasses, SetDuesRule,
     DistributeContribution, duesVars, vars
<1>3. QED
  BY <1>1, <1>2

LEMMA ClockStep == BaseInv /\ Clock /\ [Next]_vars => Clock'
<1> SUFFICES ASSUME BaseInv, Clock, [Next]_vars PROVE Clock'
  OBVIOUS
<1>1. Shape /\ BaseInv'
  BY NextShape, BaseStep
<1>2. month' >= StartMonth
  <2>1. month \in Nat /\ month' \in Nat /\ StartMonth \in Nat
    BY <1>1, DuesAssumption DEF BaseInv, TypeInv, PaymentsTypeOK, DuesTypeOK, Month
  <2>2. QED
    BY <2>1, MonthsGoOn DEF Clock
<1>3. \A u \in User : paidUntil'[u] # Never => Joined[u] <= paidUntil'[u]
  <2>1. CASE NoMoney
    BY <2>1 DEF NoMoney, Clock
  <2>2. ASSUME NEW o \in Made, Distributes(o), NEW v \in User, paidUntil'[v] # Never
        PROVE  Joined[v] <= paidUntil'[v]
    <3>1. PICK u, paid : u = order[o].user /\ paid = order[o].amount
      OBVIOUS
    <3>2. DuesTypeOK /\ u \in User /\ paid \in Nat /\ DistributeContribution(u, paid, o)
      BY <2>2, <3>1 DEF Made, BaseInv, TypeInv, PaymentsTypeOK, OrderRow, Distributes
    <3>3. PICK n : n = MonthsPaid(u, paid)
      OBVIOUS
    <3>4. n \in Nat /\ FirstMonth(u) \in Nat
      BY <3>2, <3>3, MonthsTyped DEF Month
    <3>5. paidUntil' = IF n = 0 THEN paidUntil ELSE [paidUntil EXCEPT ![u] = FirstMonth(u) + n - 1]
      BY <3>2, <3>3 DEF DistributeContribution
    <3>6. Joined[u] \in Nat /\ Joined[u] <= FirstMonth(u)
      BY <3>2, DuesAssumption DEF Clock, DuesTypeOK, FirstMonth, Month, Never
    <3>7. CASE v = u /\ n # 0
      <4>1. paidUntil'[v] = FirstMonth(u) + n - 1
        BY <3>2, <3>5, <3>7 DEF DuesTypeOK
      <4>2. QED
        BY <3>4, <3>6, <3>7, <4>1
    <3>8. CASE v # u \/ n = 0
      <4>1. paidUntil'[v] = paidUntil[v]
        BY <3>2, <3>5, <3>8 DEF DuesTypeOK
      <4>2. QED
        BY <2>2, <4>1 DEF Clock
    <3>9. QED
      BY <3>7, <3>8
  <2>3. QED
    BY <1>1, <2>1, <2>2 DEF Shape
<1>4. QED
  BY <1>2, <1>3 DEF Clock

LEMMA ClockInitially == Init => Clock
  BY DuesAssumption DEF Init, DuesInit, Clock, Month, Never

(***************************************************************************)
(* The four computations agree on who has paid, for any residents, groups,  *)
(* rates and length of a year, whatever is paid, notified or polled on the  *)
(* page: the recap of the server, the officers' pages, and what is made of  *)
(* a resident's own bill.                                                   *)
(***************************************************************************)
THEOREM EverybodyCountsTheSame == PageSpec => []RecapMatchesBills
<1>1. BaseInv /\ RowsInv /\ Clock => RecapMatchesBills
  <2> SUFFICES ASSUME BaseInv, RowsInv, Clock PROVE RecapMatchesBills
    OBVIOUS
  <2>1. DuesTypeOK /\ Solid
    BY DEF BaseInv, TypeInv, PaymentsTypeOK, RowsInv
  <2>2. 0 .. currentYear \subseteq Nat
    OBVIOUS
  <2>3. Residents \subseteq User
    BY DEF Residents
  <2>4. QED
    BY <2>1, <2>2, <2>3, RecapHolds, BillHolds DEF RecapMatchesBills
<1>2. Init => BaseInv /\ RowsInv /\ Clock
  BY BaseInitially, RowsInitially, ClockInitially
<1>3. BaseInv /\ RowsInv /\ Clock /\ [Next]_vars => (BaseInv /\ RowsInv /\ Clock)'
  BY BaseStep, RowsStep, ClockStep
<1>4. QED
  BY <1>1, <1>2, <1>3, PageUsesPayments, PTL DEF Spec
=============================================================================
