--------------------------------- MODULE Dues ---------------------------------
(***************************************************************************)
(* Monthly dues (DuesService): the rate of each group, what a resident owes *)
(* and how a payment is spread over months and over the wallets of the RT   *)
(* and its RW.  A month is counted from the first one (year * 12 + month);  *)
(* the carry into the next year the code computes is that addition.         *)
(***************************************************************************)
EXTENDS Ledger, FiniteSets

CONSTANTS
    Order,          \* ids of payment orders, in the order of their creation
    Joined,         \* [User -> month], createdAt of the account
    Rupiah,         \* units of money in a rupiah: amounts are Decimal(15, 2)
    InitialRate,    \* [Group -> Rate], 0: no rule
    NewRate,        \* rates the officers set
    StartMonth,     \* the month it is at first
    LastMonth       \* a bound on time

\* A rate below half a rupiah would be billed as nothing.
Rate == {a \in Nat : a = 0 \/ 2 * a >= Rupiah}

Month == Nat \ {0}
Never == 0          \* lastPaidPeriod = null
NoOrder == 0        \* paymentGatewayTxId = null

ASSUME DuesAssumption ==
    /\ IsFiniteSet(Group) /\ \A g \in Group : ParentOf[g] # g
    /\ Order \subseteq Nat \ {NoOrder}
    /\ Joined \in [User -> Month]
    /\ Rupiah \in Nat \ {0}
    /\ InitialRate \in [Group -> Rate]
    /\ NewRate \subseteq Rate
    /\ StartMonth \in Month /\ LastMonth \in Month
    /\ \A u \in User : Joined[u] <= StartMonth

VARIABLES
    month,          \* the current month
    rate,           \* [Group -> Rate], DuesRule.amount
    paidUntil,      \* [User -> Month \cup {Never}], User.lastPaidPeriod
    contributions,  \* the Contribution table
    credited        \* [Order -> Nat], CREDIT log rows tagged with the order

duesVars == <<month, rate, paidUntil, contributions, credited, ledgerVars>>

Contribution == [user : User, month : Month, amount : Nat, order : Order \cup {NoOrder}]

DuesTypeOK ==
    /\ LedgerTypeOK
    /\ month \in Month
    /\ rate \in [Group -> Rate]
    /\ paidUntil \in [User -> Month \cup {Never}]
    /\ contributions \subseteq Contribution
    /\ credited \in [Order -> Nat]

DuesInit ==
    /\ LedgerInit
    /\ month = StartMonth
    /\ rate = InitialRate
    /\ paidUntil = [u \in User |-> Never]
    /\ contributions = {}
    /\ credited = [o \in Order |-> 0]

-----------------------------------------------------------------------------
(* The bill *)

Officers == {u \in User : RoleOf[u] \in {"ADMIN", "LEADER", "TREASURER"}}
Residents == {u \in User : RoleOf[u] = "RESIDENT"}

Home(u) == GroupOf[u]
Parent(u) == ParentOf[GroupOf[u]]

ParentRate(u) == IF Parent(u) = NoGroup THEN 0 ELSE rate[Parent(u)]
MonthlyTotal(u) == rate[Home(u)] + ParentRate(u)

\* The first month the bill asks for, and how many are due today.
NextBillMonth(u) == IF paidUntil[u] = Never THEN Joined[u] ELSE paidUntil[u] + 1
UnpaidMonths(u) == IF month < NextBillMonth(u) THEN 0 ELSE month - NextBillMonth(u) + 1

HasPaid(u, m) == \E c \in contributions : c.user = u /\ c.month = m

-----------------------------------------------------------------------------
(* A payment of u *)

\* Mutant: rounded to the next whole month.
MonthsPaidRoundedUp(u, paid) ==
    IF MonthlyTotal(u) = 0 THEN 0 ELSE (paid + MonthlyTotal(u) - 1) \div MonthlyTotal(u)
MonthsPaid(u, paid) == IF MonthlyTotal(u) = 0 THEN 0 ELSE paid \div MonthlyTotal(u)

\* The RW gets its rate for each month.
ToParent(u, paid) == ParentRate(u) * MonthsPaid(u, paid)

\* Mutant: what is left over stays with nobody.
ToHomeNoDonation(u, paid) == rate[Home(u)] * MonthsPaid(u, paid)
\* The RT gets the rest: its own rate and what is left over.
ToHome(u, paid) == paid - ToParent(u, paid)

Shares(u, paid) ==
    [g \in Group |-> CASE g = Home(u) -> ToHome(u, paid)
                       [] g = Parent(u) -> ToParent(u, paid)
                       [] OTHER -> 0]

\* Mutant: every payment starts with the current month.
FirstMonthAlwaysCurrent(u) == month
FirstMonth(u) == IF paidUntil[u] = Never THEN month ELSE paidUntil[u] + 1

\* Mutant: the order is not named in the row.
LinkNever(u, m, o) == NoOrder
\* Only the row of the first month names the order.
Link(u, m, o) == IF m = FirstMonth(u) THEN o ELSE NoOrder

NewContributions(u, paid, o) ==
    LET last == FirstMonth(u) + MonthsPaid(u, paid) - 1
    IN  {[user |-> u, month |-> m, amount |-> MonthlyTotal(u), order |-> Link(u, m, o)] :
            m \in {n \in FirstMonth(u) .. last : ~HasPaid(u, n)}}

\* Contribution.paymentGatewayTxId is unique: an insert that breaks that
\* rolls the transaction back.
LinkIsFree(u, paid, o) ==
    ~ \E new \in NewContributions(u, paid, o), old \in contributions :
        new.order = o /\ old.order = o

DistributeContribution(u, paid, o) ==
    /\ LinkIsFree(u, paid, o)
    /\ CreditShares(Shares(u, paid))
    /\ credited' = [credited EXCEPT ![o] = @ + ToHome(u, paid) + ToParent(u, paid)]
    /\ contributions' = contributions \cup NewContributions(u, paid, o)
    /\ paidUntil' = IF MonthsPaid(u, paid) = 0 THEN paidUntil
                    ELSE [paidUntil EXCEPT ![u] = FirstMonth(u) + MonthsPaid(u, paid) - 1]
    /\ UNCHANGED <<month, rate>>

-----------------------------------------------------------------------------
\* upsertDuesRule: the rate of the officer's own group.
SetDuesRule(u, a) ==
    /\ u \in Officers
    /\ rate' = [rate EXCEPT ![GroupOf[u]] = a]
    /\ UNCHANGED <<month, paidUntil, contributions, credited, ledgerVars>>

MonthPasses ==
    /\ month < LastMonth
    /\ month' = month + 1
    /\ UNCHANGED <<rate, paidUntil, contributions, credited, ledgerVars>>

-----------------------------------------------------------------------------
MonthsOf(u) == {c.month : c \in {d \in contributions : d.user = u}}
RowsOf(u) == {c \in contributions : c.user = u}

(***************************************************************************)
(* Once a resident has paid, their rows are consecutive months without a    *)
(* gap or a month charged twice, up to the month lastPaidPeriod names, which *)
(* is where the next bill starts.                                           *)
(***************************************************************************)
EveryMonthOnce ==
    \A u \in User :
        /\ Cardinality(RowsOf(u)) = Cardinality(MonthsOf(u))
        /\ IF paidUntil[u] = Never THEN MonthsOf(u) = {}
           ELSE \E first \in MonthsOf(u) : MonthsOf(u) = first .. paidUntil[u]
=============================================================================
