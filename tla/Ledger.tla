-------------------------------- MODULE Ledger --------------------------------
(***************************************************************************)
(* Group wallets, and what the transaction log says of the events.  A       *)
(* wallet update is an atomic increment or decrement in the same database   *)
(* transaction as the log row that explains it.  A log row may be tagged    *)
(* with an event; the tagged rows are kept as their sum.                    *)
(***************************************************************************)
EXTENDS Organization, Functions

CONSTANTS
    Event,      \* event ids
    Opening     \* [Group -> Int], wallet balances before the first log row

ASSUME LedgerAssumption == Opening \in [Group -> Int]

VARIABLES
    balance,    \* [Group -> Int], Wallet.balance
    paidOut     \* [Event -> Int], log rows written for the event: DEBIT less CREDIT
                \* (a deletion unties them from the event, here they stay counted)

ledgerVars == <<balance, paidOut>>

LedgerTypeOK ==
    /\ balance \in [Group -> Int]
    /\ paidOut \in [Event -> Int]

LedgerInit ==
    /\ balance = Opening
    /\ paidOut = [e \in Event |-> 0]

-----------------------------------------------------------------------------
\* A CREDIT of amount a on the wallet of g, with its log row; tagged with e.
CreditForEvent(g, a, e) ==
    /\ balance' = [balance EXCEPT ![g] = @ + a]
    /\ paidOut' = [paidOut EXCEPT ![e] = @ - a]

\* Mutant: the log row lacks its eventId.
DebitUntagged(g, a, e) ==
    /\ balance' = [balance EXCEPT ![g] = @ - a]
    /\ UNCHANGED paidOut
\* A DEBIT of amount a on the wallet of g, with its log row; tagged with e.
DebitForEvent(g, a, e) ==
    /\ balance' = [balance EXCEPT ![g] = @ - a]
    /\ paidOut' = [paidOut EXCEPT ![e] = @ + a]

\* transferInterGroup's transaction: four statements, none tagged with an event.
TransferBetween(src, dst, a) ==
    /\ balance' = [balance EXCEPT ![src] = @ - a, ![dst] = @ + a]
    /\ UNCHANGED paidOut

\* Each group gets its share of a payment of dues, with a log row of it.
CreditShares(share) ==
    /\ balance' = [g \in Group |-> balance[g] + share[g]]
    /\ UNCHANGED paidOut

=============================================================================
