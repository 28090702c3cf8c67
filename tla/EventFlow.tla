------------------------------- MODULE EventFlow -------------------------------
(***************************************************************************)
(* What the events module promises of one event's life, as if every request *)
(* and every cancellation by the job were a single step: the phases it goes *)
(* through, and that money moves in the same step as the phase it belongs   *)
(* to.                                                                      *)
(***************************************************************************)
EXTENDS Integers

CONSTANT Event
VARIABLES
    phase,      \* [Event -> status]
    held        \* [Event -> Int], money out of the wallets for the event

flowVars == <<phase, held>>

FlowInit ==
    /\ phase = [e \in Event |-> "ABSENT"]
    /\ held = [e \in Event |-> 0]

Moves(e, from, to) ==
    /\ phase[e] \in from
    /\ phase' = [phase EXCEPT ![e] = to]

\* The phases before and after the money has no part.
Draft(e) ==
    /\ \/ Moves(e, {"ABSENT"}, "DRAFT")
       \/ Moves(e, {"DRAFT"}, "DELETED")
       \/ Moves(e, {"DRAFT", "REJECTED"}, "SUBMITTED")
       \/ Moves(e, {"SUBMITTED"}, "REJECTED")
    /\ UNCHANGED held

Fund(e) ==
    /\ Moves(e, {"SUBMITTED"}, "FUNDED")
    /\ held[e] = 0 /\ held'[e] >= 0
    /\ held' = [held EXCEPT ![e] = held'[e]]

\* More is asked of the parent group; what it grants goes to the group's
\* wallet, not to the event.
Review(e) ==
    /\ Moves(e, {"FUNDED"}, "UNDER_REVIEW") \/ Moves(e, {"UNDER_REVIEW"}, "FUNDED")
    /\ UNCHANGED held

\* The report gives back what was not spent.
Report(e) ==
    /\ Moves(e, {"FUNDED"}, "ONGOING")
    /\ held'[e] <= held[e]
    /\ held' = [held EXCEPT ![e] = held'[e]]

Close(e) ==
    /\ Moves(e, {"ONGOING"}, "COMPLETED") \/ Moves(e, {"COMPLETED"}, "SETTLED")
    /\ UNCHANGED held

\* Nothing stays out with a cancelled event ...
Cancel(e) ==
    /\ Moves(e, {"DRAFT", "SUBMITTED", "REJECTED", "FUNDED", "ONGOING"}, "CANCELLED")
    /\ held'[e] <= 0
    /\ held' = [held EXCEPT ![e] = held'[e]]

\* ... unless it was under review: it is taken for one without money.
Abandon(e) ==
    /\ Moves(e, {"UNDER_REVIEW"}, "CANCELLED")
    /\ UNCHANGED held

FlowNext ==
    \E e \in Event :
        Draft(e) \/ Fund(e) \/ Review(e) \/ Report(e) \/ Close(e) \/ Cancel(e) \/ Abandon(e)

FlowSpec == FlowInit /\ [][FlowNext]_flowVars
=============================================================================
