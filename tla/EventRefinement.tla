---------------------------- MODULE EventRefinement ----------------------------
(***************************************************************************)
(* The handlers of EventLifecycle and EventFunding and the hourly job, one  *)
(* at a time, implement EventFlow.  A payment or refund takes effect with   *)
(* the status that explains it, although the code moves the money in a      *)
(* transaction before or after that.                                        *)
(***************************************************************************)
EXTENDS EventFunding

\* Money a handler has moved ahead of the status, or still owes after it.
InTransit(s, e) ==
    IF Ev(s) # e THEN 0
    ELSE IF At(s, "approve", "commit") THEN -req[s].budget
    ELSE IF req[s].op = "cancel" /\ req[s].pc \in {"mark", "set"} THEN req[s].amount
    ELSE IF At(s, "expense", "refund") THEN -req[s].amount
    ELSE 0

\* Money the job has given back for the event it is about to cancel.
ReturnedByJob(e) ==
    IF job.event # e \/ job.pc \notin {"initial", "extra", "mark", "set"} THEN 0
    ELSE IF job.list[e].status # "FUNDED" THEN 0
    ELSE (IF job.pc # "initial" /\ job.initial > 0 THEN job.initial ELSE 0)
         + SumFunctionOnSet(AmountOf, job.list[e].extra \ job.extra)

Held == [e \in Event |->
           paidOut[e] + ReturnedByJob(e) + SumFunction([s \in Slot |-> InTransit(s, e)])]

Flow == INSTANCE EventFlow WITH phase <- [e \in Event |-> Status(e)], held <- Held

(***************************************************************************)
(* Each event goes through the phases of EventFlow and its money moves with *)
(* them: what clients see is a sequence of whole requests, among which the  *)
(* job's cancellations are single steps too.                                *)
(***************************************************************************)
ImplementsFlow == Flow!FlowSpec
=============================================================================
